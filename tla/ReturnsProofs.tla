---------------------------- MODULE ReturnsProofs ----------------------------
(***************************************************************************)
(* Proofs about AccountReturns and PortfolioReturns.                       *)
(***************************************************************************)
EXTENDS PortfolioReturns, SumTheorems, SequenceTheorems

-----------------------------------------------------------------------------
(***************************************************************************)
(* Sets of dates.                                                          *)
(***************************************************************************)

\* A finite set of numbers that is not empty has a minimum.
LEMMA MinIs ==
    ASSUME NEW S \in SUBSET Int, IsFiniteSet(S), S # {}
    PROVE  Min(S) \in S /\ \A x \in S : Min(S) <= x
<1> DEFINE R == {xy \in S \X S : xy[1] >= xy[2]}
<1>1. \A x, y \in S : <<x, y>> \in R <=> x >= y
  OBVIOUS
<1>2. /\ \A x, y \in S : <<x, y>> \in R \/ <<y, x>> \in R
      /\ \A x, y, z \in S : <<x, y>> \in R /\ <<y, z>> \in R => <<x, z>> \in R
  BY <1>1
<1>3. \E m \in S : \A x \in S : <<x, m>> \in R
  <2> HIDE DEF R
  <2> QED BY <1>2, GreatestOf
<1>4. \E m \in S : \A x \in S : m <= x
  BY <1>1, <1>3
<1> QED BY <1>4 DEF Min

\* The maximum is the element that no other exceeds.
LEMMA MaxUnique ==
    ASSUME NEW S \in SUBSET Int, IsFiniteSet(S), NEW m \in S, \A x \in S : x <= m
    PROVE  Max(S) = m
<1>1. Max(S) \in S /\ \A x \in S : x <= Max(S)
  BY MaxIs
<1>2. Max(S) <= m /\ m <= Max(S) /\ m \in Int /\ Max(S) \in Int
  BY <1>1
<1> QED BY <1>2

\* The minimum is the element that exceeds no other.
LEMMA MinUnique ==
    ASSUME NEW S \in SUBSET Int, IsFiniteSet(S), NEW m \in S, \A x \in S : m <= x
    PROVE  Min(S) = m
<1>1. Min(S) \in S /\ \A x \in S : Min(S) <= x
  BY MinIs
<1>2. Min(S) <= m /\ m <= Min(S) /\ m \in Int /\ Min(S) \in Int
  BY <1>1
<1> QED BY <1>2

-----------------------------------------------------------------------------
(***************************************************************************)
(* The days of an analysis.                                                *)
(***************************************************************************)

\* What the calculation of returns expects of the days it is given: an amount, once
\* known, stays known, and a day without movements has no flow.
DayRecords == [flow : Int, moved : BOOLEAN, assets : Int \cup {Nothing}]
Days(days) ==
    /\ DOMAIN days \in SUBSET Nat
    /\ IsFiniteSet(DOMAIN days)
    /\ \A d \in DOMAIN days : days[d] \in DayRecords
    /\ \A d \in DOMAIN days : ~days[d].moved => days[d].flow = 0
    /\ \A d, e \in DOMAIN days : d <= e /\ days[d].assets # Nothing => days[e].assets # Nothing

\* The start and the end of the interval, and the days in it.
Start(days, from) == IF from = Nothing THEN OpeningDay(days, from) ELSE from - 1
End(days) == Max(DOMAIN days)
After(days, start) == {d \in DOMAIN days : d > start}

\* An interval has returns.
Defined(days, from) ==
    /\ OpeningDay(days, from) # Nothing
    /\ days[OpeningDay(days, from)].assets # Nothing
    /\ Start(days, from) < End(days)

OpeningOf(days, from) == days[OpeningDay(days, from)].assets

Flows(days) == [d \in DOMAIN days |-> days[d].flow]
WeightedFlows(days, end) == [d \in DOMAIN days |-> days[d].flow * Weight(end, d)]
Moments(days, start) == [d \in DOMAIN days |-> days[d].flow * (d - start)]

ChainOf(days, from) == Chain(days, Start(days, from), End(days), OpeningOf(days, from))

\* The opening is one of the days.
LEMMA OpeningIs ==
    ASSUME NEW days, Days(days), NEW from \in Nat \cup {Nothing}, OpeningDay(days, from) # Nothing
    PROVE  /\ OpeningDay(days, from) \in DOMAIN days
           /\ from = Nothing =>
                 /\ days[OpeningDay(days, from)].assets # Nothing
                 /\ \A d \in DOMAIN days : days[d].assets # Nothing => OpeningDay(days, from) <= d
           /\ from # Nothing =>
                 /\ OpeningDay(days, from) < from
                 /\ \A d \in DOMAIN days : d < from => d <= OpeningDay(days, from)
<1> DEFINE known == {d \in DOMAIN days : days[d].assets # Nothing}
           before == {d \in DOMAIN days : d < from}
<1>1. known \in SUBSET Int /\ before \in SUBSET Int /\ IsFiniteSet(known) /\ IsFiniteSet(before)
  BY FS_Subset DEF Days
<1>2. CASE from = Nothing
  <2>1. known # {} /\ OpeningDay(days, from) = Min(known)
    BY <1>2 DEF OpeningDay
  <2>2. Min(known) \in known /\ \A d \in known : Min(known) <= d
    BY <1>1, <2>1, MinIs
  <2> QED BY <1>2, <2>1, <2>2
<1>3. CASE from # Nothing
  <2>1. before # {} /\ OpeningDay(days, from) = Max(before)
    BY <1>3 DEF OpeningDay
  <2>2. Max(before) \in before /\ \A d \in before : d <= Max(before)
    BY <1>1, <2>1, MaxIs
  <2> QED BY <1>3, <2>1, <2>2
<1> QED BY <1>2, <1>3

\* The end is the last of the days.
LEMMA EndIs ==
    ASSUME NEW days, Days(days), DOMAIN days # {}
    PROVE  End(days) \in DOMAIN days /\ \A d \in DOMAIN days : d <= End(days)
<1>1. DOMAIN days \in SUBSET Int /\ IsFiniteSet(DOMAIN days)
  BY DEF Days
<1> QED BY <1>1, MaxIs DEF End

\* What is known of an interval that has returns.
LEMMA DefinedIs ==
    ASSUME NEW days, Days(days), NEW from \in Nat \cup {Nothing}, from # 0, Defined(days, from)
    PROVE  /\ OpeningDay(days, from) \in DOMAIN days
           /\ Start(days, from) \in Nat /\ End(days) \in Nat
           /\ OpeningDay(days, from) <= Start(days, from)
           /\ Start(days, from) < End(days)
           /\ End(days) \in After(days, Start(days, from))
           /\ \A d \in DOMAIN days : d <= End(days)
           /\ OpeningOf(days, from) \in Int
           /\ \A d \in DOMAIN days : OpeningDay(days, from) <= d => days[d].assets \in Int
           /\ \A d \in DOMAIN days : OpeningDay(days, from) < d => d > Start(days, from)
<1> DEFINE first == OpeningDay(days, from)
<1>1. first \in DOMAIN days
  BY OpeningIs DEF Defined
<1>2. first \in Nat /\ DOMAIN days # {}
  BY <1>1 DEF Days
<1>3. End(days) \in DOMAIN days /\ End(days) \in Nat /\ \A d \in DOMAIN days : d <= End(days)
  BY <1>2, EndIs DEF Days
<1>4. Nothing \notin Int
  BY ReturnsAssumption
<1>5. /\ Start(days, from) \in Nat /\ first <= Start(days, from)
      /\ \A d \in DOMAIN days : first < d => d > Start(days, from)
  <2>1. CASE from = Nothing
    BY <1>1, <1>2, <2>1 DEF Start
  <2>2. CASE from # Nothing
    <3>1. from \in Nat \ {0} /\ first < from /\ \A d \in DOMAIN days : d < from => d <= first
      BY <2>2, OpeningIs DEF Defined
    <3>2. DOMAIN days \in SUBSET Nat
      BY DEF Days
    <3> QED BY <1>2, <2>2, <3>1, <3>2 DEF Start
  <2> QED BY <2>1, <2>2
<1>6. \A d \in DOMAIN days : first <= d => days[d].assets \in Int
  BY <1>1 DEF Defined, Days, DayRecords
<1>7. Start(days, from) < End(days)
  BY DEF Defined
<1> HIDE DEF first
<1> QED BY <1>1, <1>2, <1>3, <1>5, <1>6, <1>7 DEF After, OpeningOf, first

-----------------------------------------------------------------------------
(***************************************************************************)
(* The chain, from day to day.                                             *)
(***************************************************************************)

Fresh(opening) == [net |-> 0, moment |-> 0, reason |-> "none", chain |-> <<1, 1>>, base |-> opening]

\* What a chain that is known at the end of the day before is at the end of the day n.
ChainStep(days, start, opening, x, n) ==
    IF n <= start THEN Fresh(opening)
    ELSE IF n \in DOMAIN days THEN Extend(x, n - start, days[n]) ELSE x

ChainRuns(days, start, opening, g, n) == \A k \in 0 .. n : g[k] = ChainStep(days, start, opening, g[k - 1], k)

ChainSolves(days, start, opening, end, g) ==
    g = [n \in 0 .. end |-> ChainStep(days, start, opening, g[n - 1], n)]

\* The recursion behind Chain has a solution.
LEMMA ChainExists ==
    ASSUME NEW days, NEW start \in Nat, NEW opening, NEW end \in Nat
    PROVE  \E g : ChainSolves(days, start, opening, end, g)
<1> DEFINE M == {n \in Nat : \E g : ChainRuns(days, start, opening, g, n)}
<1>1. 0 \in M
  <2> DEFINE h == [k \in {0} |-> Fresh(opening)]
  <2>1. ChainRuns(days, start, opening, h, 0)
    BY DEF ChainRuns, ChainStep
  <2> HIDE DEF h
  <2> QED BY <2>1
<1>2. ASSUME NEW n \in M PROVE n + 1 \in M
  <2>1. PICK g : ChainRuns(days, start, opening, g, n)
    OBVIOUS
  <2> DEFINE h == [k \in 0 .. n + 1 |->
                      IF k = n + 1 THEN ChainStep(days, start, opening, g[n], n + 1) ELSE g[k]]
  <2>2. ASSUME NEW k \in 0 .. n + 1 PROVE h[k] = ChainStep(days, start, opening, h[k - 1], k)
    <3>1. CASE k = n + 1
      BY <3>1
    <3>2. CASE k # n + 1
      <4>1. k \in 0 .. n /\ h[k] = g[k]
        BY <3>2
      <4>2. k # 0 => h[k - 1] = g[k - 1]
        BY <3>2
      <4>3. k = 0 => \A x : ChainStep(days, start, opening, x, k) = Fresh(opening)
        BY DEF ChainStep
      <4> HIDE DEF h
      <4> QED BY <2>1, <4>1, <4>2, <4>3 DEF ChainRuns
    <3> QED BY <3>1, <3>2
  <2>3. ChainRuns(days, start, opening, h, n + 1)
    BY <2>2 DEF ChainRuns
  <2>4. \E x : ChainRuns(days, start, opening, x, n + 1)
    <3> HIDE DEF h
    <3> QED BY <2>3
  <2> QED BY <2>4
<1>3. end \in M
  <2> HIDE DEF M
  <2>1. M \in SUBSET Nat
    BY DEF M
  <2> QED BY <1>1, <1>2, <2>1, AllNumbers
<1>4. PICK g : ChainRuns(days, start, opening, g, end)
  BY <1>3
<1> DEFINE r == [n \in 0 .. end |-> g[n]]
<1>5. ASSUME NEW n \in 0 .. end PROVE r[n] = ChainStep(days, start, opening, r[n - 1], n)
  <2>1. n # 0 => r[n - 1] = g[n - 1]
    OBVIOUS
  <2>2. n = 0 => \A x : ChainStep(days, start, opening, x, n) = Fresh(opening)
    BY DEF ChainStep
  <2>3. r[n] = g[n] /\ g[n] = ChainStep(days, start, opening, g[n - 1], n)
    BY <1>4 DEF ChainRuns
  <2> HIDE DEF r
  <2> QED BY <2>1, <2>2, <2>3
<1>6. r = [n \in 0 .. end |-> ChainStep(days, start, opening, r[n - 1], n)]
  BY <1>5
<1> HIDE DEF r
<1> QED BY <1>6 DEF ChainSolves

\* The chain from day to day.
LEMMA ChainAt ==
    ASSUME NEW days, NEW start \in Nat, NEW opening, NEW end \in Nat, NEW n \in 0 .. end
    PROVE  Chain(days, start, end, opening)[n] =
              ChainStep(days, start, opening, Chain(days, start, end, opening)[n - 1], n)
<1> DEFINE Solves(g) == ChainSolves(days, start, opening, end, g)
           c == Chain(days, start, end, opening)
<1>1. c = CHOOSE g : Solves(g)
  BY DEF Chain, ChainSolves, ChainStep, Fresh
<1>2. \E g : Solves(g)
  BY ChainExists
<1>3. Solves(c)
  <2> HIDE DEF Solves, c
  <2> QED BY <1>1, <1>2
<1> HIDE DEF c
<1>4. c[n] = ChainStep(days, start, opening, c[n - 1], n)
  BY <1>3, Zenon DEF ChainSolves
<1> QED BY <1>4 DEF c

\* It is fresh until the interval starts, ...
LEMMA ChainFresh ==
    ASSUME NEW days, NEW start \in Nat, NEW opening, NEW end \in Nat, NEW n \in 0 .. end, n <= start
    PROVE  Chain(days, start, end, opening)[n] = Fresh(opening)
<1> DEFINE c == Chain(days, start, end, opening)
<1>1. c[n] = ChainStep(days, start, opening, c[n - 1], n)
  BY ChainAt
<1> HIDE DEF c
<1>2. c[n] = Fresh(opening)
  BY <1>1 DEF ChainStep
<1> QED BY <1>2 DEF c

\* ... and then goes through the days.
LEMMA ChainIs ==
    ASSUME NEW days, NEW start \in Nat, NEW opening, NEW end \in Nat, NEW n \in 0 .. end, start < n
    PROVE  Chain(days, start, end, opening)[n] =
              IF n \in DOMAIN days
              THEN Extend(Chain(days, start, end, opening)[n - 1], n - start, days[n])
              ELSE Chain(days, start, end, opening)[n - 1]
<1> DEFINE c == Chain(days, start, end, opening)
<1>1. c[n] = ChainStep(days, start, opening, c[n - 1], n)
  BY ChainAt
<1>2. ~(n <= start)
  OBVIOUS
<1> HIDE DEF c
<1>3. c[n] = IF n \in DOMAIN days THEN Extend(c[n - 1], n - start, days[n]) ELSE c[n - 1]
  BY <1>1, <1>2 DEF ChainStep
<1> QED BY <1>3 DEF c

-----------------------------------------------------------------------------
(***************************************************************************)
(* What a chain is worth.                                                  *)
(***************************************************************************)

Reasons == {"none", "missing_flow_boundary", "negative_twr_factor", "zero_twr_base"}
ChainStates == [net : Int, moment : Int, reason : Reasons, chain : Int \X Int, base : Int]

Good(c) == c \in ChainStates /\ (c.reason = "none" => c.chain[2] > 0)

\* Products that are positive.
LEMMA Positives == ASSUME NEW x \in Int, NEW y \in Int, x > 0, y > 0 PROVE x * y \in Int /\ x * y > 0
OBVIOUS

\* The step of a chain at a day.
LEMMA GapIs ==
    ASSUME NEW c, Good(c), NEW d \in DayRecords
    PROVE  /\ Gap(c, d) \in Reasons
           /\ c.reason # "none" => Gap(c, d) = c.reason
           /\ Gap(c, d) = "none" =>
                 /\ c.reason = "none" /\ d.assets \in Int /\ d.assets >= 0 /\ c.base >= 0
                 /\ c.base = 0 => d.assets = d.flow
                 /\ c.base # 0 => d.assets - d.flow >= 0
                 /\ Growth(c, d) \in Int \X Int
                 /\ Growth(c, d)[2] > 0
<1> DEFINE gap == Gap(c, d)
<1>0. Nothing \notin Int
  BY ReturnsAssumption
<1>1. c \in ChainStates /\ d.assets \in Int \cup {Nothing} /\ d.flow \in Int /\ c.base \in Int
  BY DEF Good, ChainStates, DayRecords
<1>2. CASE c.reason # "none"
  <2>1. gap = c.reason
    BY <1>2 DEF Gap
  <2> QED BY <1>1, <1>2, <2>1 DEF ChainStates
<1>3. CASE c.reason = "none"
  <2>1. CASE d.assets = Nothing
    <3>1. gap = "missing_flow_boundary"
      BY <1>3, <2>1 DEF Gap
    <3> QED BY <1>3, <3>1 DEF Reasons
  <2>2. CASE d.assets # Nothing
    <3>1. d.assets \in Int
      BY <1>1, <2>2
    <3>2. CASE d.assets < 0 \/ c.base < 0
      <4>1. gap = "negative_twr_factor"
        BY <1>3, <2>2, <3>2 DEF Gap
      <4> QED BY <1>3, <4>1 DEF Reasons
    <3>3. CASE ~(d.assets < 0 \/ c.base < 0) /\ c.base = 0
      <4>1. gap = IF d.assets - d.flow # 0 THEN "zero_twr_base" ELSE "none"
        BY <1>3, <2>2, <3>3 DEF Gap
      <4>2. Growth(c, d) = c.chain
        BY <3>3 DEF Growth
      <4>3. c.chain \in Int \X Int /\ c.chain[2] > 0
        BY <1>3 DEF Good, ChainStates
      <4> QED BY <1>1, <1>3, <3>1, <3>3, <4>1, <4>2, <4>3 DEF Reasons
    <3>4. CASE ~(d.assets < 0 \/ c.base < 0) /\ c.base # 0
      <4>1. gap = IF d.assets - d.flow < 0 THEN "negative_twr_factor" ELSE "none"
        BY <1>3, <2>2, <3>4 DEF Gap
      <4>2. Growth(c, d) = <<c.chain[1] * (d.assets - d.flow), c.chain[2] * c.base>>
        BY <3>4 DEF Growth
      <4>3. c.chain[1] \in Int /\ c.chain[2] \in Int /\ c.chain[2] > 0
        BY <1>3 DEF Good, ChainStates
      <4>4. c.chain[2] * c.base > 0 /\ c.chain[2] * c.base \in Int
        BY <1>1, <3>4, <4>3, Positives
      <4>5. c.chain[1] * (d.assets - d.flow) \in Int
        BY <1>1, <3>1, <4>3
      <4> QED BY <1>1, <1>3, <3>1, <3>4, <4>1, <4>2, <4>4, <4>5 DEF Reasons
    <3> QED BY <3>2, <3>3, <3>4
  <2> QED BY <2>1, <2>2
<1> QED BY <1>2, <1>3

\* A day that is added, field by field.
LEMMA ExtendIs ==
    ASSUME NEW c, Good(c), NEW d \in DayRecords, NEW elapsed \in Int
    PROVE  /\ Good(Extend(c, elapsed, d))
           /\ Extend(c, elapsed, d).net = c.net + d.flow
           /\ Extend(c, elapsed, d).moment = c.moment + d.flow * elapsed
           /\ ~d.moved => /\ Extend(c, elapsed, d).reason = c.reason
                          /\ Extend(c, elapsed, d).chain = c.chain
                          /\ Extend(c, elapsed, d).base = c.base
           /\ d.moved => Extend(c, elapsed, d).reason = Gap(c, d)
           /\ d.moved /\ Gap(c, d) = "none" =>
                 /\ Extend(c, elapsed, d).chain = Growth(c, d)
                 /\ Extend(c, elapsed, d).base = d.assets
<1> DEFINE x == Extend(c, elapsed, d)
           y == [c EXCEPT !.net = @ + d.flow, !.moment = @ + d.flow * elapsed]
<1>1. /\ c \in ChainStates /\ d.flow \in Int /\ d.moved \in BOOLEAN
      /\ c.net \in Int /\ c.moment \in Int /\ c.reason \in Reasons
      /\ c.chain \in Int \X Int /\ c.base \in Int
  BY DEF Good, ChainStates, DayRecords
<1>2. d.flow * elapsed \in Int
  BY <1>1
<1>3. /\ y \in ChainStates
      /\ y.net = c.net + d.flow /\ y.moment = c.moment + d.flow * elapsed
      /\ y.reason = c.reason /\ y.chain = c.chain /\ y.base = c.base
  <2>1. PICK net \in Int, moment \in Int : net = c.net + d.flow /\ moment = c.moment + d.flow * elapsed
    BY <1>1, <1>2
  <2>2. y = [c EXCEPT !.net = net, !.moment = moment]
    BY <2>1
  <2> HIDE DEF y
  <2> QED BY <1>1, <2>1, <2>2 DEF ChainStates
<1>4. CASE ~d.moved
  <2>1. x = y
    BY <1>4 DEF Extend
  <2> HIDE DEF x, y
  <2> QED BY <1>1, <1>3, <1>4, <2>1 DEF Good, x
<1>5. CASE d.moved /\ Gap(c, d) # "none"
  <2>1. x = [y EXCEPT !.reason = Gap(c, d)]
    BY <1>5 DEF Extend
  <2>2. Gap(c, d) \in Reasons
    BY GapIs
  <2> HIDE DEF x, y
  <2> QED BY <1>1, <1>3, <1>5, <2>1, <2>2 DEF Good, ChainStates, x
<1>6. CASE d.moved /\ Gap(c, d) = "none"
  <2>1. x = [y EXCEPT !.chain = Growth(c, d), !.base = d.assets]
    BY <1>6 DEF Extend, BaseAfter
  <2>2. /\ c.reason = "none" /\ d.assets \in Int
        /\ Growth(c, d) \in Int \X Int /\ Growth(c, d)[2] > 0
    BY <1>6, GapIs
  <2> HIDE DEF x, y
  <2> QED BY <1>1, <1>3, <1>6, <2>1, <2>2 DEF Good, ChainStates, x
<1> QED BY <1>1, <1>4, <1>5, <1>6

\* The days of an interval up to a date.
Within(days, start, n) == {d \in DOMAIN days : start < d /\ d <= n}

\* One more date.
LEMMA WithinStep ==
    ASSUME NEW days, Days(days), NEW start \in Nat, NEW n \in Nat
    PROVE  /\ IsFiniteSet(Within(days, start, n))
           /\ Within(days, start, n) \in SUBSET DOMAIN days
           /\ n <= start => Within(days, start, n) = {}
           /\ n > start /\ n \notin DOMAIN days => Within(days, start, n) = Within(days, start, n - 1)
           /\ n > start /\ n \in DOMAIN days =>
                 /\ Within(days, start, n) = Within(days, start, n - 1) \cup {n}
                 /\ n \notin Within(days, start, n - 1)
<1>1. DOMAIN days \in SUBSET Nat /\ IsFiniteSet(DOMAIN days)
  BY DEF Days
<1>2. Within(days, start, n) \in SUBSET DOMAIN days
  BY DEF Within
<1>3. IsFiniteSet(Within(days, start, n))
  BY <1>1, <1>2, FS_Subset
<1>4. n <= start => Within(days, start, n) = {}
  BY <1>1 DEF Within
<1>5. n > start /\ n \notin DOMAIN days => Within(days, start, n) = Within(days, start, n - 1)
  BY <1>1 DEF Within
<1>6. n > start /\ n \in DOMAIN days =>
                 /\ Within(days, start, n) = Within(days, start, n - 1) \cup {n}
                 /\ n \notin Within(days, start, n - 1)
  BY <1>1 DEF Within
<1> QED BY <1>2, <1>3, <1>4, <1>5, <1>6

\* At the end of every day the state of the chain is well-formed, and its running sums
\* are the sums over the days so far.
LEMMA ChainSums ==
    ASSUME NEW days, Days(days), NEW start \in Nat, NEW end \in Nat, NEW opening \in Int, NEW n \in 0 .. end
    PROVE  /\ Good(Chain(days, start, end, opening)[n])
           /\ Chain(days, start, end, opening)[n].net = SumFunctionOnSet(Flows(days), Within(days, start, n))
           /\ Chain(days, start, end, opening)[n].moment =
                 SumFunctionOnSet(Moments(days, start), Within(days, start, n))
<1> DEFINE c == Chain(days, start, end, opening)
           Fine(k) == /\ Good(c[k])
                      /\ c[k].net = SumFunctionOnSet(Flows(days), Within(days, start, k))
                      /\ c[k].moment = SumFunctionOnSet(Moments(days, start), Within(days, start, k))
           N == {k \in Nat : k <= end => Fine(k)}
<1>0. Good(Fresh(opening)) /\ Fresh(opening).net = 0 /\ Fresh(opening).moment = 0
  BY DEF Good, Fresh, ChainStates, Reasons
<1>1. ASSUME NEW k \in 0 .. end, k <= start PROVE Fine(k)
  <2>1. c[k] = Fresh(opening)
    BY <1>1, ChainFresh
  <2>2. Within(days, start, k) = {}
    BY <1>1, WithinStep
  <2>3. SumFunctionOnSet(Flows(days), {}) = 0 /\ SumFunctionOnSet(Moments(days, start), {}) = 0
    BY SumEmpty
  <2> HIDE DEF c
  <2> QED BY <1>0, <2>1, <2>2, <2>3
<1>2. ASSUME NEW k \in 0 .. end, start < k, Fine(k - 1) PROVE Fine(k)
  <2>1. c[k] = IF k \in DOMAIN days THEN Extend(c[k - 1], k - start, days[k]) ELSE c[k - 1]
    BY <1>2, ChainIs
  <2>2. CASE k \notin DOMAIN days
    <3>1. Within(days, start, k) = Within(days, start, k - 1)
      BY <1>2, <2>2, WithinStep
    <3>2. c[k] = c[k - 1]
      BY <2>1, <2>2
    <3> HIDE DEF c
    <3> QED BY <1>2, <3>1, <3>2
  <2>3. CASE k \in DOMAIN days
    <3> DEFINE W == Within(days, start, k - 1)
    <3>1. Within(days, start, k) = W \cup {k} /\ k \notin W
      BY <1>2, <2>3, WithinStep
    <3>2. k - 1 \in Nat /\ IsFiniteSet(W) /\ W \in SUBSET DOMAIN days
      <4>1. k - 1 \in Nat
        BY <1>2
      <4> QED BY <4>1, WithinStep
    <3>3. days[k] \in DayRecords /\ k - start \in Int
      BY <2>3 DEF Days
    <3>4. /\ Good(c[k]) /\ c[k].net = c[k - 1].net + days[k].flow
          /\ c[k].moment = c[k - 1].moment + days[k].flow * (k - start)
      <4>1. PICK e \in Int : e = k - start
        BY <3>3
      <4> DEFINE x == c[k - 1]
      <4>2. Good(x) /\ c[k] = Extend(x, e, days[k])
        BY <1>2, <2>1, <2>3, <4>1
      <4> HIDE DEF c, x
      <4>3. /\ Good(c[k]) /\ c[k].net = x.net + days[k].flow
            /\ c[k].moment = x.moment + days[k].flow * e
        BY <3>3, <4>2, ExtendIs
      <4> QED BY <4>1, <4>3 DEF x
    <3>5. \A d \in DOMAIN days : Flows(days)[d] \in Int /\ Moments(days, start)[d] \in Int
      BY DEF Days, DayRecords, Flows, Moments
    <3>6. Flows(days)[k] = days[k].flow /\ Moments(days, start)[k] = days[k].flow * (k - start)
      BY <2>3 DEF Flows, Moments
    <3>7. /\ SumFunctionOnSet(Flows(days), W \cup {k}) = Flows(days)[k] + SumFunctionOnSet(Flows(days), W)
          /\ SumFunctionOnSet(Moments(days, start), W \cup {k})
                = Moments(days, start)[k] + SumFunctionOnSet(Moments(days, start), W)
          /\ SumFunctionOnSet(Flows(days), W) \in Int /\ SumFunctionOnSet(Moments(days, start), W) \in Int
      <4> HIDE DEF W
      <4>1. \A d \in W : Flows(days)[d] \in Int /\ Moments(days, start)[d] \in Int
        BY <3>2, <3>5
      <4> QED BY <2>3, <3>1, <3>2, <3>5, <4>1, SumInsert, SumInt
    <3> HIDE DEF c, W
    <3>8. c[k].net = SumFunctionOnSet(Flows(days), Within(days, start, k))
      BY <1>2, <2>3, <3>1, <3>4, <3>5, <3>6, <3>7 DEF W
    <3>9. c[k].moment = SumFunctionOnSet(Moments(days, start), Within(days, start, k))
      BY <1>2, <2>3, <3>1, <3>4, <3>5, <3>6, <3>7 DEF W
    <3> QED BY <3>4, <3>8, <3>9
  <2> QED BY <2>2, <2>3
<1>3. 0 \in N
  BY <1>1
<1>4. ASSUME NEW k \in N PROVE k + 1 \in N
  <2>1. CASE k + 1 <= end
    <3>1. k \in Nat /\ k + 1 \in 0 .. end /\ (k + 1) - 1 = k /\ Fine(k)
      BY <2>1
    <3> HIDE DEF Fine
    <3>2. k + 1 <= start \/ start < k + 1
      BY <3>1
    <3>3. Fine(k + 1)
      BY <1>1, <1>2, <3>1, <3>2
    <3> QED BY <3>1, <3>3
  <2>2. CASE ~(k + 1 <= end)
    BY <2>2
  <2> QED BY <2>1, <2>2
<1>5. n \in N
  <2> HIDE DEF N
  <2>1. N \in SUBSET Nat
    BY DEF N
  <2> QED BY <1>3, <1>4, <2>1, AllNumbers
<1>6. Fine(n)
  BY <1>5
<1> QED BY <1>6

\* The days after one date and up to another are the same.
SameDays(days, others, start, m) ==
    /\ \A d \in 0 .. m : start < d => (d \in DOMAIN days <=> d \in DOMAIN others)
    /\ \A d \in DOMAIN days : start < d /\ d <= m => others[d] = days[d]

\* Chains over the same days are the same.
LEMMA ChainSame ==
    ASSUME NEW days, NEW others, NEW start \in Nat, NEW opening, NEW end \in Nat, NEW stop \in Nat,
           NEW m \in Nat, m <= end, m <= stop, SameDays(days, others, start, m),
           NEW n \in 0 .. m
    PROVE  Chain(others, start, stop, opening)[n] = Chain(days, start, end, opening)[n]
<1> DEFINE c == Chain(days, start, end, opening)
           x == Chain(others, start, stop, opening)
           N == {k \in Nat : k <= m => x[k] = c[k]}
<1>0. /\ \A k \in 0 .. end : k <= start => c[k] = Fresh(opening)
      /\ \A k \in 0 .. stop : k <= start => x[k] = Fresh(opening)
  BY ChainFresh
<1>1. \A k \in 0 .. end : start < k =>
         c[k] = IF k \in DOMAIN days THEN Extend(c[k - 1], k - start, days[k]) ELSE c[k - 1]
  BY ChainIs
<1>2. \A k \in 0 .. stop : start < k =>
         x[k] = IF k \in DOMAIN others THEN Extend(x[k - 1], k - start, others[k]) ELSE x[k - 1]
  BY ChainIs
<1> HIDE DEF c, x
<1>3. 0 \in N
  BY <1>0, <1>1, <1>2
<1>4. ASSUME NEW k \in N PROVE k + 1 \in N
  <2> SUFFICES ASSUME k + 1 <= m PROVE x[k + 1] = c[k + 1]
    OBVIOUS
  <2>1. k + 1 \in 0 .. m /\ k + 1 \in 0 .. end /\ k + 1 \in 0 .. stop /\ (k + 1) - 1 = k /\ x[k] = c[k]
    OBVIOUS
  <2>2. CASE k + 1 <= start
    BY <1>0, <1>1, <1>2, <2>1, <2>2
  <2>3. CASE start < k + 1
    <3>1. x[k + 1] = IF k + 1 \in DOMAIN others THEN Extend(x[k], k + 1 - start, others[k + 1]) ELSE x[k]
      BY <1>0, <1>1, <1>2, <2>1, <2>3
    <3>2. c[k + 1] = IF k + 1 \in DOMAIN days THEN Extend(c[k], k + 1 - start, days[k + 1]) ELSE c[k]
      BY <1>0, <1>1, <1>2, <2>1, <2>3
    <3>3. k + 1 \in DOMAIN days <=> k + 1 \in DOMAIN others
      BY <2>1, <2>3 DEF SameDays
    <3>4. k + 1 \in DOMAIN days => others[k + 1] = days[k + 1]
      BY <2>1, <2>3 DEF SameDays
    <3> QED BY <2>1, <3>1, <3>2, <3>3, <3>4
  <2> QED BY <2>1, <2>2, <2>3
<1>5. n \in N
  <2> HIDE DEF N
  <2>1. N \in SUBSET Nat
    BY DEF N
  <2> QED BY <1>3, <1>4, <2>1, AllNumbers
<1> QED BY <1>5 DEF c, x

-----------------------------------------------------------------------------
(***************************************************************************)
(* The returns of an interval.                                             *)
(***************************************************************************)

\* The days of an interval, and what they hold.
LEMMA AfterIs ==
    ASSUME NEW days, Days(days), NEW start \in Int
    PROVE  /\ After(days, start) \in SUBSET DOMAIN days /\ IsFiniteSet(After(days, start))
           /\ \A d \in DOMAIN days : Flows(days)[d] = days[d].flow /\ Flows(days)[d] \in Int
<1>1. After(days, start) \in SUBSET DOMAIN days /\ IsFiniteSet(DOMAIN days)
  BY DEF After, Days
<1>2. IsFiniteSet(After(days, start))
  BY <1>1, FS_Subset
<1>3. \A d \in DOMAIN days : Flows(days)[d] = days[d].flow /\ Flows(days)[d] \in Int
  BY DEF Flows, Days, DayRecords
<1> QED BY <1>1, <1>2, <1>3

\* The profit and the denominator of an interval from start to the day d.
ProfitAt(days, opening, start, d) ==
    days[d].assets - opening - SumFunctionOnSet(Flows(days), Within(days, start, d))
DenominatorAt(days, opening, start, d) ==
    opening * (d - start + 1) + SumFunctionOnSet(WeightedFlows(days, d), Within(days, start, d))

\* The returns, field by field.
LEMMA ReturnsIs ==
    ASSUME NEW days, Days(days), NEW from \in Nat \cup {Nothing}, from # 0, Defined(days, from)
    PROVE  /\ ReturnsOf(days, from).from = Start(days, from)
           /\ ReturnsOf(days, from).to = End(days)
           /\ DOMAIN ReturnsOf(days, from).curve = After(days, Start(days, from))
           /\ \A d \in After(days, Start(days, from)) :
                 ReturnsOf(days, from).curve[d] =
                    CurvePoint(ChainOf(days, from)[d - 1], OpeningOf(days, from), d - Start(days, from), days[d])
           /\ ReturnsOf(days, from).profit =
                 Fraction(ProfitAt(days, OpeningOf(days, from), Start(days, from), End(days)), 1)
           /\ ReturnsOf(days, from).dietz =
                 Dietz(ProfitAt(days, OpeningOf(days, from), Start(days, from), End(days)),
                       DenominatorAt(days, OpeningOf(days, from), Start(days, from), End(days)),
                       End(days) - Start(days, from) + 1)
           /\ ReturnsOf(days, from).twr = ReturnsOf(days, from).curve[End(days)].twr
<1> DEFINE first == OpeningDay(days, from)
           start == Start(days, from)
           end == End(days)
           opening == OpeningOf(days, from)
           after == After(days, start)
           c == ChainOf(days, from)
           flows == SumOver(after, LAMBDA d : days[d].flow)
           weighted == SumOver(after, LAMBDA d : days[d].flow * Weight(end, d))
           curve == [d \in after |-> CurvePoint(c[d - 1], opening, d - start, days[d])]
           profit == days[end].assets - opening - flows
<1>1. /\ first \in DOMAIN days /\ start \in Nat /\ end \in Nat /\ start < end
      /\ end \in after /\ \A d \in DOMAIN days : d <= end
  BY DefinedIs
<1>2. DOMAIN days # {} /\ first # Nothing /\ opening # Nothing /\ ~(end - start <= 0)
  BY <1>1 DEF Defined, OpeningOf
<1>3. after = Within(days, start, end)
  BY <1>1 DEF After, Within
<1>4. flows = SumFunctionOnSet(Flows(days), Within(days, start, end))
  <2> DEFINE f == [d \in after |-> days[d].flow]
  <2>1. flows = SumFunction(f)
    BY DEF SumOver
  <2>2. DOMAIN f = after /\ \A d \in after : f[d] = Flows(days)[d]
    <3>1. DOMAIN f = after /\ \A d \in after : f[d] = days[d].flow
      OBVIOUS
    <3>2. \A d \in after : days[d].flow = Flows(days)[d]
      BY <1>1, AfterIs
    <3> HIDE DEF f, after
    <3> QED BY <3>1, <3>2
  <2>3. IsFiniteSet(after)
    BY <1>1, AfterIs
  <2> HIDE DEF f, after, flows
  <2>4. SumFunction(f) = SumFunctionOnSet(Flows(days), after)
    BY <2>2, <2>3, SumOf
  <2> QED BY <1>3, <2>1, <2>4
<1>5. weighted = SumFunctionOnSet(WeightedFlows(days, end), Within(days, start, end))
  <2> DEFINE f == [d \in after |-> days[d].flow * Weight(end, d)]
  <2>1. weighted = SumFunction(f)
    BY DEF SumOver
  <2>2. DOMAIN f = after /\ \A d \in after : f[d] = WeightedFlows(days, end)[d]
    BY <1>1 DEF After, WeightedFlows
  <2>3. IsFiniteSet(after)
    BY <1>1, AfterIs
  <2> HIDE DEF f, after, weighted
  <2>4. SumFunction(f) = SumFunctionOnSet(WeightedFlows(days, end), after)
    BY <2>2, <2>3, SumOf
  <2> QED BY <1>3, <2>1, <2>4
<1>60. ReturnsOf(days, from) = IntervalReturns(days, start, end, opening)
  <2>1. end = IF DOMAIN days = {} THEN Nothing ELSE Max(DOMAIN days)
    BY <1>2 DEF End
  <2>2. start = IF from = Nothing THEN first ELSE from - 1
    BY DEF Start
  <2>3. opening = days[first].assets
    BY DEF OpeningOf
  <2> HIDE DEF first, start, end, opening
  <2> QED BY <1>2, <2>1, <2>2, <2>3 DEF ReturnsOf, first
<1>6. IntervalReturns(days, start, end, opening) =
         [from |-> start, to |-> end, curve |-> curve, profit |-> Fraction(profit, 1),
          dietz |-> Dietz(profit, opening * (end - start + 1) + weighted, end - start + 1),
          twr |-> curve[end].twr]
  BY Zenon DEF IntervalReturns, After, ChainOf
<1>7. DOMAIN curve = after /\ \A d \in after : curve[d] = CurvePoint(c[d - 1], opening, d - start, days[d])
  OBVIOUS
<1> HIDE DEF curve, after, c, flows, weighted
<1>8. profit = ProfitAt(days, opening, start, end)
  BY <1>4 DEF ProfitAt
<1>9. opening * (end - start + 1) + weighted = DenominatorAt(days, opening, start, end)
  BY <1>5 DEF DenominatorAt
<1> HIDE DEF profit, opening, start, end
<1> QED BY <1>60, <1>6, <1>7, <1>8, <1>9 DEF after, c, opening, start, end

\* Without them there is no curve either.
LEMMA AvailableIs ==
    ASSUME NEW days, Days(days), NEW from \in Nat \cup {Nothing}, from # 0
    PROVE  /\ Available(ReturnsOf(days, from).profit) <=> Defined(days, from)
           /\ ~Defined(days, from) => DOMAIN ReturnsOf(days, from).curve = {}
           /\ ~Defined(days, from) => ~Available(ReturnsOf(days, from).twr)
           /\ ReturnsOf(days, from).from = Start(days, from)
<1>1. CASE Defined(days, from)
  <2>1. ReturnsOf(days, from).profit =
           Fraction(ProfitAt(days, OpeningOf(days, from), Start(days, from), End(days)), 1)
    BY <1>1, ReturnsIs
  <2>2. ReturnsOf(days, from).from = Start(days, from)
    BY <1>1, ReturnsIs
  <2> QED BY <1>1, <2>1, <2>2 DEF Available, Fraction
<1>2. CASE ~Defined(days, from)
  <2> DEFINE first == OpeningDay(days, from)
             start == Start(days, from)
             end == IF DOMAIN days = {} THEN Nothing ELSE Max(DOMAIN days)
             All(reason) == [from |-> start, to |-> end, curve |-> <<>>, profit |-> Unavailable(reason),
                             dietz |-> Unavailable(reason), twr |-> Unavailable(reason)]
  <2>0. DOMAIN <<>> = {}
    OBVIOUS
  <2>1. CASE first = Nothing \/ days[first].assets = Nothing
    <3>1. ReturnsOf(days, from) = All("missing_opening")
      BY <2>1 DEF ReturnsOf, Start
    <3> HIDE DEF start, end
    <3> QED BY <1>2, <2>0, <3>1 DEF Available, Unavailable, start
  <2>2. CASE first # Nothing /\ days[first].assets # Nothing
    <3>1. ~(start < End(days))
      BY <1>2, <2>2 DEF Defined
    <3>2. first \in DOMAIN days
      BY <2>2, OpeningIs
    <3>3. start \in Int /\ End(days) \in Int
      <4>1. End(days) \in DOMAIN days
        BY <3>2, EndIs
      <4>2. DOMAIN days \in SUBSET Nat
        BY DEF Days
      <4>3. from # Nothing => from \in Nat
        OBVIOUS
      <4> QED BY <3>2, <4>1, <4>2, <4>3 DEF Start
    <3>4. end = End(days) /\ end - start <= 0
      BY <3>1, <3>2, <3>3 DEF End
    <3>5. ReturnsOf(days, from) = All("no_interval")
      BY <2>2, <3>4 DEF ReturnsOf, Start
    <3> HIDE DEF start, end
    <3> QED BY <1>2, <2>0, <3>5 DEF Available, Unavailable, start
  <2> QED BY <2>1, <2>2
<1> QED BY <1>1, <1>2

\* The running sums of the curve are what the sums over the prefix are.
LEMMA PointIs ==
    ASSUME NEW days, Days(days), NEW from \in Nat \cup {Nothing}, from # 0, Defined(days, from),
           NEW d \in After(days, Start(days, from))
    PROVE  /\ Good(ChainOf(days, from)[d - 1])
           /\ days[d] \in DayRecords /\ days[d].assets \in Int
           /\ ReturnsOf(days, from).curve[d].profit =
                 Fraction(ProfitAt(days, OpeningOf(days, from), Start(days, from), d), 1)
           /\ ReturnsOf(days, from).curve[d].dietz =
                 Dietz(ProfitAt(days, OpeningOf(days, from), Start(days, from), d),
                       DenominatorAt(days, OpeningOf(days, from), Start(days, from), d),
                       d - Start(days, from) + 1)
           /\ ReturnsOf(days, from).curve[d].twr =
                 CurvePoint(ChainOf(days, from)[d - 1], OpeningOf(days, from), d - Start(days, from), days[d]).twr
<1> DEFINE start == Start(days, from)
           end == End(days)
           opening == OpeningOf(days, from)
           x == ChainOf(days, from)[d - 1]
           W == Within(days, start, d)
           V == Within(days, start, d - 1)
           F == Flows(days)
           M == Moments(days, start)
           e == d - start
           net == x.net + days[d].flow
           moment == x.moment + days[d].flow * e
<1>1. /\ start \in Nat /\ end \in Nat /\ start < end /\ opening \in Int
      /\ OpeningDay(days, from) <= start /\ OpeningDay(days, from) \in DOMAIN days
      /\ \A n \in DOMAIN days : n <= end
      /\ \A n \in DOMAIN days : OpeningDay(days, from) <= n => days[n].assets \in Int
  BY DefinedIs
<1>2. d \in DOMAIN days /\ d \in Nat /\ start < d /\ d <= end /\ e \in Int /\ days[d] \in DayRecords
  BY <1>1 DEF After, Days
<1>3. days[d].assets \in Int /\ days[d].flow \in Int
  <2>1. OpeningDay(days, from) \in Nat
    BY <1>1 DEF Days
  <2>2. OpeningDay(days, from) <= d
    BY <1>1, <1>2, <2>1
  <2> QED BY <1>1, <1>2, <2>2 DEF DayRecords
<1>4. d - 1 \in 0 .. end
  BY <1>1, <1>2
<1>5. Good(x) /\ x.net = SumFunctionOnSet(F, V) /\ x.moment = SumFunctionOnSet(M, V)
  BY <1>1, <1>4, ChainSums DEF ChainOf
<1>6. /\ W = V \cup {d} /\ d \notin V /\ IsFiniteSet(V) /\ IsFiniteSet(W)
      /\ V \in SUBSET DOMAIN days /\ W \in SUBSET DOMAIN days
  <2>1. d - 1 \in Nat
    BY <1>4
  <2> QED BY <1>1, <1>2, <2>1, WithinStep
<1>7. /\ \A n \in DOMAIN days : F[n] \in Int /\ M[n] \in Int
      /\ \A n \in DOMAIN days : F[n] = days[n].flow /\ M[n] = days[n].flow * (n - start)
  BY <1>1 DEF Days, DayRecords, Flows, Moments
<1>8. /\ SumFunctionOnSet(F, W) = F[d] + SumFunctionOnSet(F, V)
      /\ SumFunctionOnSet(M, W) = M[d] + SumFunctionOnSet(M, V)
      /\ SumFunctionOnSet(F, V) \in Int /\ SumFunctionOnSet(M, V) \in Int
      /\ SumFunctionOnSet(F, W) \in Int /\ SumFunctionOnSet(M, W) \in Int
  <2> HIDE DEF F, M, V, W
  <2>1. \A n \in V : F[n] \in Int /\ M[n] \in Int
    BY <1>6, <1>7
  <2>2. \A n \in W : F[n] \in Int /\ M[n] \in Int
    BY <1>6, <1>7
  <2>3. F[d] \in Int /\ M[d] \in Int
    BY <1>2, <1>7
  <2> QED BY <1>6, <2>1, <2>2, <2>3, SumInsert, SumInt
<1>9. net = SumFunctionOnSet(F, W) /\ moment = SumFunctionOnSet(M, W)
  <2> HIDE DEF F, M, V, W, x
  <2>1. F[d] = days[d].flow /\ M[d] = days[d].flow * e /\ F[d] \in Int /\ M[d] \in Int
    BY <1>2, <1>7
  <2> QED BY <1>3, <1>5, <1>8, <2>1
<1>10. SumFunctionOnSet(WeightedFlows(days, d), W) = net * e - moment
  <2> DEFINE G == WeightedFlows(days, d)
             E == [n \in DOMAIN days |-> e * F[n]]
  <2>1. ASSUME NEW n \in W PROVE F[n] \in Int /\ E[n] \in Int /\ E[n] = e * F[n] /\ M[n] \in Int /\ G[n] = E[n] - M[n]
    <3>1. n \in DOMAIN days /\ n \in Nat /\ F[n] = days[n].flow /\ M[n] = days[n].flow * (n - start) /\ F[n] \in Int
      BY <1>6, <1>7, <2>1 DEF Days
    <3>2. G[n] = days[n].flow * (d - n)
      BY <3>1 DEF WeightedFlows, Weight
    <3>3. \A f, a, b, g \in Int : f * (a - b) = (a - g) * f - f * (b - g)
      OBVIOUS
    <3>4. E[n] = e * F[n] /\ e * F[n] \in Int
      BY <1>2, <3>1
    <3>5. days[n].flow * (d - n) = (d - start) * days[n].flow - days[n].flow * (n - start)
      BY <1>1, <1>2, <3>1, <3>3
    <3> QED BY <1>7, <3>1, <3>2, <3>4, <3>5
  <2> HIDE DEF E, F, M, G, W, e, net, moment
  <2>2. SumFunctionOnSet(G, W) = SumFunctionOnSet(E, W) - SumFunctionOnSet(M, W)
    BY <1>6, <2>1, SumMinus
  <2>3. SumFunctionOnSet(E, W) = e * SumFunctionOnSet(F, W)
    BY <1>2, <1>6, <2>1, SumTimes
  <2>4. e * SumFunctionOnSet(F, W) = SumFunctionOnSet(F, W) * e
    BY <1>2, <1>8
  <2> QED BY <1>9, <2>2, <2>3, <2>4 DEF G
<1>11. opening * (e + 1) + net * e - moment = DenominatorAt(days, opening, start, d)
  <2>1. opening * (e + 1) \in Int /\ net * e \in Int /\ moment \in Int
    <3> HIDE DEF net, moment, F, M, W
    <3> QED BY <1>1, <1>2, <1>8, <1>9
  <2>2. \A a, b, g \in Int : a + b - g = a + (b - g)
    OBVIOUS
  <2> HIDE DEF net, moment
  <2>3. opening * (e + 1) + net * e - moment = opening * (e + 1) + (net * e - moment)
    BY <2>1, <2>2
  <2> HIDE DEF W
  <2> QED BY <1>10, <2>3 DEF DenominatorAt, W
<1>12. days[d].assets - opening - net = ProfitAt(days, opening, start, d)
  <2> HIDE DEF net
  <2> QED BY <1>9 DEF ProfitAt
<1>13. ReturnsOf(days, from).curve[d] = CurvePoint(x, opening, e, days[d])
  BY ReturnsIs
<1>14. /\ CurvePoint(x, opening, e, days[d]).profit = Fraction(days[d].assets - opening - net, 1)
       /\ CurvePoint(x, opening, e, days[d]).dietz =
             Dietz(days[d].assets - opening - net, opening * (e + 1) + net * e - moment, e + 1)
  BY DEF CurvePoint
<1> HIDE DEF x, opening, net, moment
<1> QED BY <1>2, <1>3, <1>5, <1>11, <1>12, <1>13, <1>14 DEF x, opening

-----------------------------------------------------------------------------
(***************************************************************************)
(* The curve.                                                              *)
(***************************************************************************)

\* The days up to one of them.
LEMMA UntilIs ==
    ASSUME NEW days, Days(days), NEW d \in Int
    PROVE  /\ Days(Until(days, d))
           /\ \A e : e \in DOMAIN Until(days, d) <=> e \in DOMAIN days /\ e <= d
           /\ \A e \in DOMAIN days : e <= d => Until(days, d)[e] = days[e]
<1>1. /\ DOMAIN Until(days, d) = {e \in DOMAIN days : e <= d}
      /\ \A e \in DOMAIN days : e <= d => Until(days, d)[e] = days[e]
  BY DEF Until
<1>2. DOMAIN Until(days, d) \in SUBSET DOMAIN days
  BY <1>1
<1>3. IsFiniteSet(DOMAIN Until(days, d))
  BY <1>2, FS_Subset DEF Days
<1>4. \A e \in DOMAIN Until(days, d) : Until(days, d)[e] = days[e] /\ e \in DOMAIN days
  BY <1>1
<1> HIDE DEF Until
<1> QED BY <1>1, <1>2, <1>3, <1>4 DEF Days

\* An interval that is cut at one of its days opens as it did.
LEMMA CutIs ==
    ASSUME NEW days, Days(days), NEW from \in Nat \cup {Nothing}, from # 0, Defined(days, from),
           NEW d \in After(days, Start(days, from))
    PROVE  /\ OpeningDay(Until(days, d), from) = OpeningDay(days, from)
           /\ Start(Until(days, d), from) = Start(days, from)
           /\ OpeningOf(Until(days, d), from) = OpeningOf(days, from)
           /\ Defined(Until(days, d), from)
           /\ End(Until(days, d)) = d
<1> DEFINE cut == Until(days, d)
           first == OpeningDay(days, from)
<1>1. /\ first \in DOMAIN days /\ first \in Nat /\ first # Nothing
      /\ Start(days, from) \in Nat /\ first <= Start(days, from)
      /\ days[first].assets \in Int /\ days[first].assets # Nothing
  BY DefinedIs DEF Days, Defined, OpeningOf
<1>2. d \in DOMAIN days /\ d \in Nat /\ Start(days, from) < d /\ first <= d
  BY <1>1 DEF After, Days
<1>3. /\ Days(cut) /\ \A e : e \in DOMAIN cut <=> e \in DOMAIN days /\ e <= d
      /\ \A e \in DOMAIN days : e <= d => cut[e] = days[e]
  BY <1>2, UntilIs
<1>4. /\ IsFiniteSet(DOMAIN cut) /\ DOMAIN cut \in SUBSET Nat /\ DOMAIN days \in SUBSET Nat
  BY <1>3 DEF Days
<1> HIDE DEF cut
<1>5. End(cut) = d
  <2>1. d \in DOMAIN cut /\ DOMAIN cut \in SUBSET Int /\ \A x \in DOMAIN cut : x <= d
    BY <1>2, <1>3, <1>4
  <2> QED BY <1>4, <2>1, MaxUnique DEF End
<1>6. OpeningDay(cut, from) = first
  <2>1. CASE from = Nothing
    <3> DEFINE known == {e \in DOMAIN cut : cut[e].assets # Nothing}
    <3>1. \A e \in DOMAIN days : days[e].assets # Nothing => first <= e
      BY <1>1, <2>1, OpeningIs
    <3>2. first \in known
      BY <1>1, <1>2, <1>3
    <3>3. \A e \in known : first <= e
      BY <1>3, <3>1
    <3>4. known \in SUBSET Int /\ IsFiniteSet(known)
      BY <1>4, FS_Subset
    <3>5. OpeningDay(cut, from) = IF known = {} THEN Nothing ELSE Min(known)
      BY <2>1 DEF OpeningDay
    <3> HIDE DEF known, first
    <3>6. Min(known) = first
      BY <3>2, <3>3, <3>4, MinUnique
    <3> QED BY <3>2, <3>5, <3>6
  <2>2. CASE from # Nothing
    <3> DEFINE before == {e \in DOMAIN cut : e < from}
    <3>1. first < from /\ \A e \in DOMAIN days : e < from => e <= first
      BY <1>1, <2>2, OpeningIs
    <3>2. first \in before
      BY <1>1, <1>2, <1>3, <3>1
    <3>3. \A e \in before : e <= first
      BY <1>3, <3>1
    <3>4. before \in SUBSET Int /\ IsFiniteSet(before)
      BY <1>4, FS_Subset
    <3>5. OpeningDay(cut, from) = IF before = {} THEN Nothing ELSE Max(before)
      BY <2>2 DEF OpeningDay
    <3> HIDE DEF before, first
    <3>6. Max(before) = first
      BY <3>2, <3>3, <3>4, MaxUnique
    <3> QED BY <3>2, <3>5, <3>6
  <2> QED BY <2>1, <2>2
<1>7. cut[first] = days[first]
  BY <1>1, <1>2, <1>3
<1>8. Start(cut, from) = Start(days, from)
  BY <1>6 DEF Start
<1>9. OpeningOf(cut, from) = OpeningOf(days, from)
  BY <1>6, <1>7 DEF OpeningOf
<1>10. Defined(cut, from)
  BY <1>1, <1>2, <1>5, <1>6, <1>7, <1>8 DEF Defined
<1> QED BY <1>5, <1>6, <1>8, <1>9, <1>10 DEF cut

\* A point of the curve is what the days up to it give.
LEMMA CurvePrefix ==
    ASSUME NEW days, Days(days), NEW from \in Nat \cup {Nothing}, from # 0,
           NEW d \in DOMAIN ReturnsOf(days, from).curve
    PROVE  /\ ReturnsOf(days, from).curve[d].profit = ReturnsOf(Until(days, d), from).profit
           /\ ReturnsOf(days, from).curve[d].dietz = ReturnsOf(Until(days, d), from).dietz
           /\ ReturnsOf(days, from).curve[d].twr = ReturnsOf(Until(days, d), from).twr
<1> DEFINE cut == Until(days, d)
           start == Start(days, from)
           opening == OpeningOf(days, from)
           W == Within(days, start, d)
<1>1. Defined(days, from)
  BY AvailableIs
<1>2. d \in After(days, start)
  BY <1>1, ReturnsIs
<1>3. /\ start \in Nat /\ d \in Nat /\ d \in DOMAIN days /\ start < d /\ End(days) \in Nat /\ d <= End(days)
      /\ DOMAIN days \in SUBSET Nat
  BY <1>1, <1>2, DefinedIs DEF After, Days
<1>4. /\ Days(cut) /\ \A e : e \in DOMAIN cut <=> e \in DOMAIN days /\ e <= d
      /\ \A e \in DOMAIN days : e <= d => cut[e] = days[e]
  <2>1. d \in Int
    BY <1>3
  <2> QED BY <2>1, UntilIs, Zenon
<1>5. /\ Start(cut, from) = start /\ OpeningOf(cut, from) = opening /\ Defined(cut, from) /\ End(cut) = d
  BY <1>1, <1>2, CutIs
<1>6. /\ ReturnsOf(days, from).curve[d].profit = Fraction(ProfitAt(days, opening, start, d), 1)
      /\ ReturnsOf(days, from).curve[d].dietz =
            Dietz(ProfitAt(days, opening, start, d), DenominatorAt(days, opening, start, d), d - start + 1)
      /\ ReturnsOf(days, from).curve[d].twr =
            CurvePoint(ChainOf(days, from)[d - 1], opening, d - start, days[d]).twr
  BY <1>1, <1>2, PointIs
<1> HIDE DEF cut, start, opening
<1>7. d \in After(cut, start)
  BY <1>3, <1>4 DEF After
<1>8. /\ ReturnsOf(cut, from).profit = Fraction(ProfitAt(cut, opening, start, d), 1)
      /\ ReturnsOf(cut, from).dietz =
            Dietz(ProfitAt(cut, opening, start, d), DenominatorAt(cut, opening, start, d), d - start + 1)
      /\ ReturnsOf(cut, from).twr = ReturnsOf(cut, from).curve[d].twr
  BY <1>4, <1>5, ReturnsIs
<1>9. ReturnsOf(cut, from).curve[d].twr = CurvePoint(ChainOf(cut, from)[d - 1], opening, d - start, cut[d]).twr
  BY <1>4, <1>5, <1>7, PointIs
<1>10. Within(cut, start, d) = W /\ W \in SUBSET DOMAIN days /\ IsFiniteSet(W)
  <2>1. Within(cut, start, d) = W
    BY <1>4 DEF Within
  <2> QED BY <1>3, <2>1, WithinStep
<1>11. \A e \in W : Flows(cut)[e] = Flows(days)[e] /\ WeightedFlows(cut, d)[e] = WeightedFlows(days, d)[e]
  BY <1>3, <1>4 DEF Within, Flows, WeightedFlows
<1> HIDE DEF W
<1>12. /\ SumFunctionOnSet(Flows(cut), W) = SumFunctionOnSet(Flows(days), W)
       /\ SumFunctionOnSet(WeightedFlows(cut, d), W) = SumFunctionOnSet(WeightedFlows(days, d), W)
  BY <1>10, <1>11, SumSame
<1>13. cut[d] = days[d]
  BY <1>3, <1>4
<1>14. /\ ProfitAt(cut, opening, start, d) = ProfitAt(days, opening, start, d)
       /\ DenominatorAt(cut, opening, start, d) = DenominatorAt(days, opening, start, d)
  BY <1>10, <1>12, <1>13 DEF ProfitAt, DenominatorAt, W
<1>15. ChainOf(cut, from)[d - 1] = ChainOf(days, from)[d - 1]
  <2> DEFINE end == End(days)
             m == d - 1
  <2>1. m \in Nat /\ m <= d /\ m <= end /\ m \in 0 .. m /\ end \in Nat
    BY <1>3
  <2>2. SameDays(days, cut, start, m)
    BY <1>3, <1>4 DEF SameDays
  <2> HIDE DEF end, m
  <2>3. Chain(cut, start, d, opening)[m] = Chain(days, start, end, opening)[m]
    BY <1>3, <2>1, <2>2, ChainSame
  <2> QED BY <1>5, <2>3 DEF end, m, ChainOf, start, opening
<1> QED BY <1>6, <1>8, <1>9, <1>13, <1>14, <1>15 DEF cut

-----------------------------------------------------------------------------
(***************************************************************************)
(* The projection of the records of an account to its days.                *)
(***************************************************************************)

Unknown == [source |-> Nothing, net |-> 0]

\* The balance at the end of the day n, from that at the end of the day before.
BalanceStep(raw, x, n) ==
    IF n = 0 THEN Unknown
    ELSE IF n \in DOMAIN raw THEN Project(x, raw[n]) ELSE x

BalanceRuns(raw, g, n) == \A k \in 0 .. n : g[k] = BalanceStep(raw, g[k - 1], k)

BalancesSolve(raw, to, g) ==
    g = [n \in 0 .. to |-> BalanceStep(raw, g[n - 1], n)]

\* The recursion behind Balances has a solution.
LEMMA BalancesExist ==
    ASSUME NEW raw, NEW to \in Nat
    PROVE  \E g : BalancesSolve(raw, to, g)
<1> DEFINE M == {n \in Nat : \E g : BalanceRuns(raw, g, n)}
<1>1. 0 \in M
  <2> DEFINE h == [k \in {0} |-> Unknown]
  <2>1. BalanceRuns(raw, h, 0)
    BY DEF BalanceRuns, BalanceStep
  <2> HIDE DEF h
  <2> QED BY <2>1
<1>2. ASSUME NEW n \in M PROVE n + 1 \in M
  <2>1. PICK g : BalanceRuns(raw, g, n)
    OBVIOUS
  <2> DEFINE h == [k \in 0 .. n + 1 |->
                      IF k = n + 1 THEN BalanceStep(raw, g[n], n + 1) ELSE g[k]]
  <2>2. ASSUME NEW k \in 0 .. n + 1 PROVE h[k] = BalanceStep(raw, h[k - 1], k)
    <3>1. CASE k = n + 1
      BY <3>1
    <3>2. CASE k # n + 1
      <4>1. k \in 0 .. n /\ h[k] = g[k]
        BY <3>2
      <4>2. k # 0 => h[k - 1] = g[k - 1]
        BY <3>2
      <4>3. k = 0 => \A x : BalanceStep(raw, x, k) = Unknown
        BY DEF BalanceStep
      <4> HIDE DEF h
      <4> QED BY <2>1, <4>1, <4>2, <4>3 DEF BalanceRuns
    <3> QED BY <3>1, <3>2
  <2>3. BalanceRuns(raw, h, n + 1)
    BY <2>2 DEF BalanceRuns
  <2>4. \E x : BalanceRuns(raw, x, n + 1)
    <3> HIDE DEF h
    <3> QED BY <2>3
  <2> QED BY <2>4
<1>3. to \in M
  <2> HIDE DEF M
  <2>1. M \in SUBSET Nat
    BY DEF M
  <2> QED BY <1>1, <1>2, <2>1, AllNumbers
<1>4. PICK g : BalanceRuns(raw, g, to)
  BY <1>3
<1> DEFINE r == [n \in 0 .. to |-> g[n]]
<1>5. ASSUME NEW n \in 0 .. to PROVE r[n] = BalanceStep(raw, r[n - 1], n)
  <2>1. n # 0 => r[n - 1] = g[n - 1]
    OBVIOUS
  <2>2. n = 0 => \A x : BalanceStep(raw, x, n) = Unknown
    BY DEF BalanceStep
  <2>3. r[n] = g[n] /\ g[n] = BalanceStep(raw, g[n - 1], n)
    BY <1>4 DEF BalanceRuns
  <2> HIDE DEF r
  <2> QED BY <2>1, <2>2, <2>3
<1>6. r = [n \in 0 .. to |-> BalanceStep(raw, r[n - 1], n)]
  BY <1>5
<1> HIDE DEF r
<1> QED BY <1>6 DEF BalancesSolve

\* The balances from day to day.
LEMMA BalancesAt ==
    ASSUME NEW raw, NEW to \in Nat, NEW n \in 0 .. to
    PROVE  Balances(raw, to)[n] =
              BalanceStep(raw, Balances(raw, to)[n - 1], n)
<1> DEFINE Solves(g) == BalancesSolve(raw, to, g)
           c == Balances(raw, to)
<1>1. c = CHOOSE g : Solves(g)
  BY DEF Balances, BalancesSolve, BalanceStep, Unknown
<1>2. \E g : Solves(g)
  BY BalancesExist
<1>3. Solves(c)
  <2> HIDE DEF Solves, c
  <2> QED BY <1>1, <1>2
<1> HIDE DEF c
<1>4. c[n] = BalanceStep(raw, c[n - 1], n)
  BY <1>3, Zenon DEF BalancesSolve
<1> QED BY <1>4 DEF c

\* The records of a day together.
DayFlows(rs, date) == {i \in On(rs, date) : rs[i].flow # Nothing}
FlowsOf(rs) == [i \in DOMAIN rs |-> rs[i].flow]
DayOf(rs, date) ==
    [flow    |-> SumFunctionOnSet(FlowsOf(rs), DayFlows(rs, date)),
     hasFlow |-> DayFlows(rs, date) # {},
     moved   |-> \E i \in DayFlows(rs, date) : rs[i].flow # 0,
     by      |-> Selected(rs, date)]

Written == Seq(AccountRecords)

\* The records of a date are some of the records, ...
LEMMA OnIs ==
    ASSUME NEW rs \in Written, NEW date
    PROVE  /\ On(rs, date) \in SUBSET DOMAIN rs /\ DOMAIN rs \in SUBSET (Nat \ {0})
           /\ IsFiniteSet(DOMAIN rs) /\ IsFiniteSet(On(rs, date))
           /\ IsFiniteSet(DayFlows(rs, date)) /\ DayFlows(rs, date) \in SUBSET On(rs, date)
           /\ \A i \in DOMAIN rs : rs[i] \in AccountRecords
           /\ \A i \in DayFlows(rs, date) : FlowsOf(rs)[i] = rs[i].flow /\ rs[i].flow \in Int
<1>1. /\ DOMAIN rs = 1 .. Len(rs) /\ Len(rs) \in Nat /\ \A i \in DOMAIN rs : rs[i] \in AccountRecords
  BY DEF Written
<1>2. IsFiniteSet(DOMAIN rs) /\ DOMAIN rs \in SUBSET (Nat \ {0})
  <2>1. IsFiniteSet(1 .. Len(rs))
    BY <1>1, FS_Interval
  <2> QED BY <1>1, <2>1
<1>3. On(rs, date) \in SUBSET DOMAIN rs /\ DayFlows(rs, date) \in SUBSET On(rs, date)
  BY DEF On, DayFlows
<1>4. IsFiniteSet(On(rs, date)) /\ IsFiniteSet(DayFlows(rs, date))
  BY <1>2, <1>3, FS_Subset
<1>5. \A i \in DayFlows(rs, date) : FlowsOf(rs)[i] = rs[i].flow /\ rs[i].flow \in Int
  BY <1>1, <1>3 DEF DayFlows, FlowsOf, AccountRecords
<1> QED BY <1>1, <1>2, <1>3, <1>4, <1>5

\* ... and the one that speaks for it is one of them, explicit if any is.
LEMMA SelectedIs ==
    ASSUME NEW rs \in Written, NEW date, On(rs, date) # {}
    PROVE  \E i \in On(rs, date) :
              /\ Selected(rs, date) = rs[i]
              /\ \A j \in On(rs, date) : Explicit(rs[j]) => Explicit(rs[i]) /\ j <= i
<1> DEFINE stated == {i \in On(rs, date) : Explicit(rs[i])}
           S == IF stated = {} THEN On(rs, date) ELSE stated
<1>1. S \in SUBSET On(rs, date) /\ S # {}
  OBVIOUS
<1>2. IsFiniteSet(On(rs, date)) /\ On(rs, date) \in SUBSET DOMAIN rs /\ DOMAIN rs \in SUBSET (Nat \ {0})
  BY OnIs
<1>3. IsFiniteSet(S) /\ S \in SUBSET Int
  <2> HIDE DEF S
  <2> QED BY <1>1, <1>2, FS_Subset
<1>4. Max(S) \in S /\ \A x \in S : x <= Max(S)
  <2> HIDE DEF S
  <2> QED BY <1>1, <1>3, MaxIs
<1>5. Selected(rs, date) = rs[Max(S)]
  BY DEF Selected
<1>6. ASSUME NEW j \in On(rs, date), Explicit(rs[j]) PROVE Explicit(rs[Max(S)]) /\ j <= Max(S)
  <2>1. j \in stated
    BY <1>6
  <2>2. S = stated
    BY <2>1
  <2> HIDE DEF S
  <2>3. Max(S) \in stated /\ j <= Max(S)
    BY <1>4, <2>1, <2>2
  <2> QED BY <2>3
<1> HIDE DEF S
<1> QED BY <1>1, <1>4, <1>5, <1>6

\* The days up to a date.
LEMMA RawIs ==
    ASSUME NEW rs \in Written, NEW to \in Int
    PROVE  /\ IsFiniteSet(DOMAIN RawDays(rs, to))
           /\ \A d : d \in DOMAIN RawDays(rs, to) <=> d \in Dates /\ d <= to /\ On(rs, d) # {}
           /\ \A d \in DOMAIN RawDays(rs, to) : RawDays(rs, to)[d] = DayOf(rs, d)
           /\ \A d \in DOMAIN RawDays(rs, to) :
                 /\ DayOf(rs, d).flow \in Int /\ DayOf(rs, d).by \in AccountRecords
                 /\ ~DayOf(rs, d).moved => DayOf(rs, d).flow = 0
<1>1. DOMAIN RawDays(rs, to) = {d \in Dates : d <= to /\ On(rs, d) # {}}
  BY DEF RawDays
<1>2. IsFiniteSet(DOMAIN RawDays(rs, to))
  <2>1. DOMAIN RawDays(rs, to) \in SUBSET Dates
    BY <1>1
  <2> QED BY <2>1, FS_Subset, ReturnsAssumption
<1>3. ASSUME NEW d \in DOMAIN RawDays(rs, to)
      PROVE  /\ RawDays(rs, to)[d] = DayOf(rs, d)
             /\ DayOf(rs, d).flow \in Int /\ DayOf(rs, d).by \in AccountRecords
             /\ ~DayOf(rs, d).moved => DayOf(rs, d).flow = 0
  <2> DEFINE F == DayFlows(rs, d)
             f == [i \in F |-> rs[i].flow]
  <2>1. d \in Dates /\ d <= to /\ On(rs, d) # {}
    BY <1>1
  <2>2. IsFiniteSet(F) /\ \A i \in F : FlowsOf(rs)[i] = rs[i].flow /\ rs[i].flow \in Int
    BY OnIs
  <2>3. RawDays(rs, to)[d] = [flow |-> SumFunction(f), hasFlow |-> F # {},
                              moved |-> \E i \in F : rs[i].flow # 0, by |-> Selected(rs, d)]
    BY <1>1, Zenon DEF RawDays, SumOver, DayFlows
  <2>4. DOMAIN f = F /\ \A i \in F : f[i] = FlowsOf(rs)[i]
    BY <2>2
  <2>5. SumFunction(f) = SumFunctionOnSet(FlowsOf(rs), F)
    <3> HIDE DEF f, F
    <3> QED BY <2>2, <2>4, SumOf
  <2>6. RawDays(rs, to)[d] = DayOf(rs, d)
    BY <2>3, <2>5, Zenon DEF DayOf
  <2>7. SumFunctionOnSet(FlowsOf(rs), F) \in Int
    <3> HIDE DEF F
    <3> QED BY <2>2, SumInt
  <2>8. Selected(rs, d) \in AccountRecords
    <3>1. PICK i \in On(rs, d) : Selected(rs, d) = rs[i]
      BY <2>1, SelectedIs
    <3> QED BY <3>1, OnIs
  <2>9. ASSUME ~(\E i \in F : rs[i].flow # 0) PROVE SumFunctionOnSet(FlowsOf(rs), F) = 0
    <3>1. \A i \in F : FlowsOf(rs)[i] = 0
      BY <2>2, <2>9
    <3> HIDE DEF F
    <3> QED BY <2>2, <3>1, SumZero
  <2> QED BY <2>6, <2>7, <2>8, <2>9 DEF DayOf
<1> QED BY <1>1, <1>2, <1>3

\* What is known of the balance, day by day: a statement, once there, stays the source.
BalanceStates == [source : Nat \cup {Nothing}, net : Int]

\* At the end of every day the balance is of that kind.
LEMMA BalancesAre ==
    ASSUME NEW rs \in Written, NEW to \in Nat, NEW n \in 0 .. to
    PROVE  /\ Balances(RawDays(rs, to), to)[n] \in BalanceStates
           /\ \A m \in 0 .. n : Balances(RawDays(rs, to), to)[m].source # Nothing =>
                                   Balances(RawDays(rs, to), to)[n].source # Nothing
<1> DEFINE raw == RawDays(rs, to)
           b == Balances(raw, to)
           Fine(k) == b[k] \in BalanceStates /\ \A m \in 0 .. k : b[m].source # Nothing => b[k].source # Nothing
           N == {k \in Nat : k <= to => Fine(k)}
<1>1. \A k \in 0 .. to : b[k] = BalanceStep(raw, b[k - 1], k)
  BY BalancesAt
<1>2. \A d \in DOMAIN raw : raw[d].flow \in Int /\ raw[d].by \in AccountRecords
  BY RawIs
<1> HIDE DEF b, raw
<1>3. 0 \in N
  <2>1. b[0] = Unknown
    BY <1>1 DEF BalanceStep
  <2>2. Unknown \in BalanceStates
    BY DEF Unknown, BalanceStates
  <2> QED BY <2>1, <2>2
<1>4. ASSUME NEW k \in N PROVE k + 1 \in N
  <2> SUFFICES ASSUME k + 1 <= to PROVE Fine(k + 1)
    OBVIOUS
  <2>1. Fine(k) /\ k + 1 \in 0 .. to /\ (k + 1) - 1 = k /\ k + 1 # 0
    OBVIOUS
  <2>2. b[k + 1] = IF k + 1 \in DOMAIN raw THEN Project(b[k], raw[k + 1]) ELSE b[k]
    BY <1>1, <2>1 DEF BalanceStep
  <2>3. b[k + 1] \in BalanceStates /\ (b[k].source # Nothing => b[k + 1].source # Nothing)
    <3>1. CASE k + 1 \notin DOMAIN raw
      BY <2>1, <2>2, <3>1
    <3>2. CASE k + 1 \in DOMAIN raw
      <4> DEFINE d == raw[k + 1]
      <4>1. d.flow \in Int /\ d.by \in AccountRecords
        BY <1>2, <3>2
      <4>2. b[k + 1] = IF Explicit(d.by) THEN [source |-> d.by.assets, net |-> 0]
                       ELSE [b[k] EXCEPT !.net = b[k].net + d.flow]
        BY <2>2, <3>2 DEF Project
      <4> HIDE DEF d
      <4>3. CASE Explicit(d.by)
        BY <4>1, <4>2, <4>3 DEF Explicit, AccountRecords, BalanceStates
      <4>4. CASE ~Explicit(d.by)
        BY <2>1, <4>1, <4>2, <4>4 DEF BalanceStates
      <4> QED BY <4>3, <4>4
    <3> QED BY <3>1, <3>2
  <2>4. ASSUME NEW m \in 0 .. k + 1, b[m].source # Nothing PROVE b[k + 1].source # Nothing
    <3>1. CASE m = k + 1
      BY <2>4, <3>1
    <3>2. CASE m # k + 1
      <4>1. m \in 0 .. k
        BY <3>2
      <4> QED BY <2>1, <2>3, <2>4, <4>1
    <3> QED BY <3>1, <3>2
  <2> QED BY <2>3, <2>4
<1>5. Fine(n)
  <2> HIDE DEF Fine
  <2>1. N \in SUBSET Nat /\ n \in Nat /\ n <= to
    OBVIOUS
  <2> HIDE DEF N
  <2>2. n \in N
    BY <1>3, <1>4, <2>1, AllNumbers
  <2> QED BY <2>1, <2>2 DEF N
<1> QED BY <1>5 DEF b, raw

\* The days of an account are days that returns can be computed from.
LEMMA ProjectedIs ==
    ASSUME NEW rs \in Written, NEW to \in Nat
    PROVE  /\ Days(Projected(rs, to))
           /\ \A d : d \in DOMAIN Projected(rs, to) <=> d \in Dates /\ d <= to /\ On(rs, d) # {}
           /\ \A d \in DOMAIN Projected(rs, to) :
                 Projected(rs, to)[d] = [flow |-> DayOf(rs, d).flow, moved |-> DayOf(rs, d).moved,
                                         assets |-> Worth(Balances(RawDays(rs, to), to)[d])]
<1> DEFINE raw == RawDays(rs, to)
           b == Balances(raw, to)
           days == Projected(rs, to)
<1>1. /\ IsFiniteSet(DOMAIN raw)
      /\ \A d : d \in DOMAIN raw <=> d \in Dates /\ d <= to /\ On(rs, d) # {}
      /\ \A d \in DOMAIN raw : raw[d] = DayOf(rs, d) /\ raw[d].flow \in Int /\ (~raw[d].moved => raw[d].flow = 0)
  BY RawIs
<1>2. \A n \in 0 .. to : /\ b[n] \in BalanceStates
                         /\ \A m \in 0 .. n : b[m].source # Nothing => b[n].source # Nothing
  BY BalancesAre
<1>3. days = [n \in DOMAIN raw |-> [flow |-> raw[n].flow, moved |-> raw[n].moved, assets |-> Worth(b[n])]]
  BY DEF Projected
<1>4. ASSUME NEW d \in DOMAIN raw PROVE raw[d].moved \in BOOLEAN
  <2>1. DayOf(rs, d).moved = (\E i \in DayFlows(rs, d) : rs[i].flow # 0)
    BY DEF DayOf
  <2>2. raw[d] = DayOf(rs, d)
    BY <1>1
  <2> HIDE DEF raw
  <2> QED BY <2>1, <2>2, Zenon
<1> HIDE DEF raw, b, days
<1>5. /\ DOMAIN days = DOMAIN raw
      /\ \A n \in DOMAIN raw : days[n] = [flow |-> raw[n].flow, moved |-> raw[n].moved, assets |-> Worth(b[n])]
  BY <1>3
<1>6. DOMAIN days \in SUBSET Nat /\ \A n \in DOMAIN days : n \in 0 .. to
  BY <1>1, <1>5, ReturnsAssumption
<1>7. \A n \in 0 .. to : /\ Worth(b[n]) \in Int \cup {Nothing}
                         /\ Worth(b[n]) # Nothing <=> b[n].source # Nothing
  BY <1>2, ReturnsAssumption DEF Worth, BalanceStates
<1>8. \A n \in DOMAIN days : days[n] \in DayRecords
  BY <1>1, <1>4, <1>5, <1>6, <1>7 DEF DayRecords
<1>9. ASSUME NEW d \in DOMAIN days, NEW e \in DOMAIN days, d <= e, days[d].assets # Nothing
      PROVE  days[e].assets # Nothing
  <2>1. d \in 0 .. e /\ e \in 0 .. to /\ d \in 0 .. to
    BY <1>6, <1>9
  <2>2. days[d].assets = Worth(b[d]) /\ days[e].assets = Worth(b[e])
    BY <1>5
  <2> QED BY <1>2, <1>7, <1>9, <2>1, <2>2
<1>10. Days(days)
  BY <1>1, <1>5, <1>6, <1>8, <1>9 DEF Days
<1> QED BY <1>1, <1>5, <1>10 DEF days, raw, b

\* What was known at the end of a day does not depend on the end of the analysis.
LEMMA BalancesSame ==
    ASSUME NEW rs \in Written, NEW to \in Nat, NEW t \in Nat, t <= to, NEW n \in 0 .. t
    PROVE  Balances(RawDays(rs, t), t)[n] = Balances(RawDays(rs, to), to)[n]
<1> DEFINE raw == RawDays(rs, to)
           cut == RawDays(rs, t)
           b == Balances(raw, to)
           c == Balances(cut, t)
           N == {k \in Nat : k <= t => c[k] = b[k]}
<1>1. \A k \in 0 .. to : b[k] = BalanceStep(raw, b[k - 1], k)
  BY BalancesAt
<1>2. \A k \in 0 .. t : c[k] = BalanceStep(cut, c[k - 1], k)
  BY BalancesAt
<1>3. /\ \A d : d \in DOMAIN raw <=> d \in Dates /\ d <= to /\ On(rs, d) # {}
      /\ \A d \in DOMAIN raw : raw[d] = DayOf(rs, d)
  BY RawIs
<1>4. /\ \A d : d \in DOMAIN cut <=> d \in Dates /\ d <= t /\ On(rs, d) # {}
      /\ \A d \in DOMAIN cut : cut[d] = DayOf(rs, d)
  BY RawIs
<1> HIDE DEF raw, cut, b, c
<1>5. 0 \in N
  BY <1>1, <1>2 DEF BalanceStep
<1>6. ASSUME NEW k \in N PROVE k + 1 \in N
  <2> SUFFICES ASSUME k + 1 <= t PROVE c[k + 1] = b[k + 1]
    OBVIOUS
  <2>1. k + 1 \in 0 .. t /\ k + 1 \in 0 .. to /\ (k + 1) - 1 = k /\ c[k] = b[k] /\ k + 1 # 0
    OBVIOUS
  <2>2. b[k + 1] = IF k + 1 \in DOMAIN raw THEN Project(b[k], raw[k + 1]) ELSE b[k]
    BY <1>1, <2>1 DEF BalanceStep
  <2>3. c[k + 1] = IF k + 1 \in DOMAIN cut THEN Project(c[k], cut[k + 1]) ELSE c[k]
    BY <1>2, <2>1 DEF BalanceStep
  <2>4. k + 1 \in DOMAIN raw <=> k + 1 \in DOMAIN cut
    BY <1>3, <1>4
  <2>5. k + 1 \in DOMAIN raw => raw[k + 1] = cut[k + 1]
    BY <1>3, <1>4, <2>4
  <2> QED BY <2>1, <2>2, <2>3, <2>4, <2>5
<1>7. n \in N
  <2> HIDE DEF N
  <2>1. N \in SUBSET Nat
    BY DEF N
  <2> QED BY <1>5, <1>6, <2>1, AllNumbers
<1> QED BY <1>7 DEF b, c, raw, cut

\* An analysis that ends earlier sees the days up to its end.
LEMMA ProjectedCut ==
    ASSUME NEW rs \in Written, NEW to \in Nat, NEW t \in Nat, t <= to
    PROVE  Projected(rs, t) = Until(Projected(rs, to), t)
<1> DEFINE whole == Projected(rs, to)
           cut == Projected(rs, t)
           f == Until(whole, t)
<1>1. /\ \A d : d \in DOMAIN whole <=> d \in Dates /\ d <= to /\ On(rs, d) # {}
      /\ \A d \in DOMAIN whole :
            whole[d] = [flow |-> DayOf(rs, d).flow, moved |-> DayOf(rs, d).moved,
                        assets |-> Worth(Balances(RawDays(rs, to), to)[d])]
      /\ Days(whole)
  BY ProjectedIs
<1>2. /\ \A d : d \in DOMAIN cut <=> d \in Dates /\ d <= t /\ On(rs, d) # {}
      /\ \A d \in DOMAIN cut :
            cut[d] = [flow |-> DayOf(rs, d).flow, moved |-> DayOf(rs, d).moved,
                      assets |-> Worth(Balances(RawDays(rs, t), t)[d])]
  BY ProjectedIs
<1>3. /\ \A d : d \in DOMAIN f <=> d \in DOMAIN whole /\ d <= t
      /\ \A d \in DOMAIN whole : d <= t => f[d] = whole[d]
  BY <1>1, UntilIs
<1>4. \A d \in 0 .. t : Balances(RawDays(rs, t), t)[d] = Balances(RawDays(rs, to), to)[d]
  BY BalancesSame
<1>5. cut = [d \in DOMAIN cut |-> cut[d]]
  BY DEF Projected
<1>6. f = [d \in DOMAIN f |-> f[d]]
  BY DEF Until
<1> HIDE DEF whole, cut, f
<1>0. \A d \in Dates : d <= t => d <= to /\ d \in 0 .. t
  BY ReturnsAssumption
<1>7. DOMAIN cut = DOMAIN f
  <2>1. ASSUME NEW d PROVE d \in DOMAIN cut <=> d \in DOMAIN f
    BY <1>0, <1>1, <1>2, <1>3
  <2> QED BY <2>1
<1>8. ASSUME NEW d \in DOMAIN cut PROVE cut[d] = f[d]
  <2>1. d \in Dates /\ d <= t /\ d \in DOMAIN whole /\ d \in 0 .. t
    BY <1>0, <1>1, <1>2
  <2>2. f[d] = whole[d] /\ Balances(RawDays(rs, t), t)[d] = Balances(RawDays(rs, to), to)[d]
    BY <1>3, <1>4, <2>1
  <2> QED BY <1>1, <1>2, <2>1, <2>2
<1>9. cut = f
  BY <1>5, <1>6, <1>7, <1>8
<1> QED BY <1>9 DEF whole, cut, f

-----------------------------------------------------------------------------
(***************************************************************************)
(* The records.                                                            *)
(***************************************************************************)

\* They are of their types, valid, and ordered by their dates.
TypeOK == records \in [Accounts -> Written]
Kept(rs) == rs \in Written /\ (\A i \in DOMAIN rs : Valid(rs[i])) /\ Sorted(rs)
RecordsInv == TypeOK /\ \A a \in Accounts : Kept(records[a])

\* Two parts of a sequence of records.
Joined(t, x, z, l, m) ==
    /\ t \in Written /\ Len(t) = l + m
    /\ \A i \in Int : 1 <= i /\ i <= l => t[i] = x[i]
    /\ \A i \in Int : l < i /\ i <= l + m => t[i] = z[i - l]

\* A sequence put together is one.
LEMMA PartsAre ==
    ASSUME NEW x \in Written, NEW z \in Written, NEW l \in Nat, NEW m \in Nat, Len(x) = l, Len(z) = m
    PROVE  Joined(x \o z, x, z, l, m)
<1>1. x \in Seq(AccountRecords) /\ z \in Seq(AccountRecords)
  BY DEF Written
<1>2. /\ x \o z \in Seq(AccountRecords)
      /\ Len(x \o z) = Len(x) + Len(z)
      /\ \A i \in 1 .. Len(x) + Len(z) : (x \o z)[i] = IF i <= Len(x) THEN x[i] ELSE z[i - Len(x)]
  BY <1>1, ConcatProperties, Zenon
<1> DEFINE t == x \o z
<1> HIDE DEF t
<1>3. /\ t \in Written /\ Len(t) = l + m
      /\ \A i \in 1 .. l + m : t[i] = IF i <= l THEN x[i] ELSE z[i - l]
  BY <1>2, Zenon DEF Written, t
<1>4. /\ \A i \in Int : 1 <= i /\ i <= l => t[i] = x[i]
      /\ \A i \in Int : l < i /\ i <= l + m => t[i] = z[i - l]
  BY <1>3
<1> QED BY <1>3, <1>4 DEF t, Joined

\* What a part of the records holds.
LEMMA PartIs ==
    ASSUME NEW rs \in Written, NEW n \in Nat, Len(rs) = n, NEW l \in 1 .. n + 1, NEW m \in l - 1 .. n
    PROVE  /\ SubSeq(rs, l, m) \in Written /\ Len(SubSeq(rs, l, m)) = m - l + 1
           /\ \A i \in 1 .. m - l + 1 : SubSeq(rs, l, m)[i] = rs[l + i - 1]
BY SubSeqProperties DEF Written

\* One record more, after some of them.
LEMMA InsertIs ==
    ASSUME NEW rs \in Written, NEW n \in Nat, Len(rs) = n, NEW r \in AccountRecords, NEW p \in 0 .. n
    PROVE  /\ InsertAt(rs, p + 1, r) \in Written
           /\ Len(InsertAt(rs, p + 1, r)) = n + 1
           /\ \A i \in 1 .. n + 1 :
                 InsertAt(rs, p + 1, r)[i] = IF i <= p THEN rs[i] ELSE IF i = p + 1 THEN r ELSE rs[i - 1]
<1> DEFINE x == SubSeq(rs, 1, p)
           o == <<r>>
           y == x \o o
           z == SubSeq(rs, p + 1, n)
           t == y \o z
<1>1. InsertAt(rs, p + 1, r) = t
  <2>1. (p + 1) - 1 = p
    OBVIOUS
  <2> QED BY <2>1 DEF InsertAt
<1>2. x \in Written /\ Len(x) = p /\ \A i \in 1 .. p : x[i] = rs[i]
  <2>1. /\ x \in Written /\ Len(x) = p - 1 + 1 /\ \A i \in 1 .. p - 1 + 1 : x[i] = rs[1 + i - 1]
    BY PartIs
  <2> HIDE DEF x
  <2> QED BY <2>1
<1>3. z \in Written /\ Len(z) = n - p /\ \A i \in 1 .. n - p : z[i] = rs[i + p]
  <2>1. /\ z \in Written /\ Len(z) = n - (p + 1) + 1
        /\ \A i \in 1 .. n - (p + 1) + 1 : z[i] = rs[(p + 1) + i - 1]
    BY PartIs
  <2>2. \A i \in Int : (p + 1) + i - 1 = i + p
    OBVIOUS
  <2> HIDE DEF z
  <2> QED BY <2>1, <2>2
<1>4. o \in Written /\ Len(o) = 1 /\ o[1] = r
  BY DEF Written
<1> HIDE DEF x, z, o
<1>5. y \in Written /\ Len(y) = p + 1 /\ y[p + 1] = r /\ \A i \in 1 .. p : y[i] = rs[i]
  <2>0. p \in Nat /\ 1 \in Nat
    OBVIOUS
  <2>1. Joined(y, x, o, p, 1)
    BY <1>2, <1>4, <2>0, PartsAre, Zenon
  <2> HIDE DEF y
  <2> QED BY <1>2, <1>4, <2>1 DEF Joined
<1> HIDE DEF y
<1>6. /\ t \in Written /\ Len(t) = (p + 1) + (n - p)
      /\ \A i \in Int : 1 <= i /\ i <= p + 1 => t[i] = y[i]
      /\ \A i \in Int : p + 1 < i /\ i <= (p + 1) + (n - p) => t[i] = z[i - (p + 1)]
  <2>1. p + 1 \in Nat /\ n - p \in Nat
    OBVIOUS
  <2>2. Joined(t, y, z, p + 1, n - p)
    BY <1>3, <1>5, <2>1, PartsAre
  <2> HIDE DEF t
  <2> QED BY <2>2 DEF Joined
<1> HIDE DEF t
<1>7. ASSUME NEW i \in 1 .. n + 1
      PROVE  t[i] = IF i <= p THEN rs[i] ELSE IF i = p + 1 THEN r ELSE rs[i - 1]
  <2>1. CASE i <= p + 1
    BY <1>5, <1>6, <2>1
  <2>2. CASE i > p + 1
    <3>1. i - (p + 1) \in 1 .. n - p /\ i - (p + 1) + p = i - 1 /\ i <= (p + 1) + (n - p)
      BY <2>2
    <3> QED BY <1>3, <1>6, <2>2, <3>1
  <2> QED BY <2>1, <2>2
<1>8. (p + 1) + (n - p) = n + 1
  OBVIOUS
<1> QED BY <1>1, <1>6, <1>7, <1>8

\* A record less.
LEMMA RemoveIs ==
    ASSUME NEW rs \in Written, NEW n \in Nat, Len(rs) = n, NEW p \in 1 .. n
    PROVE  /\ RemoveAt(rs, p) \in Written
           /\ Len(RemoveAt(rs, p)) = n - 1
           /\ \A i \in 1 .. n - 1 : RemoveAt(rs, p)[i] = IF i < p THEN rs[i] ELSE rs[i + 1]
<1> DEFINE x == SubSeq(rs, 1, p - 1)
           z == SubSeq(rs, p + 1, n)
           t == x \o z
<1>1. RemoveAt(rs, p) = t
  BY DEF RemoveAt
<1>2. x \in Written /\ Len(x) = p - 1 /\ \A i \in 1 .. p - 1 : x[i] = rs[i]
  <2>1. /\ x \in Written /\ Len(x) = p - 1 - 1 + 1 /\ \A i \in 1 .. p - 1 - 1 + 1 : x[i] = rs[1 + i - 1]
    BY PartIs
  <2> HIDE DEF x
  <2> QED BY <2>1
<1>3. z \in Written /\ Len(z) = n - p /\ \A i \in 1 .. n - p : z[i] = rs[i + p]
  <2>1. /\ z \in Written /\ Len(z) = n - (p + 1) + 1
        /\ \A i \in 1 .. n - (p + 1) + 1 : z[i] = rs[(p + 1) + i - 1]
    BY PartIs
  <2>2. \A i \in Int : (p + 1) + i - 1 = i + p
    OBVIOUS
  <2> HIDE DEF z
  <2> QED BY <2>1, <2>2
<1> HIDE DEF x, z
<1>6. /\ t \in Written /\ Len(t) = (p - 1) + (n - p)
      /\ \A i \in Int : 1 <= i /\ i <= p - 1 => t[i] = x[i]
      /\ \A i \in Int : p - 1 < i /\ i <= (p - 1) + (n - p) => t[i] = z[i - (p - 1)]
  <2>1. p - 1 \in Nat /\ n - p \in Nat
    OBVIOUS
  <2>2. Joined(t, x, z, p - 1, n - p)
    BY <1>2, <1>3, <2>1, PartsAre
  <2> HIDE DEF t
  <2> QED BY <2>2 DEF Joined
<1> HIDE DEF t
<1>7. ASSUME NEW i \in 1 .. n - 1 PROVE t[i] = IF i < p THEN rs[i] ELSE rs[i + 1]
  <2>1. CASE i < p
    BY <1>2, <1>6, <2>1
  <2>2. CASE i >= p
    <3>1. i - (p - 1) \in 1 .. n - p /\ i - (p - 1) + p = i + 1 /\ i > p - 1 /\ i <= (p - 1) + (n - p)
      BY <2>2
    <3> QED BY <1>3, <1>6, <2>2, <3>1
  <2> QED BY <2>1, <2>2
<1>8. (p - 1) + (n - p) = n - 1
  OBVIOUS
<1> QED BY <1>1, <1>6, <1>7, <1>8

\* What a valid record holds.
LEMMA ValidIs ==
    ASSUME NEW r, Valid(r)
    PROVE  /\ r \in AccountRecords /\ r.date \in Dates /\ r.date \in Nat /\ r.date \in Int
           /\ r.flow \in Int \cup {Nothing} /\ r.assets \in Nat \cup {Nothing}
           /\ r.flow # Nothing => r.kind # "log"
           /\ Explicit(r) => r.kind # "log" /\ r.assets \in Nat
<1>1. r \in AccountRecords
  BY DEF Valid
<1>2. r.date \in Dates /\ r.flow \in Int \cup {Nothing} /\ r.assets \in Nat \cup {Nothing}
  BY <1>1 DEF AccountRecords
<1>3. r.date \in Nat
  BY <1>2, ReturnsAssumption
<1>4. (r.flow # Nothing => r.kind # "log") /\ (r.assets # Nothing => r.kind # "log")
  BY DEF Valid
<1> QED BY <1>1, <1>2, <1>3, <1>4 DEF Explicit

\* The three changes keep the records in order.
LEMMA PlacedKept ==
    ASSUME NEW rs, Kept(rs), NEW r, Valid(r)
    PROVE  Kept(Placed(rs, r))
<1> DEFINE S == {i \in DOMAIN rs : rs[i].date <= r.date}
           p == Max({0} \cup S)
           n == Len(rs)
           t == InsertAt(rs, p + 1, r)
<1>1. rs \in Written /\ n \in Nat /\ DOMAIN rs = 1 .. n /\ r \in AccountRecords
  BY DEF Kept, Written, Valid
<1>2. p \in {0} \cup S /\ \A x \in {0} \cup S : x <= p
  <2>1. IsFiniteSet(1 .. n)
    BY <1>1, FS_Interval
  <2>2. S \in SUBSET (1 .. n)
    BY <1>1
  <2>3. IsFiniteSet({0} \cup S)
    BY <2>1, <2>2, FS_Subset, FS_Singleton, FS_Union
  <2>4. {0} \cup S \in SUBSET Int /\ {0} \cup S # {}
    BY <2>2
  <2> HIDE DEF S
  <2> QED BY <2>3, <2>4, MaxIs
<1>3. p \in 0 .. n
  BY <1>1, <1>2
<1>4. \A i \in 1 .. n : rs[i] \in AccountRecords /\ Valid(rs[i]) /\ rs[i].date \in Int
  BY <1>1, ValidIs DEF Kept
<1>5. r.date \in Int
  BY ValidIs
<1>6. ASSUME NEW i \in 1 .. n PROVE i <= p <=> rs[i].date <= r.date
  <2>1. rs[i].date <= r.date => i <= p
    BY <1>1, <1>2
  <2>2. ASSUME i <= p PROVE rs[i].date <= r.date
    <3>1. p \in S
      BY <1>2, <2>2
    <3>2. rs[p].date <= r.date /\ p \in 1 .. n
      BY <1>1, <3>1
    <3>3. rs[i].date <= rs[p].date
      BY <1>1, <2>2, <3>2 DEF Kept, Sorted
    <3> QED BY <1>4, <1>5, <3>2, <3>3
  <2> QED BY <2>1, <2>2
<1> HIDE DEF p, n
<1>7. /\ t \in Written /\ Len(t) = n + 1
      /\ \A i \in 1 .. n + 1 : t[i] = IF i <= p THEN rs[i] ELSE IF i = p + 1 THEN r ELSE rs[i - 1]
  BY <1>1, <1>3, InsertIs DEF n
<1>8. Placed(rs, r) = t
  BY DEF Placed, p
<1> HIDE DEF t
<1>9. DOMAIN t = 1 .. n + 1
  BY <1>1, <1>7 DEF Written
<1>10. \A i \in DOMAIN t : Valid(t[i])
  BY <1>1, <1>3, <1>4, <1>7, <1>9
<1>11. ASSUME NEW i \in DOMAIN t, NEW j \in DOMAIN t, i <= j PROVE t[i].date <= t[j].date
  <2>1. \A x, y \in 1 .. n : x <= y => rs[x].date <= rs[y].date
    BY <1>1 DEF Kept, Sorted
  <2>2. i \in 1 .. n + 1 /\ j \in 1 .. n + 1
    BY <1>9
  <2>9. /\ \A x \in 1 .. n + 1 : x <= p => x \in 1 .. n /\ t[x] = rs[x]
        /\ p + 1 \in 1 .. n + 1 /\ t[p + 1] = r
        /\ \A x \in 1 .. n + 1 : x > p + 1 => x - 1 \in 1 .. n /\ ~(x - 1 <= p) /\ t[x] = rs[x - 1]
    BY <1>1, <1>3, <1>7
  <2>3. CASE j <= p
    <3>1. i <= p
      BY <1>1, <1>3, <1>11, <2>2, <2>3
    <3> QED BY <1>11, <2>1, <2>2, <2>3, <2>9, <3>1
  <2>4. CASE j = p + 1 /\ i <= p
    BY <1>6, <2>2, <2>4, <2>9
  <2>5. CASE j = p + 1 /\ i = p + 1
    BY <1>5, <2>2, <2>5, <2>9
  <2>6. CASE j > p + 1 /\ i <= p
    <3>1. i <= j - 1
      BY <1>1, <1>3, <2>2, <2>6
    <3> QED BY <2>1, <2>2, <2>6, <2>9, <3>1
  <2>7. CASE j > p + 1 /\ i = p + 1
    <3>1. j - 1 \in 1 .. n /\ ~(j - 1 <= p) /\ t[j] = rs[j - 1] /\ t[i] = r
      BY <2>2, <2>7, <2>9
    <3>2. ~(rs[j - 1].date <= r.date) /\ rs[j - 1].date \in Int
      BY <1>4, <1>6, <3>1
    <3> QED BY <1>5, <3>1, <3>2
  <2>8. CASE j > p + 1 /\ i > p + 1
    <3>1. j - 1 \in 1 .. n /\ i - 1 \in 1 .. n /\ t[j] = rs[j - 1] /\ t[i] = rs[i - 1]
      BY <2>2, <2>8, <2>9
    <3>2. i - 1 <= j - 1
      BY <1>1, <1>11, <2>2
    <3> QED BY <2>1, <3>1, <3>2
  <2> QED BY <1>1, <1>3, <1>11, <2>2, <2>3, <2>4, <2>5, <2>6, <2>7, <2>8
<1> QED BY <1>7, <1>8, <1>10, <1>11 DEF Kept, Sorted

\* Voiding a record keeps the order of the others.
LEMMA RemovedKept ==
    ASSUME NEW rs, Kept(rs), NEW p \in DOMAIN rs
    PROVE  Kept(RemoveAt(rs, p))
<1> DEFINE n == Len(rs)
           t == RemoveAt(rs, p)
<1>1. rs \in Written /\ n \in Nat /\ Len(rs) = n /\ DOMAIN rs = 1 .. n /\ p \in 1 .. n
  BY DEF Kept, Written
<1> HIDE DEF n
<1>2. /\ t \in Written /\ Len(t) = n - 1
      /\ \A i \in 1 .. n - 1 : t[i] = IF i < p THEN rs[i] ELSE rs[i + 1]
  BY <1>1, RemoveIs
<1> HIDE DEF t
<1>3. DOMAIN t = 1 .. n - 1
  BY <1>2 DEF Written
<1>4. \A i \in 1 .. n - 1 : i \in 1 .. n /\ i + 1 \in 1 .. n
  BY <1>1
<1>5. \A i \in DOMAIN t : Valid(t[i])
  BY <1>1, <1>2, <1>3, <1>4 DEF Kept
<1>6. ASSUME NEW i \in DOMAIN t, NEW j \in DOMAIN t, i <= j PROVE t[i].date <= t[j].date
  <2>1. \A x, y \in 1 .. n : x <= y => rs[x].date <= rs[y].date
    BY <1>1 DEF Kept, Sorted
  <2>2. PICK x \in 1 .. n : t[i] = rs[x] /\ (i < p => x = i) /\ (~(i < p) => x = i + 1)
    BY <1>2, <1>3, <1>4
  <2>3. PICK y \in 1 .. n : t[j] = rs[y] /\ (j < p => y = j) /\ (~(j < p) => y = j + 1)
    BY <1>2, <1>3, <1>4
  <2>4. x <= y
    BY <1>1, <1>3, <1>6, <2>2, <2>3
  <2> QED BY <2>1, <2>2, <2>3, <2>4
<1> QED BY <1>2, <1>5, <1>6 DEF Kept, Sorted, t

\* The place of a record that is inserted, counted from one.
LEMMA InsertedAt ==
    ASSUME NEW rs \in Written, NEW n \in Nat, Len(rs) = n - 1, NEW r \in AccountRecords, NEW q \in 1 .. n
    PROVE  /\ InsertAt(rs, q, r) \in Written /\ Len(InsertAt(rs, q, r)) = n
           /\ \A i \in 1 .. n :
                 InsertAt(rs, q, r)[i] = IF i < q THEN rs[i] ELSE IF i = q THEN r ELSE rs[i - 1]
<1> DEFINE p == q - 1
           m == Len(rs)
           t == InsertAt(rs, p + 1, r)
<1>1. m \in Nat /\ p \in 0 .. m /\ p + 1 = q /\ m + 1 = n
  OBVIOUS
<1> HIDE DEF p, m
<1>2. /\ t \in Written /\ Len(t) = m + 1
      /\ \A i \in 1 .. m + 1 : t[i] = IF i <= p THEN rs[i] ELSE IF i = p + 1 THEN r ELSE rs[i - 1]
  <2>1. rs \in Written /\ r \in AccountRecords /\ m = Len(rs)
    BY DEF m
  <2> QED BY <1>1, <2>1, InsertIs, SMTT(60)
<1>3. InsertAt(rs, q, r) = t
  BY <1>1
<1> HIDE DEF t
<1>4. \A i \in 1 .. n : i <= p <=> i < q
  BY <1>1
<1> QED BY <1>1, <1>2, <1>3, <1>4

\* A revised record, put where the order allows, leaves records in their order.
LEMMA RevisedKept ==
    ASSUME NEW rs, Kept(rs), NEW p \in DOMAIN rs, NEW q \in DOMAIN rs, NEW r, Valid(r),
           Sorted(InsertAt(RemoveAt(rs, p), q, r))
    PROVE  Kept(InsertAt(RemoveAt(rs, p), q, r))
<1> DEFINE n == Len(rs)
           rest == RemoveAt(rs, p)
           t == InsertAt(rest, q, r)
<1>1. /\ rs \in Written /\ n \in Nat /\ Len(rs) = n /\ DOMAIN rs = 1 .. n
      /\ p \in 1 .. n /\ q \in 1 .. n /\ r \in AccountRecords
  BY DEF Kept, Written, Valid
<1> HIDE DEF n
<1>2. Kept(rest)
  BY RemovedKept
<1>3. rest \in Written /\ Len(rest) = n - 1 /\ DOMAIN rest = 1 .. n - 1
  <2>1. rest \in Written /\ Len(rest) = n - 1
    BY <1>1, RemoveIs
  <2> HIDE DEF rest
  <2> QED BY <1>1, <2>1 DEF Written
<1>4. \A i \in 1 .. n - 1 : Valid(rest[i])
  BY <1>2, <1>3 DEF Kept
<1> HIDE DEF rest
<1>6. /\ t \in Written /\ Len(t) = n
      /\ \A i \in 1 .. n : t[i] = IF i < q THEN rest[i] ELSE IF i = q THEN r ELSE rest[i - 1]
  BY <1>1, <1>3, InsertedAt
<1>7. Sorted(t)
  BY DEF rest
<1> HIDE DEF t
<1>8. DOMAIN t = 1 .. n
  BY <1>1, <1>6 DEF Written
<1>9. ASSUME NEW i \in DOMAIN t PROVE Valid(t[i])
  <2>1. i \in 1 .. n
    BY <1>8
  <2>2. CASE i < q
    <3>1. i \in 1 .. n - 1 /\ t[i] = rest[i]
      BY <1>1, <1>6, <2>1, <2>2
    <3> QED BY <1>4, <3>1
  <2>3. CASE i = q
    <3>1. t[i] = r
      BY <1>1, <1>6, <2>1, <2>3
    <3> QED BY <3>1
  <2>4. CASE i > q
    <3>1. i - 1 \in 1 .. n - 1 /\ t[i] = rest[i - 1]
      BY <1>1, <1>6, <2>1, <2>4
    <3> QED BY <1>4, <3>1
  <2> QED BY <1>1, <2>1, <2>2, <2>3, <2>4
<1>10. Kept(t)
  BY <1>6, <1>7, <1>9 DEF Kept
<1> QED BY <1>10 DEF t, rest

\* Accounts begin without records.
THEOREM InitRecords == Init => RecordsInv
<1> SUFFICES ASSUME Init PROVE RecordsInv
  OBVIOUS
<1>1. <<>> \in Written /\ DOMAIN <<>> = {}
  BY DEF Written
<1>2. Kept(<<>>)
  BY <1>1 DEF Kept, Sorted
<1>3. records = [a \in Accounts |-> <<>>]
  BY DEF Init
<1> QED BY <1>1, <1>2, <1>3 DEF RecordsInv, TypeOK

\* One account changes, and its records stay as they have to be.
LEMMA OneChanges ==
    ASSUME RecordsInv, NEW a \in Accounts, NEW x, Kept(x), records' = [records EXCEPT ![a] = x]
    PROVE  RecordsInv'
<1>1. x \in Written
  BY DEF Kept
<1>2. records' \in [Accounts -> Written]
  BY <1>1 DEF RecordsInv, TypeOK
<1>3. ASSUME NEW c \in Accounts PROVE Kept(records'[c])
  <2>1. records'[c] = IF c = a THEN x ELSE records[c]
    BY DEF RecordsInv, TypeOK
  <2> QED BY <2>1 DEF RecordsInv
<1> QED BY <1>2, <1>3 DEF RecordsInv, TypeOK

\* WriteAccountRecord and the weekly job enter, revise and void records, and keep their types
\* and their order by date.
THEOREM NextRecords == RecordsInv /\ [Next]_vars => RecordsInv'
<1> SUFFICES ASSUME RecordsInv, [Next]_vars PROVE RecordsInv'
  OBVIOUS
<1>0. \A a \in Accounts : Kept(records[a])
  BY DEF RecordsInv
<1>1. ASSUME NEW a \in Accounts, NEW r \in Entries(a), Write(a, r) PROVE RecordsInv'
  <2>1. Valid(r)
    BY EntriesAssumption
  <2>2. Kept(Placed(records[a], r))
    BY <1>0, <2>1, PlacedKept
  <2>3. records' = [records EXCEPT ![a] = Placed(records[a], r)]
    BY <1>1 DEF Write
  <2> QED BY <2>2, <2>3, OneChanges
<1>2. ASSUME NEW a \in Accounts, NEW i \in DOMAIN records[a], Void(a, i) PROVE RecordsInv'
  <2>1. Kept(RemoveAt(records[a], i))
    BY <1>0, RemovedKept
  <2>2. records' = [records EXCEPT ![a] = RemoveAt(records[a], i)]
    BY <1>2 DEF Void
  <2> QED BY <2>1, <2>2, OneChanges
<1>3. ASSUME NEW a \in Accounts, NEW i \in DOMAIN records[a], NEW r \in Entries(a), Revise(a, i, r)
      PROVE  RecordsInv'
  <2> DEFINE old == records[a][i]
             x == [r EXCEPT !.carried = old.carried, !.manual = old.carried]
  <2>1. Valid(r) /\ Valid(old)
    BY <1>0, EntriesAssumption DEF Kept
  <2>2. Valid(x)
    BY <2>1 DEF Valid, AccountRecords
  <2>3. PICK n \in DOMAIN records[a] :
            LET rs == InsertAt(RemoveAt(records[a], i), n, x)
            IN  Sorted(rs) /\ records' = [records EXCEPT ![a] = rs]
    BY <1>3 DEF Revise
  <2> HIDE DEF x
  <2> DEFINE rs == InsertAt(RemoveAt(records[a], i), n, x)
  <2>4. Kept(rs)
    BY <1>0, <2>2, <2>3, RevisedKept
  <2>5. records' = [records EXCEPT ![a] = rs]
    BY <2>3
  <2> HIDE DEF rs
  <2> QED BY <2>4, <2>5, OneChanges
<1>4. ASSUME NEW a \in Accounts, NEW date \in Saturdays, Carry(a, date) PROVE RecordsInv'
  <2> DEFINE stated == {i \in DOMAIN records[a] : Explicit(records[a][i]) /\ records[a][i].date <= date}
             value == records[a][Max(stated)].assets
             r == [date |-> date, kind |-> "asset", flow |-> Nothing,
                   assets |-> value, carried |-> TRUE, manual |-> FALSE]
  <2>1. stated # {} /\ records' = [records EXCEPT ![a] = Placed(records[a], r)]
    BY <1>4 DEF Carry
  <2>2. records[a] \in Written
    BY DEF RecordsInv, TypeOK
  <2>3. IsFiniteSet(DOMAIN records[a]) /\ DOMAIN records[a] \in SUBSET (Nat \ {0})
    BY <2>2, OnIs
  <2>4. stated \in SUBSET DOMAIN records[a]
    OBVIOUS
  <2>5. Max(stated) \in stated
    <3>1. IsFiniteSet(stated) /\ stated \in SUBSET Int
      BY <2>3, <2>4, FS_Subset
    <3> HIDE DEF stated
    <3> QED BY <2>1, <3>1, MaxIs
  <2>6. value \in Nat
    <3>1. Max(stated) \in DOMAIN records[a] /\ Explicit(records[a][Max(stated)])
      BY <2>5
    <3> HIDE DEF stated
    <3> QED BY <1>0, <3>1, ValidIs DEF Kept
  <2> HIDE DEF stated, value
  <2>7. Valid(r)
    <3>1. date \in Dates /\ value # Nothing
      BY <2>6, ReturnsAssumption
    <3>2. r \in AccountRecords
      BY <2>6, <3>1 DEF AccountRecords
    <3> QED BY <3>1, <3>2 DEF Valid
  <2> HIDE DEF r
  <2>8. Kept(Placed(records[a], r))
    BY <1>0, <2>7, PlacedKept
  <2> QED BY <2>1, <2>8, OneChanges
<1>5. ASSUME UNCHANGED vars PROVE RecordsInv'
  BY <1>5 DEF RecordsInv, TypeOK, vars
<1> QED BY <1>1, <1>2, <1>3, <1>4, <1>5 DEF Next

\* The records that are not voided are valid and in the order of their dates, whatever was
\* written, revised, voided and carried before.
THEOREM RecordsOrdered == Spec => []RecordsInv
<1> QED BY InitRecords, NextRecords, PTL DEF Spec

-----------------------------------------------------------------------------
(***************************************************************************)
(* The properties.                                                         *)
(***************************************************************************)

\* The curve and the summary of the returns are computed by two formulas: every point of
\* the curve is what an analysis that ends on its day reports.
THEOREM CurvePoints == Spec => []CurveIsPrefix
<1>1. ASSUME RecordsInv PROVE CurveIsPrefix
  <2> SUFFICES ASSUME NEW a \in Accounts, NEW from \in Dates \cup {Nothing}, NEW to \in Dates,
                      NEW date \in DOMAIN AccountReturn(records[a], from, to).curve
               PROVE  LET curve == AccountReturn(records[a], from, to).curve
                          prefix == AccountReturn(records[a], from, date)
                      IN  /\ Same(curve[date].profit, prefix.profit)
                          /\ Same(curve[date].dietz, prefix.dietz)
                          /\ Same(curve[date].twr, prefix.twr)
    BY DEF CurveIsPrefix
  <2> DEFINE rs == records[a]
             days == Projected(rs, to)
  <2>1. rs \in Written
    BY <1>1 DEF RecordsInv, TypeOK
  <2>2. to \in Nat /\ from \in Nat \cup {Nothing} /\ from # 0
    BY ReturnsAssumption
  <2>3. /\ Days(days) /\ AccountReturn(rs, from, to) = ReturnsOf(days, from)
        /\ \A d \in DOMAIN days : d \in Dates /\ d <= to
    BY <2>1, <2>2, ProjectedIs DEF AccountReturn
  <2> HIDE DEF days, rs
  <2>4. date \in DOMAIN ReturnsOf(days, from).curve
    BY <2>3 DEF rs
  <2>5. date \in DOMAIN days
    <3>1. Defined(days, from)
      BY <2>2, <2>3, <2>4, AvailableIs
    <3>2. date \in After(days, Start(days, from))
      BY <2>2, <2>3, <2>4, <3>1, ReturnsIs
    <3> QED BY <3>2 DEF After
  <2>6. date \in Nat /\ date <= to
    BY <2>3, <2>5, ReturnsAssumption
  <2>7. Projected(rs, date) = Until(days, date)
    BY <2>1, <2>2, <2>6, ProjectedCut DEF days
  <2>8. AccountReturn(rs, from, date) = ReturnsOf(Until(days, date), from)
    BY <2>7 DEF AccountReturn
  <2>9. /\ ReturnsOf(days, from).curve[date].profit = ReturnsOf(Until(days, date), from).profit
        /\ ReturnsOf(days, from).curve[date].dietz = ReturnsOf(Until(days, date), from).dietz
        /\ ReturnsOf(days, from).curve[date].twr = ReturnsOf(Until(days, date), from).twr
    BY <2>2, <2>3, <2>4, CurvePrefix
  <2> QED BY <2>3, <2>8, <2>9 DEF Same, rs
<1> QED BY <1>1, RecordsOrdered, PTL

-----------------------------------------------------------------------------
(***************************************************************************)
(* An interval that is split.                                              *)
(***************************************************************************)

\* x is the chain of the whole interval and t that of its second part; the growth of the
\* first part is p over q.  The growth of the whole is the product of the two ...
Product(g, h, p, q) == g[1] * q * h[2] = g[2] * p * h[1]
Linked(x, t, p, q) == /\ x.reason = "none" /\ x.base = t.base
                      /\ Product(x.chain, t.chain, p, q)
\* ... once a flow has made them continue from the same assets; until then the second
\* part is fresh, and the last growth of the first part is not in the chain.
Pending(x, t, p, q) ==
    /\ x.reason = "none" /\ x.base \in Nat /\ t.chain = <<1, 1>> /\ t.base \in Nat
    /\ x.base = 0 => t.base = 0 /\ x.chain = <<p, q>>
    /\ x.base # 0 => p = x.chain[1] * t.base /\ q = x.chain[2] * x.base

\* A growth on both sides.
LEMMA ProductGrows ==
    ASSUME NEW a \in Int, NEW b \in Int, NEW c \in Int, NEW e \in Int, NEW p \in Int, NEW q \in Int,
           NEW y \in Int, NEW z \in Int, a * q * e = b * p * c
    PROVE  (a * y) * q * (e * z) = (b * z) * p * (c * y)
<1>1. (a * y) * q * (e * z) = (a * q * e) * (y * z)
  OBVIOUS
<1>2. (b * z) * p * (c * y) = (b * p * c) * (y * z)
  OBVIOUS
<1> QED BY <1>1, <1>2

\* Chains that are linked grow by the same factor.
LEMMA LinkedGrows ==
    ASSUME NEW x, Good(x), NEW t, Good(t), NEW d \in DayRecords, NEW p \in Int, NEW q \in Int,
           Linked(x, t, p, q), Gap(t, d) = "none"
    PROVE  Gap(x, d) = "none" /\ Product(Growth(x, d), Growth(t, d), p, q)
<1>1. t.reason = "none" /\ d.assets \in Int
  BY GapIs
<1>2. Gap(x, d) = "none"
  BY <1>1 DEF Gap, Linked
<1>3. /\ x.chain \in Int \X Int /\ t.chain \in Int \X Int /\ x.base \in Int /\ d.flow \in Int
      /\ x.base = t.base /\ x.chain[1] * q * t.chain[2] = x.chain[2] * p * t.chain[1]
  BY DEF Good, ChainStates, DayRecords, Linked, Product
<1>4. CASE x.base = 0
  <2>1. Growth(x, d) = x.chain /\ Growth(t, d) = t.chain
    BY <1>3, <1>4 DEF Growth
  <2> QED BY <1>2, <2>1 DEF Linked
<1>5. CASE x.base # 0
  <2> DEFINE pre == d.assets - d.flow
  <2>1. /\ Growth(x, d) = <<x.chain[1] * pre, x.chain[2] * x.base>>
        /\ Growth(t, d) = <<t.chain[1] * pre, t.chain[2] * x.base>>
    BY <1>3, <1>5 DEF Growth
  <2>2. pre \in Int /\ x.chain[1] \in Int /\ x.chain[2] \in Int /\ t.chain[1] \in Int /\ t.chain[2] \in Int
    BY <1>1, <1>3
  <2> HIDE DEF pre
  <2> DEFINE a == x.chain[1]
             b == x.chain[2]
             c == t.chain[1]
             e == t.chain[2]
             z == x.base
  <2>3. (a * pre) * q * (e * z) = (b * z) * p * (c * pre)
    <3>1. /\ a \in Int /\ b \in Int /\ c \in Int /\ e \in Int /\ z \in Int /\ pre \in Int
          /\ a * q * e = b * p * c
      BY <1>3, <2>2
    <3> HIDE DEF a, b, c, e, z
    <3> QED BY <3>1, ProductGrows
  <2>4. Product(Growth(x, d), Growth(t, d), p, q)
    BY <2>1, <2>3 DEF Product
  <2> QED BY <1>2, <2>4
<1> QED BY <1>4, <1>5

\* The first step after the day of the split multiplies what was pending.
LEMMA PendingGrows ==
    ASSUME NEW x, Good(x), NEW t, Good(t), NEW d \in DayRecords, NEW p \in Int, NEW q \in Int,
           Pending(x, t, p, q), Gap(t, d) = "none"
    PROVE  Gap(x, d) = "none" /\ Product(Growth(x, d), Growth(t, d), p, q)
<1> DEFINE pre == d.assets - d.flow
           a == x.chain[1]
           b == x.chain[2]
<1>1. /\ t.reason = "none" /\ d.assets \in Int /\ d.assets >= 0
      /\ t.base = 0 => d.assets = d.flow
      /\ t.base # 0 => d.assets - d.flow >= 0
  BY GapIs
<1>2. x.chain \in Int \X Int /\ d.flow \in Int /\ a \in Int /\ b \in Int
  BY DEF Good, ChainStates, DayRecords
<1>3. pre \in Int /\ pre >= 0 /\ (t.base = 0 => pre = 0)
  BY <1>1, <1>2
<1>4. x.reason = "none" /\ x.base \in Nat /\ t.base \in Nat /\ t.chain = <<1, 1>>
  BY DEF Pending
<1>5. Growth(t, d) = IF t.base = 0 THEN <<1, 1>> ELSE <<pre, t.base>>
  <2>1. 1 * pre = pre /\ 1 * t.base = t.base
    BY <1>3, <1>4
  <2> HIDE DEF pre
  <2> QED BY <1>4, <2>1 DEF Growth, pre
<1>6. CASE x.base = 0
  <2>1. t.base = 0 /\ x.chain = <<p, q>>
    BY <1>6 DEF Pending
  <2>2. Gap(x, d) = "none"
    BY <1>1, <1>3, <1>4, <1>6, <2>1, ReturnsAssumption DEF Gap
  <2>3. Growth(x, d) = <<p, q>> /\ Growth(t, d) = <<1, 1>>
    BY <1>5, <1>6, <2>1 DEF Growth
  <2>4. p * q * 1 = q * p * 1
    OBVIOUS
  <2> QED BY <2>2, <2>3, <2>4 DEF Product
<1>7. CASE x.base # 0
  <2>1. p = a * t.base /\ q = b * x.base
    BY <1>7 DEF Pending
  <2>2. Gap(x, d) = "none"
    BY <1>1, <1>3, <1>4, <1>7, ReturnsAssumption DEF Gap
  <2>3. Growth(x, d) = <<a * pre, b * x.base>>
    BY <1>7 DEF Growth
  <2> HIDE DEF pre, a, b
  <2>4. CASE t.base = 0
    <3>1. p = 0 /\ a * pre = 0
      BY <1>2, <1>3, <2>1, <2>4
    <3>2. (a * pre) * q * 1 = 0 /\ (b * x.base) * p * 1 = 0
      BY <1>2, <1>4, <3>1
    <3> QED BY <1>5, <2>2, <2>3, <2>4, <3>2 DEF Product
  <2>5. CASE t.base # 0
    <3>1. (a * pre) * (b * x.base) * t.base = (b * x.base) * (a * t.base) * pre
      <4>1. \A u, v, w, y, z \in Int : (u * v) * (w * y) * z = (w * y) * (u * z) * v
        OBVIOUS
      <4> QED BY <1>2, <1>3, <1>4, <4>1
    <3> QED BY <1>5, <2>1, <2>2, <2>3, <2>5, <3>1 DEF Product
  <2> QED BY <2>4, <2>5
<1> QED BY <1>6, <1>7

\* A day more.
LEMMA BothExtend ==
    ASSUME NEW x, Good(x), NEW t, Good(t), NEW d \in DayRecords, NEW p \in Int, NEW q \in Int,
           NEW e \in Int, NEW f \in Int,
           Linked(x, t, p, q) \/ Pending(x, t, p, q), Extend(t, f, d).reason = "none"
    PROVE  Linked(Extend(x, e, d), Extend(t, f, d), p, q) \/ Pending(Extend(x, e, d), Extend(t, f, d), p, q)
<1> DEFINE y == Extend(x, e, d)
           u == Extend(t, f, d)
<1>1. CASE ~d.moved
  <2>1. /\ y.reason = x.reason /\ y.chain = x.chain /\ y.base = x.base
        /\ u.chain = t.chain /\ u.base = t.base
    BY <1>1, ExtendIs
  <2> HIDE DEF y, u
  <2>2. Linked(x, t, p, q) => Linked(y, u, p, q)
    BY <2>1 DEF Linked
  <2>3. Pending(x, t, p, q) => Pending(y, u, p, q)
    BY <2>1 DEF Pending
  <2> QED BY <2>2, <2>3 DEF y, u
<1>2. CASE d.moved
  <2>1. Gap(t, d) = "none"
    BY <1>2, ExtendIs
  <2>2. Gap(x, d) = "none" /\ Product(Growth(x, d), Growth(t, d), p, q)
    BY <2>1, LinkedGrows, PendingGrows
  <2>3. /\ y.reason = "none" /\ y.chain = Growth(x, d) /\ y.base = d.assets
        /\ u.chain = Growth(t, d) /\ u.base = d.assets
    BY <1>2, <2>1, <2>2, ExtendIs
  <2> HIDE DEF y, u
  <2> QED BY <2>2, <2>3 DEF Linked, y, u
<1> QED BY <1>1, <1>2

\* A chain that goes on has gone on.
LEMMA GoesOn ==
    ASSUME NEW c, Good(c), NEW d \in DayRecords, NEW e \in Int, Extend(c, e, d).reason = "none"
    PROVE  c.reason = "none"
<1>1. c.reason # "none" => Gap(c, d) = c.reason
  BY GapIs
<1>2. CASE d.moved
  <2>1. Extend(c, e, d).reason = Gap(c, d)
    BY <1>2, ExtendIs
  <2> QED BY <1>1, <2>1
<1>3. CASE ~d.moved
  <2>1. Extend(c, e, d).reason = c.reason
    BY <1>3, ExtendIs
  <2> QED BY <2>1
<1> QED BY <1>2, <1>3

\* The day on which the interval is split ends the first part and opens the second.
LEMMA SplitPending ==
    ASSUME NEW x, Good(x), NEW d \in DayRecords, d.moved \/ d.flow = 0, NEW e \in Int, Gap(x, d) = "none",
           NEW p, NEW q, Growth(x, d) = <<p, q>>
    PROVE  \/ Linked(Extend(x, e, d), Fresh(d.assets), p, q)
           \/ Pending(Extend(x, e, d), Fresh(d.assets), p, q)
<1> DEFINE y == Extend(x, e, d)
           u == Fresh(d.assets)
<1>1. /\ x.reason = "none" /\ d.assets \in Int /\ d.assets >= 0 /\ x.base >= 0
      /\ x.base = 0 => d.assets = d.flow
      /\ Growth(x, d) \in Int \X Int
  BY GapIs
<1>2. p \in Int /\ q \in Int
  BY <1>1
<1>3. x.chain \in Int \X Int /\ x.base \in Int /\ d.flow \in Int
  BY DEF Good, ChainStates, DayRecords
<1>4. u.chain = <<1, 1>> /\ u.base = d.assets
  BY DEF Fresh
<1>5. CASE d.moved
  <2>1. y.reason = "none" /\ y.chain = <<p, q>> /\ y.base = d.assets
    BY <1>5, ExtendIs
  <2>2. p * q * 1 = q * p * 1
    BY <1>2
  <2> HIDE DEF y, u
  <2>3. Linked(y, u, p, q)
    BY <1>4, <2>1, <2>2 DEF Linked, Product
  <2> QED BY <2>3 DEF y, u
<1>6. CASE ~d.moved
  <2>1. y.reason = "none" /\ y.chain = x.chain /\ y.base = x.base
    BY <1>1, <1>6, ExtendIs
  <2>2. d.flow = 0 /\ d.assets - d.flow = d.assets
    BY <1>1, <1>6
  <2>3. x.base = 0 => d.assets = 0 /\ x.chain = <<p, q>>
    BY <1>1, <2>2 DEF Growth
  <2>4. x.base # 0 => p = x.chain[1] * d.assets /\ q = x.chain[2] * x.base
    BY <1>1, <2>2 DEF Growth
  <2>5. d.assets \in Nat /\ x.base \in Nat
    BY <1>1, <1>3
  <2> HIDE DEF y, u
  <2>6. Pending(y, u, p, q)
    BY <1>4, <2>1, <2>3, <2>4, <2>5 DEF Pending
  <2> QED BY <2>6 DEF y, u
<1> QED BY <1>5, <1>6

\* From the split on, as long as the second part goes on.  There is no day between the day
\* m that ends the first part and the day mid with which the second begins.
LEMMA BothChains ==
    ASSUME NEW days, Days(days), NEW start \in Nat, NEW end \in Nat, NEW opening \in Int,
           NEW m \in DOMAIN days, start < m, NEW mid \in Nat, m < mid, mid <= end,
           \A d \in DOMAIN days : ~(m < d /\ d < mid),
           days[m].assets \in Int,
           NEW p \in Int, NEW q \in Int,
           Gap(Chain(days, start, end, opening)[m - 1], days[m]) = "none",
           Growth(Chain(days, start, end, opening)[m - 1], days[m]) = <<p, q>>,
           NEW n \in m .. end, Chain(days, mid - 1, end, days[m].assets)[n].reason = "none"
    PROVE  \/ Linked(Chain(days, start, end, opening)[n], Chain(days, mid - 1, end, days[m].assets)[n], p, q)
           \/ Pending(Chain(days, start, end, opening)[n], Chain(days, mid - 1, end, days[m].assets)[n], p, q)
<1> DEFINE W == Chain(days, start, end, opening)
           T == Chain(days, mid - 1, end, days[m].assets)
           Fine(k) == T[k].reason = "none" => Linked(W[k], T[k], p, q) \/ Pending(W[k], T[k], p, q)
           N == {k \in Nat : m + k <= end => Fine(m + k)}
<1>0. /\ m \in Nat /\ m \in 1 .. end /\ m - 1 \in 0 .. end /\ mid - 1 \in Nat /\ m <= mid - 1
      /\ DOMAIN days \in SUBSET Nat
      /\ \A k \in DOMAIN days : days[k] \in DayRecords /\ (days[k].moved \/ days[k].flow = 0)
  BY DEF Days
<1>1. \A k \in 0 .. end : Good(W[k]) /\ Good(T[k])
  BY <1>0, ChainSums
<1>2. \A k \in 0 .. end : start < k => W[k] = IF k \in DOMAIN days THEN Extend(W[k - 1], k - start, days[k]) ELSE W[k - 1]
  BY ChainIs
<1>3. \A k \in 0 .. end : k <= mid - 1 => T[k] = Fresh(days[m].assets)
  BY <1>0, ChainFresh
<1>4. \A k \in 0 .. end : mid - 1 < k =>
         T[k] = IF k \in DOMAIN days THEN Extend(T[k - 1], k - (mid - 1), days[k]) ELSE T[k - 1]
  BY <1>0, ChainIs
<1>5. Gap(W[m - 1], days[m]) = "none" /\ Growth(W[m - 1], days[m]) = <<p, q>>
  OBVIOUS
<1> HIDE DEF W, T
<1>6. 0 \in N
  <2>1. W[m] = Extend(W[m - 1], m - start, days[m]) /\ T[m] = Fresh(days[m].assets)
    BY <1>0, <1>2, <1>3
  <2>2. m - start \in Int
    BY <1>0
  <2>3. Linked(W[m], T[m], p, q) \/ Pending(W[m], T[m], p, q)
    BY <1>0, <1>1, <1>5, <2>1, <2>2, SplitPending
  <2>4. m + 0 = m
    BY <1>0
  <2> QED BY <2>3, <2>4
<1>7. ASSUME NEW k \in N PROVE k + 1 \in N
  <2> DEFINE i == m + k
             j == m + (k + 1)
  <2>0. j = i + 1 /\ i \in Nat /\ j \in Nat /\ j - 1 = i /\ i >= m
    BY <1>0
  <2> SUFFICES ASSUME j <= end, T[j].reason = "none" PROVE Linked(W[j], T[j], p, q) \/ Pending(W[j], T[j], p, q)
    OBVIOUS
  <2>1. Fine(i)
    BY <2>0
  <2> HIDE DEF i, j
  <2>2. i \in 0 .. end /\ j \in 0 .. end /\ start < j
    BY <1>0, <2>0
  <2>3. CASE j \notin DOMAIN days
    <3>1. W[j] = W[i]
      BY <1>2, <2>0, <2>2, <2>3
    <3>2. T[j] = T[i]
      <4>1. CASE j <= mid - 1
        <5>1. i <= mid - 1
          BY <1>0, <2>0, <4>1
        <5> QED BY <1>3, <2>2, <4>1, <5>1
      <4>2. CASE mid - 1 < j
        BY <1>4, <2>0, <2>2, <2>3, <4>2
      <4> QED BY <1>0, <2>0, <4>1, <4>2
    <3> QED BY <2>1, <3>1, <3>2
  <2>4. CASE j \in DOMAIN days
    <3>1. mid - 1 < j
      <4>1. m < j /\ ~(j < mid)
        BY <1>0, <2>0, <2>4
      <4> QED BY <1>0, <2>0, <4>1
    <3>2. W[j] = Extend(W[i], j - start, days[j]) /\ T[j] = Extend(T[i], j - (mid - 1), days[j])
      BY <1>2, <1>4, <2>0, <2>2, <2>4, <3>1
    <3>3. j - start \in Int /\ j - (mid - 1) \in Int /\ days[j] \in DayRecords /\ Good(W[i]) /\ Good(T[i])
      BY <1>0, <1>1, <2>0, <2>2, <2>4
    <3>4. T[i].reason = "none"
      <4>1. Extend(T[i], j - (mid - 1), days[j]).reason = "none"
        BY <3>2
      <4> QED BY <3>3, <4>1, GoesOn
    <3>5. Linked(W[i], T[i], p, q) \/ Pending(W[i], T[i], p, q)
      BY <2>1, <3>4
    <3> QED BY <3>2, <3>3, <3>5, BothExtend
  <2> QED BY <2>3, <2>4
<1>8. Fine(n)
  <2>1. N \in SUBSET Nat /\ n - m \in Nat /\ m + (n - m) = n /\ n <= end
    BY <1>0
  <2> HIDE DEF N, Fine
  <2>2. n - m \in N
    BY <1>6, <1>7, <2>1, AllNumbers
  <2> QED BY <2>1, <2>2 DEF N
<1> QED BY <1>8 DEF W, T

\* An interval that is split at a date: the first part ends with the day with which the
\* second opens.
LEMMA SplitIs ==
    ASSUME NEW days, Days(days), NEW from \in Nat \cup {Nothing}, from # 0, NEW mid \in Nat, mid # 0,
           from # Nothing => from < mid,
           Defined(Until(days, mid - 1), from), Defined(days, mid)
    PROVE  /\ OpeningDay(days, mid) \in After(days, Start(days, from))
           /\ Until(days, mid - 1) = Until(days, OpeningDay(days, mid))
           /\ Defined(days, from)
           /\ OpeningDay(days, mid) < mid
           /\ \A d \in DOMAIN days : ~(OpeningDay(days, mid) < d /\ d < mid)
           /\ Start(days, mid) = mid - 1 /\ mid - 1 < End(days)
<1> DEFINE cut == Until(days, mid - 1)
           m == OpeningDay(days, mid)
           first == OpeningDay(cut, from)
<1>0. mid # Nothing /\ mid - 1 \in Nat /\ mid - 1 \in Int
  BY ReturnsAssumption
<1>1. /\ m \in DOMAIN days /\ m < mid /\ \A d \in DOMAIN days : d < mid => d <= m
      /\ Start(days, mid) = mid - 1 /\ mid - 1 < End(days)
  <2>1. m # Nothing /\ Start(days, mid) < End(days)
    BY DEF Defined
  <2> QED BY <1>0, <2>1, OpeningIs DEF Start
<1>2. /\ Days(cut) /\ \A e : e \in DOMAIN cut <=> e \in DOMAIN days /\ e <= mid - 1
      /\ \A e \in DOMAIN days : e <= mid - 1 => cut[e] = days[e]
  BY <1>0, UntilIs
<1>3. DOMAIN days \in SUBSET Nat /\ IsFiniteSet(DOMAIN days) /\ m \in Nat
  BY <1>1 DEF Days
<1>4. /\ first \in DOMAIN cut /\ first # Nothing /\ cut[first].assets # Nothing
      /\ Start(cut, from) < End(cut) /\ End(cut) \in DOMAIN cut /\ Start(cut, from) \in Nat
      /\ from = Nothing => \A d \in DOMAIN cut : cut[d].assets # Nothing => first <= d
      /\ from # Nothing => first < from /\ \A d \in DOMAIN cut : d < from => d <= first
  <2>1. first # Nothing /\ cut[first].assets # Nothing
    BY DEF Defined
  <2> QED BY <1>2, <2>1, DefinedIs, OpeningIs DEF After
<1> HIDE DEF cut, first, m
<1>5. cut = Until(days, m)
  <2>1. {e \in DOMAIN days : e <= mid - 1} = {e \in DOMAIN days : e <= m}
    BY <1>1, <1>3
  <2> QED BY <2>1 DEF Until, cut
<1>6. End(cut) <= m
  BY <1>0, <1>1, <1>2, <1>3, <1>4
<1>7. first \in DOMAIN days /\ first \in Nat /\ days[first].assets # Nothing /\ first <= mid - 1
  BY <1>2, <1>3, <1>4
<1>8. OpeningDay(days, from) = first
  <2>1. CASE from = Nothing
    <3> DEFINE known == {e \in DOMAIN days : days[e].assets # Nothing}
    <3>1. first \in known
      BY <1>7
    <3>2. ASSUME NEW e \in known PROVE first <= e
      <4>1. CASE e <= mid - 1
        <5>1. e \in DOMAIN cut /\ cut[e].assets # Nothing
          BY <1>2, <4>1
        <5> QED BY <1>4, <2>1, <5>1
      <4>2. CASE ~(e <= mid - 1)
        BY <1>0, <1>3, <1>7, <4>2
      <4> QED BY <4>1, <4>2
    <3>3. known \in SUBSET Int /\ IsFiniteSet(known)
      BY <1>3, FS_Subset
    <3>4. OpeningDay(days, from) = IF known = {} THEN Nothing ELSE Min(known)
      BY <2>1 DEF OpeningDay
    <3> HIDE DEF known
    <3>5. Min(known) = first
      BY <3>1, <3>2, <3>3, MinUnique
    <3> QED BY <3>1, <3>4, <3>5
  <2>2. CASE from # Nothing
    <3> DEFINE before == {e \in DOMAIN days : e < from}
    <3>1. first \in before
      BY <1>4, <1>7, <2>2
    <3>2. ASSUME NEW e \in before PROVE e <= first
      <4>1. e <= mid - 1
        BY <1>0, <1>3, <2>2
      <4>2. e \in DOMAIN cut
        BY <1>2, <4>1
      <4> QED BY <1>4, <2>2, <4>2
    <3>3. before \in SUBSET Int /\ IsFiniteSet(before)
      BY <1>3, FS_Subset
    <3>4. OpeningDay(days, from) = IF before = {} THEN Nothing ELSE Max(before)
      BY <2>2 DEF OpeningDay
    <3> HIDE DEF before
    <3>5. Max(before) = first
      BY <3>1, <3>2, <3>3, MaxUnique
    <3> QED BY <3>1, <3>4, <3>5
  <2> QED BY <2>1, <2>2
<1>9. Start(days, from) = Start(cut, from)
  BY <1>8 DEF Start, first
<1>10. Start(days, from) < m
  BY <1>2, <1>3, <1>4, <1>6, <1>9
<1>11. m <= End(days) /\ End(days) \in Nat
  <2>1. DOMAIN days # {}
    BY <1>1
  <2> QED BY <1>1, <1>3, <2>1, EndIs
<1>12. Defined(days, from)
  BY <1>3, <1>4, <1>7, <1>8, <1>9, <1>10, <1>11 DEF Defined
<1>13. m \in After(days, Start(days, from))
  BY <1>1, <1>10 DEF After
<1>14. \A d \in DOMAIN days : ~(m < d /\ d < mid)
  BY <1>1, <1>3
<1> QED BY <1>1, <1>5, <1>12, <1>13, <1>14 DEF m, cut

\* The profits of the parts add up to the profit of the whole.
LEMMA ProfitsAdd ==
    ASSUME NEW days, Days(days), NEW from \in Nat \cup {Nothing}, from # 0, NEW mid \in Nat, mid # 0,
           from # Nothing => from < mid,
           Defined(Until(days, mid - 1), from), Defined(days, mid)
    PROVE  /\ ReturnsOf(days, from).profit =
                 Fraction(ReturnsOf(Until(days, mid - 1), from).profit.n + ReturnsOf(days, mid).profit.n, 1)
           /\ ReturnsOf(days, from).profit.n \in Int
<1> DEFINE m == OpeningDay(days, mid)
           start == Start(days, from)
           opening == OpeningOf(days, from)
           end == End(days)
           F == Flows(days)
           A == Within(days, start, m)
           B == Within(days, mid - 1, end)
           C == Within(days, start, end)
<1>1. /\ m \in After(days, start) /\ Until(days, mid - 1) = Until(days, m) /\ Defined(days, from)
      /\ m < mid /\ \A d \in DOMAIN days : ~(m < d /\ d < mid)
      /\ Start(days, mid) = mid - 1 /\ mid - 1 < end
  BY SplitIs
<1>2. /\ start \in Nat /\ end \in Nat /\ opening \in Int
  BY <1>1, DefinedIs
<1>3. mid # Nothing /\ mid - 1 \in Nat /\ DOMAIN days \in SUBSET Nat
  BY ReturnsAssumption DEF Days
<1>4. m \in DOMAIN days /\ m \in Nat /\ start < m /\ m <= end /\ days[m].assets \in Int
  <2>1. m \in DOMAIN days /\ start < m
    BY <1>1 DEF After
  <2>2. days[m].assets \in Int
    BY <1>1, PointIs
  <2> QED BY <1>1, <1>2, <1>3, <2>1, <2>2
<1>5. /\ ReturnsOf(days, from).profit = Fraction(ProfitAt(days, opening, start, end), 1)
      /\ days[end].assets \in Int
  BY <1>1, ReturnsIs, DefinedIs, PointIs
<1>6. ReturnsOf(days, mid).profit = Fraction(ProfitAt(days, days[m].assets, mid - 1, end), 1)
  BY <1>1, <1>3, ReturnsIs DEF OpeningOf
<1>7. ReturnsOf(Until(days, mid - 1), from).profit = Fraction(ProfitAt(days, opening, start, m), 1)
  <2>1. m \in DOMAIN ReturnsOf(days, from).curve
    BY <1>1, ReturnsIs
  <2>2. ReturnsOf(days, from).curve[m].profit = ReturnsOf(Until(days, m), from).profit
    BY <2>1, CurvePrefix
  <2>3. ReturnsOf(days, from).curve[m].profit = Fraction(ProfitAt(days, opening, start, m), 1)
    BY <1>1, PointIs
  <2> QED BY <1>1, <2>2, <2>3
<1>8. /\ IsFiniteSet(A) /\ IsFiniteSet(B) /\ A \in SUBSET DOMAIN days /\ B \in SUBSET DOMAIN days
  BY <1>2, <1>3, <1>4, WithinStep
<1>9. C = A \cup B /\ A \cap B = {}
  BY <1>1, <1>2, <1>3, <1>4 DEF Within
<1>10. \A d \in DOMAIN days : F[d] \in Int
  BY <1>2, AfterIs
<1> HIDE DEF A, B, C, F, start, opening, m, end
<1>11. /\ SumFunctionOnSet(F, C) = SumFunctionOnSet(F, A) + SumFunctionOnSet(F, B)
       /\ SumFunctionOnSet(F, A) \in Int /\ SumFunctionOnSet(F, B) \in Int
  <2>1. \A d \in A \cup B : F[d] \in Int
    BY <1>8, <1>10
  <2> QED BY <1>8, <1>9, <2>1, SumUnion, SumInt
<1>12. /\ ProfitAt(days, opening, start, end) = days[end].assets - opening - SumFunctionOnSet(F, C)
       /\ ProfitAt(days, days[m].assets, mid - 1, end) = days[end].assets - days[m].assets - SumFunctionOnSet(F, B)
       /\ ProfitAt(days, opening, start, m) = days[m].assets - opening - SumFunctionOnSet(F, A)
  BY DEF ProfitAt, A, B, C, F
<1>13. /\ ProfitAt(days, opening, start, end) =
             ProfitAt(days, opening, start, m) + ProfitAt(days, days[m].assets, mid - 1, end)
       /\ ProfitAt(days, opening, start, end) \in Int
  <2> DEFINE x == SumFunctionOnSet(F, A)
             y == SumFunctionOnSet(F, B)
  <2>1. x \in Int /\ y \in Int
    BY <1>11
  <2> HIDE DEF x, y
  <2>2. SumFunctionOnSet(F, C) = x + y
    BY <1>11 DEF x, y
  <2> QED BY <1>2, <1>4, <1>5, <1>12, <2>1, <2>2 DEF x, y
<1> QED BY <1>5, <1>6, <1>7, <1>13 DEF Fraction

\* The growth of a point of the curve.
LEMMA RateIs ==
    ASSUME NEW days, Days(days), NEW from \in Nat \cup {Nothing}, from # 0, Defined(days, from),
           NEW d \in After(days, Start(days, from))
    PROVE  LET x == ChainOf(days, from)[d - 1]
               twr == ReturnsOf(days, from).curve[d].twr
           IN  /\ Available(twr) <=> Gap(x, days[d]) = "none"
               /\ Available(twr) => /\ twr = Fraction(Growth(x, days[d])[1] - Growth(x, days[d])[2], Growth(x, days[d])[2])
                                    /\ Growth(x, days[d]) \in Int \X Int
<1> DEFINE x == ChainOf(days, from)[d - 1]
           twr == ReturnsOf(days, from).curve[d].twr
           e == days[d]
           rest == d - Start(days, from)
<1>1. /\ Good(x) /\ e \in DayRecords
      /\ twr = CurvePoint(x, OpeningOf(days, from), rest, e).twr
  BY PointIs
<1> HIDE DEF x, twr, e, rest
<1>2. twr = IF Gap(x, e) # "none" THEN Unavailable(Gap(x, e))
            ELSE Fraction(Growth(x, e)[1] - Growth(x, e)[2], Growth(x, e)[2])
  BY <1>1 DEF CurvePoint
<1>3. Gap(x, e) = "none" => Growth(x, e) \in Int \X Int
  BY <1>1, GapIs
<1> QED BY <1>2, <1>3 DEF Available, Unavailable, Fraction, x, twr, e

\* The growths of the parts multiply to that of the whole.
LEMMA GrowthsMultiply ==
    ASSUME NEW days, Days(days), NEW from \in Nat \cup {Nothing}, from # 0, NEW mid \in Nat, mid # 0,
           from # Nothing => from < mid,
           Defined(Until(days, mid - 1), from), Defined(days, mid),
           Available(ReturnsOf(Until(days, mid - 1), from).twr), Available(ReturnsOf(days, mid).twr)
    PROVE  LET one == ReturnsOf(Until(days, mid - 1), from).twr
               two == ReturnsOf(days, mid).twr
               n == (one.n + one.d) * (two.n + two.d)
               d == one.d * two.d
           IN  Same(ReturnsOf(days, from).twr, Fraction(n - d, d))
<1> DEFINE m == OpeningDay(days, mid)
           start == Start(days, from)
           opening == OpeningOf(days, from)
           end == End(days)
           W == Chain(days, start, end, opening)
           T == Chain(days, mid - 1, end, days[m].assets)
           first == Growth(W[m - 1], days[m])
           p == first[1]
           q == first[2]
           second == Growth(T[end - 1], days[end])
           total == Growth(W[end - 1], days[end])
           one == ReturnsOf(Until(days, mid - 1), from).twr
           two == ReturnsOf(days, mid).twr
           whole == ReturnsOf(days, from).twr
<1>1. /\ m \in After(days, start) /\ Until(days, mid - 1) = Until(days, m) /\ Defined(days, from)
      /\ m < mid /\ \A d \in DOMAIN days : ~(m < d /\ d < mid)
      /\ Start(days, mid) = mid - 1 /\ mid - 1 < end
  BY SplitIs
<1>2. /\ start \in Nat /\ end \in Nat /\ opening \in Int
      /\ end \in After(days, start) /\ end \in DOMAIN days
  BY <1>1, DefinedIs DEF After
<1>3. mid # Nothing /\ mid - 1 \in Nat /\ DOMAIN days \in SUBSET Nat
  BY ReturnsAssumption DEF Days
<1>4. /\ m \in DOMAIN days /\ m \in Nat /\ start < m /\ m <= end - 1 /\ mid <= end
      /\ days[m].assets \in Int /\ days[m] \in DayRecords /\ days[end] \in DayRecords
  <2>1. m \in DOMAIN days /\ start < m
    BY <1>1 DEF After
  <2>2. days[m].assets \in Int /\ days[m] \in DayRecords /\ days[end] \in DayRecords
    BY <1>1, <1>2, PointIs
  <2> QED BY <1>1, <1>2, <1>3, <2>1, <2>2
<1>5. /\ ChainOf(days, from) = W
      /\ ChainOf(days, mid) = T
      /\ end \in After(days, mid - 1)
  BY <1>1, <1>2 DEF ChainOf, OpeningOf, After
<1>6. one = ReturnsOf(days, from).curve[m].twr
  <2>1. m \in DOMAIN ReturnsOf(days, from).curve
    BY <1>1, ReturnsIs
  <2> QED BY <1>1, <2>1, CurvePrefix
<1>7. two = ReturnsOf(days, mid).curve[end].twr /\ whole = ReturnsOf(days, from).curve[end].twr
  BY <1>1, <1>3, ReturnsIs
<1>8. /\ Gap(W[m - 1], days[m]) = "none" /\ first \in Int \X Int /\ one = Fraction(p - q, q)
  <2>1. Available(ReturnsOf(days, from).curve[m].twr)
    BY <1>6
  <2> QED BY <1>1, <1>5, <1>6, <2>1, RateIs
<1>9. /\ Gap(T[end - 1], days[end]) = "none" /\ second \in Int \X Int
      /\ two = Fraction(second[1] - second[2], second[2])
  <2>1. Available(ReturnsOf(days, mid).curve[end].twr)
    BY <1>7
  <2> QED BY <1>1, <1>3, <1>5, <1>7, <2>1, RateIs
<1>10. Good(W[end - 1]) /\ Good(T[end - 1])
  <2>1. end - 1 \in 0 .. end
    BY <1>2, <1>4
  <2> QED BY <1>2, <1>3, <1>4, <2>1, ChainSums
<1>11. Linked(W[end - 1], T[end - 1], p, q) \/ Pending(W[end - 1], T[end - 1], p, q)
  <2>1. T[end - 1].reason = "none"
    BY <1>4, <1>9, <1>10, GapIs
  <2>2. end - 1 \in m .. end
    BY <1>2, <1>4
  <2>3. first = <<p, q>> /\ p \in Int /\ q \in Int
    <3> HIDE DEF first
    <3> QED BY <1>8
  <2> HIDE DEF m, start, opening, end, p, q
  <2> QED BY <1>1, <1>2, <1>4, <1>8, <2>1, <2>2, <2>3, BothChains
<1>12. Gap(W[end - 1], days[end]) = "none" /\ Product(total, second, p, q)
  <2> HIDE DEF first, W, T
  <2> QED BY <1>4, <1>8, <1>9, <1>10, <1>11, LinkedGrows, PendingGrows
<1>13. whole = Fraction(total[1] - total[2], total[2]) /\ total \in Int \X Int
  <2>1. Available(ReturnsOf(days, from).curve[end].twr)
    BY <1>1, <1>2, <1>5, <1>12, RateIs
  <2> QED BY <1>1, <1>2, <1>5, <1>7, <2>1, RateIs
<1>14. total[1] * q * second[2] = total[2] * p * second[1]
  BY <1>12 DEF Product
<1> DEFINE a == total[1]
           b == total[2]
           r == second[1]
           s == second[2]
<1>15. /\ a \in Int /\ b \in Int /\ r \in Int /\ s \in Int /\ p \in Int /\ q \in Int
       /\ a * q * s = b * p * r
       /\ whole = Fraction(a - b, b) /\ one = Fraction(p - q, q) /\ two = Fraction(r - s, s)
  <2> HIDE DEF first, second, total
  <2> QED BY <1>8, <1>9, <1>13, <1>14
<1> HIDE DEF a, b, p, q, r, s, one, two, whole
<1>16. /\ one.n + one.d = p /\ two.n + two.d = r /\ one.d = q /\ two.d = s
  BY <1>15 DEF Fraction
<1>17. (a - b) * (q * s) = (p * r - q * s) * b
  <2>1. (a - b) * (q * s) = a * q * s - b * (q * s)
    BY <1>15
  <2>2. (p * r - q * s) * b = b * p * r - b * (q * s)
    BY <1>15
  <2> QED BY <1>15, <2>1, <2>2
<1>18. Same(whole, Fraction(p * r - q * s, q * s))
  BY <1>15, <1>17 DEF Same, Fraction
<1> QED BY <1>16, <1>18 DEF one, two, whole

\* Wherever an interval is split, the profits of the parts add up to the profit of the
\* whole and their growths multiply to its growth.
THEOREM PartsCompose == Spec => []IntervalsCompose
<1>1. ASSUME RecordsInv PROVE IntervalsCompose
  <2> SUFFICES ASSUME NEW a \in Accounts, NEW from \in Dates \cup {Nothing}, NEW mid \in Dates, NEW to \in Dates,
                      from # Nothing => from < mid, mid <= to
               PROVE  LET one   == AccountReturn(records[a], from, mid - 1)
                          two   == AccountReturn(records[a], mid, to)
                          whole == AccountReturn(records[a], from, to)
                      IN  /\ (Available(one.profit) /\ Available(two.profit)) =>
                                 Same(whole.profit, Fraction(one.profit.n + two.profit.n, 1))
                          /\ (Available(one.twr) /\ Available(two.twr)) =>
                                 Same(whole.twr,
                                      LET n == (one.twr.n + one.twr.d) * (two.twr.n + two.twr.d)
                                          d == one.twr.d * two.twr.d
                                      IN  Fraction(n - d, d))
    BY DEF IntervalsCompose
  <2> DEFINE rs == records[a]
             days == Projected(rs, to)
             one   == AccountReturn(rs, from, mid - 1)
             two   == AccountReturn(rs, mid, to)
             whole == AccountReturn(rs, from, to)
  <2>1. rs \in Written
    BY <1>1 DEF RecordsInv, TypeOK
  <2>2. /\ to \in Nat /\ mid \in Nat /\ mid # 0 /\ mid - 1 \in Nat /\ mid - 1 <= to
        /\ from \in Nat \cup {Nothing} /\ from # 0
    BY ReturnsAssumption
  <2>3. Days(days)
    BY <2>1, <2>2, ProjectedIs
  <2>4. Projected(rs, mid - 1) = Until(days, mid - 1)
    BY <2>1, <2>2, ProjectedCut
  <2>5. /\ one = ReturnsOf(Until(days, mid - 1), from)
        /\ two = ReturnsOf(days, mid) /\ whole = ReturnsOf(days, from)
    BY <2>4 DEF AccountReturn
  <2>6. Days(Until(days, mid - 1))
    BY <2>2, <2>3, UntilIs
  <2> HIDE DEF days, rs, one, two, whole
  <2>7. /\ Available(one.profit) <=> Defined(Until(days, mid - 1), from)
        /\ Available(two.profit) <=> Defined(days, mid)
        /\ Available(one.twr) => Defined(Until(days, mid - 1), from)
        /\ Available(two.twr) => Defined(days, mid)
    <3>1. mid \in Nat \cup {Nothing}
      BY <2>2
    <3> QED BY <2>2, <2>3, <2>5, <2>6, <3>1, AvailableIs
  <2>8. ASSUME Available(one.profit), Available(two.profit)
        PROVE  Same(whole.profit, Fraction(one.profit.n + two.profit.n, 1))
    <3>1. whole.profit = Fraction(one.profit.n + two.profit.n, 1)
      BY <2>2, <2>3, <2>5, <2>7, <2>8, ProfitsAdd
    <3> QED BY <3>1 DEF Same
  <2>9. ASSUME Available(one.twr), Available(two.twr)
        PROVE  Same(whole.twr,
                    LET n == (one.twr.n + one.twr.d) * (two.twr.n + two.twr.d)
                        d == one.twr.d * two.twr.d
                    IN  Fraction(n - d, d))
    <3>1. /\ Defined(Until(days, mid - 1), from) /\ Defined(days, mid)
          /\ Available(ReturnsOf(Until(days, mid - 1), from).twr) /\ Available(ReturnsOf(days, mid).twr)
      BY <2>5, <2>7, <2>9
    <3> QED BY <2>2, <2>3, <2>5, <3>1, GrowthsMultiply
  <2> QED BY <2>8, <2>9 DEF one, two, whole, rs
<1> QED BY <1>1, RecordsOrdered, PTL

-----------------------------------------------------------------------------
(***************************************************************************)
(* The summary of an account.                                              *)
(***************************************************************************)

\* The flows of the records after a date.
FlowsAfter(rs, date) ==
    SumOver({i \in DOMAIN rs : rs[i].flow # Nothing /\ LaterThan(rs[i].date, date)}, LAMBDA i : rs[i].flow)

\* They are those of the days after it.
LEMMA FlowsOfDays ==
    ASSUME NEW rs, Kept(rs), NEW to \in Nat, \A d \in Dates : d <= to, NEW date \in Nat,
           NEW e \in Nat, \A d \in DOMAIN Projected(rs, to) : d <= e
    PROVE  /\ SumFunctionOnSet(Flows(Projected(rs, to)), Within(Projected(rs, to), date, e))
                 = FlowsAfter(rs, date)
           /\ SumFunctionOnSet(Flows(Projected(rs, to)), Within(Projected(rs, to), date, e)) \in Int
<1> DEFINE days == Projected(rs, to)
           I == {i \in DOMAIN rs : rs[i].flow # Nothing /\ LaterThan(rs[i].date, date)}
           K == Within(days, date, e)
           h == [i \in I |-> rs[i].date]
           F == FlowsOf(rs)
           f == [i \in I |-> rs[i].flow]
<1>1. rs \in Written /\ \A i \in DOMAIN rs : Valid(rs[i])
  BY DEF Kept
<1>2. /\ Days(days)
      /\ \A d : d \in DOMAIN days <=> d \in Dates /\ d <= to /\ On(rs, d) # {}
      /\ \A d \in DOMAIN days : days[d].flow = DayOf(rs, d).flow
  <2>1. \A d \in DOMAIN days : days[d] = [flow |-> DayOf(rs, d).flow, moved |-> DayOf(rs, d).moved,
                                         assets |-> Worth(Balances(RawDays(rs, to), to)[d])]
    BY <1>1, ProjectedIs
  <2> QED BY <1>1, <2>1, ProjectedIs
<1>3. IsFiniteSet(DOMAIN rs)
  BY <1>1, OnIs
<1>4. IsFiniteSet(I)
  BY <1>3, FS_Subset
<1>5. \A i \in I : /\ i \in DOMAIN rs /\ F[i] = rs[i].flow /\ rs[i].flow \in Int /\ rs[i].kind # "log"
                   /\ rs[i].date \in Dates /\ rs[i].date \in Nat /\ date < rs[i].date
  <2> SUFFICES ASSUME NEW i \in I
               PROVE  /\ i \in DOMAIN rs /\ F[i] = rs[i].flow /\ rs[i].flow \in Int /\ rs[i].kind # "log"
                      /\ rs[i].date \in Dates /\ rs[i].date \in Nat /\ date < rs[i].date
    OBVIOUS
  <2>1. i \in DOMAIN rs /\ rs[i].flow # Nothing /\ rs[i].date > date
    BY DEF LaterThan
  <2>2. Valid(rs[i])
    BY <1>1, <2>1
  <2>3. /\ rs[i].flow \in Int \cup {Nothing} /\ rs[i].date \in Dates /\ rs[i].date \in Nat /\ rs[i].kind # "log"
    BY <2>1, <2>2, ValidIs
  <2> QED BY <2>1, <2>3 DEF FlowsOf
<1> HIDE DEF days
<1>6. IsFiniteSet(K) /\ K \in SUBSET DOMAIN days
  BY <1>2, WithinStep
<1>7. ASSUME NEW i \in I PROVE rs[i].date \in K /\ i \in On(rs, rs[i].date)
  <2>1. i \in On(rs, rs[i].date)
    BY <1>5 DEF On
  <2>2. rs[i].date \in DOMAIN days
    BY <1>2, <1>5, <2>1
  <2>3. rs[i].date <= e
    BY <2>2 DEF days
  <2> QED BY <1>5, <2>1, <2>2, <2>3 DEF Within
<1>8. h \in [I -> K]
  BY <1>7
<1>9. ASSUME NEW k \in K PROVE Flows(days)[k] = SumFunctionOnSet(F, Fibre(h, I, k))
  <2>1. k \in DOMAIN days /\ date < k
    BY <1>6 DEF Within
  <2>2. Flows(days)[k] = SumFunctionOnSet(F, DayFlows(rs, k))
    BY <1>2, <2>1 DEF Flows, DayOf
  <2>3. ASSUME NEW i PROVE i \in DayFlows(rs, k) <=> i \in I /\ rs[i].date = k
    <3>1. i \in DayFlows(rs, k) => i \in I /\ rs[i].date = k
      BY <2>1 DEF DayFlows, On, LaterThan
    <3>2. i \in I /\ rs[i].date = k => i \in DayFlows(rs, k)
      BY <1>7 DEF DayFlows
    <3> QED BY <3>1, <3>2
  <2>4. DayFlows(rs, k) = Fibre(h, I, k)
    BY <2>3 DEF Fibre
  <2> QED BY <2>2, <2>4
<1>10. DOMAIN f = I /\ \A i \in I : f[i] = F[i]
  BY <1>5
<1>11. FlowsAfter(rs, date) = SumFunction(f)
  BY Zenon DEF SumOver, FlowsAfter
<1> HIDE DEF I, K, h, F, f
<1>12. \A i \in I : F[i] \in Int
  BY <1>5
<1>13. SumFunctionOnSet(Flows(days), K) = SumFunctionOnSet(F, I)
  BY <1>4, <1>6, <1>8, <1>9, <1>12, SumParts
<1>14. SumFunction(f) = SumFunctionOnSet(F, I)
  BY <1>4, <1>10, SumOf
<1>15. SumFunctionOnSet(F, I) \in Int
  BY <1>4, <1>12, SumInt
<1> QED BY <1>11, <1>13, <1>14, <1>15 DEF days, K, I

\* Before the first statement nothing is known.
LEMMA NothingStated ==
    ASSUME NEW rs \in Written, \A i \in DOMAIN rs : ~Explicit(rs[i]), NEW to \in Nat, NEW n \in 0 .. to
    PROVE  Balances(RawDays(rs, to), to)[n].source = Nothing
<1> DEFINE raw == RawDays(rs, to)
           b == Balances(raw, to)
           N == {k \in Nat : k <= to => b[k].source = Nothing}
<1>1. \A k \in 0 .. to : b[k] = BalanceStep(raw, b[k - 1], k) /\ b[k] \in BalanceStates
  BY BalancesAt, BalancesAre
<1>2. ASSUME NEW d \in DOMAIN raw PROVE ~Explicit(raw[d].by)
  <2>1. raw[d] = DayOf(rs, d) /\ On(rs, d) # {}
    BY RawIs
  <2>2. PICK i \in On(rs, d) : Selected(rs, d) = rs[i]
    BY <2>1, SelectedIs
  <2>3. i \in DOMAIN rs
    BY OnIs
  <2> QED BY <2>1, <2>2, <2>3 DEF DayOf
<1> HIDE DEF raw, b
<1>3. 0 \in N
  BY <1>1 DEF BalanceStep, Unknown
<1>4. ASSUME NEW k \in N PROVE k + 1 \in N
  <2> SUFFICES ASSUME k + 1 <= to PROVE b[k + 1].source = Nothing
    OBVIOUS
  <2>1. b[k].source = Nothing /\ k + 1 \in 0 .. to /\ (k + 1) - 1 = k /\ k + 1 # 0 /\ b[k] \in BalanceStates
    BY <1>1
  <2>2. b[k + 1] = IF k + 1 \in DOMAIN raw THEN Project(b[k], raw[k + 1]) ELSE b[k]
    BY <1>1, <2>1 DEF BalanceStep
  <2>3. k + 1 \in DOMAIN raw => Project(b[k], raw[k + 1]).source = b[k].source
    BY <1>2, <2>1 DEF Project, BalanceStates
  <2> QED BY <2>1, <2>2, <2>3
<1>5. n \in N
  <2> HIDE DEF N
  <2>1. N \in SUBSET Nat
    BY DEF N
  <2> QED BY <1>3, <1>4, <2>1, AllNumbers
<1> QED BY <1>5 DEF b, raw

\* From the last statement on it is the source, and the flows of later days are the rest.
LEMMA LastStated ==
    ASSUME NEW rs, Kept(rs), NEW to \in Nat, NEW last \in DOMAIN rs, Explicit(rs[last]),
           \A i \in DOMAIN rs : Explicit(rs[i]) => i <= last,
           NEW n \in rs[last].date .. to
    PROVE  /\ Balances(RawDays(rs, to), to)[n].source = rs[last].assets
           /\ Balances(RawDays(rs, to), to)[n].net
                 = SumFunctionOnSet(Flows(Projected(rs, to)), Within(Projected(rs, to), rs[last].date, n))
<1> DEFINE raw == RawDays(rs, to)
           b == Balances(raw, to)
           days == Projected(rs, to)
           D == rs[last].date
           F == Flows(days)
           V(k) == Within(days, D, k)
           Fine(k) == b[k].source = rs[last].assets /\ b[k].net = SumFunctionOnSet(F, V(k))
           N == {k \in Nat : D + k <= to => Fine(D + k)}
<1>1. rs \in Written /\ \A i \in DOMAIN rs : Valid(rs[i])
  BY DEF Kept
<1>2. \A k \in 0 .. to : b[k] = BalanceStep(raw, b[k - 1], k) /\ b[k] \in BalanceStates
  BY <1>1, BalancesAt, BalancesAre
<1>3. D \in Dates /\ D \in Nat /\ D # 0 /\ rs[last].kind # "log" /\ rs[last].assets \in Nat
  <2>1. Valid(rs[last])
    BY <1>1
  <2> QED BY <2>1, ValidIs, ReturnsAssumption
<1>4. /\ \A d : d \in DOMAIN raw <=> d \in Dates /\ d <= to /\ On(rs, d) # {}
      /\ \A d \in DOMAIN raw : raw[d] = DayOf(rs, d)
      /\ \A d \in DOMAIN raw : raw[d].flow \in Int
  BY <1>1, RawIs
<1>5. /\ Days(days)
      /\ \A d : d \in DOMAIN days <=> d \in Dates /\ d <= to /\ On(rs, d) # {}
      /\ \A d \in DOMAIN days : F[d] = DayOf(rs, d).flow
  <2>1. \A d \in DOMAIN days : days[d] = [flow |-> DayOf(rs, d).flow, moved |-> DayOf(rs, d).moved,
                                         assets |-> Worth(b[d])]
    BY <1>1, ProjectedIs
  <2>2. \A d \in DOMAIN days : F[d] = DayOf(rs, d).flow
    BY <2>1 DEF Flows
  <2> QED BY <1>1, <2>2, ProjectedIs
<1>6. ASSUME NEW d \in DOMAIN raw
      PROVE  \E i \in On(rs, d) : /\ raw[d].by = rs[i] /\ i \in DOMAIN rs /\ rs[i].date = d
                                  /\ \A j \in On(rs, d) : Explicit(rs[j]) => Explicit(rs[i]) /\ j <= i
  <2>1. raw[d] = DayOf(rs, d) /\ On(rs, d) # {}
    BY <1>4
  <2>2. PICK i \in On(rs, d) : /\ Selected(rs, d) = rs[i]
                               /\ \A j \in On(rs, d) : Explicit(rs[j]) => Explicit(rs[i]) /\ j <= i
    BY <1>1, <2>1, SelectedIs
  <2>3. i \in DOMAIN rs /\ rs[i].date = d
    BY DEF On
  <2>4. raw[d].by = rs[i]
    BY <2>1, <2>2 DEF DayOf
  <2> QED BY <2>2, <2>3, <2>4
<1>7. DOMAIN rs \in SUBSET Nat
  BY <1>1, OnIs
<1> HIDE DEF raw, b, days, D, F, V
<1>8. 0 \in N
  <2> SUFFICES ASSUME D <= to PROVE Fine(D)
    BY <1>3
  <2>1. last \in On(rs, D)
    BY <1>3 DEF On, D
  <2>2. D \in DOMAIN raw
    BY <1>3, <1>4, <2>1
  <2>3. PICK i \in On(rs, D) : /\ raw[D].by = rs[i] /\ i \in DOMAIN rs
                               /\ Explicit(rs[i]) /\ last <= i
    BY <1>6, <2>1, <2>2
  <2>4. i = last
    BY <1>7, <2>3
  <2>5. D \in 0 .. to /\ D # 0
    BY <1>3
  <2>6. b[D] = Project(b[D - 1], raw[D])
    BY <1>2, <2>2, <2>5 DEF BalanceStep
  <2>7. b[D] = [source |-> rs[last].assets, net |-> 0]
    BY <2>3, <2>4, <2>6 DEF Project
  <2>8. V(D) = {}
    BY <1>3, <1>5, WithinStep DEF V
  <2>9. SumFunctionOnSet(F, {}) = 0
    BY SumEmpty
  <2> QED BY <2>7, <2>8, <2>9
<1>9. ASSUME NEW k \in N PROVE k + 1 \in N
  <2> DEFINE i == D + k
             j == D + (k + 1)
  <2>0. j = i + 1 /\ i \in Nat /\ j \in Nat /\ j - 1 = i /\ j # 0 /\ D < j
    BY <1>3
  <2> SUFFICES ASSUME j <= to PROVE Fine(j)
    OBVIOUS
  <2>1. Fine(i)
    BY <2>0
  <2> HIDE DEF i, j
  <2>2. i \in 0 .. to /\ j \in 0 .. to
    BY <2>0
  <2>3. b[j] = IF j \in DOMAIN raw THEN Project(b[i], raw[j]) ELSE b[i]
    BY <1>2, <2>0, <2>2 DEF BalanceStep
  <2>4. CASE j \notin DOMAIN raw
    <3>1. j \notin DOMAIN days
      BY <1>4, <1>5, <2>4
    <3>2. V(j) = V(i)
      BY <1>3, <1>5, <2>0, <3>1, WithinStep DEF V
    <3> QED BY <2>1, <2>3, <2>4, <3>2
  <2>5. CASE j \in DOMAIN raw
    <3>1. j \in DOMAIN days /\ F[j] = DayOf(rs, j).flow /\ raw[j] = DayOf(rs, j) /\ raw[j].flow \in Int
      BY <1>4, <1>5, <2>5
    <3>2. ~Explicit(raw[j].by)
      <4>1. PICK x \in DOMAIN rs : raw[j].by = rs[x] /\ rs[x].date = j
        BY <1>6, <2>5
      <4>2. ASSUME Explicit(rs[x]) PROVE FALSE
        <5>1. x <= last
          BY <4>2
        <5>2. rs[x].date <= rs[last].date
          BY <5>1 DEF Kept, Sorted
        <5> QED BY <1>3, <2>0, <4>1, <5>2 DEF D
      <4> QED BY <4>1, <4>2
    <3>3. V(j) = V(i) \cup {j} /\ j \notin V(i) /\ IsFiniteSet(V(i)) /\ V(i) \in SUBSET DOMAIN days
      BY <1>3, <1>5, <2>0, <3>1, WithinStep DEF V
    <3>4. \A d \in V(i) : F[d] \in Int
      <4>1. \A d \in DOMAIN days : F[d] \in Int
        BY <1>4, <1>5
      <4> QED BY <3>3, <4>1
    <3>5. SumFunctionOnSet(F, V(j)) = F[j] + SumFunctionOnSet(F, V(i)) /\ SumFunctionOnSet(F, V(i)) \in Int
      BY <3>1, <3>3, <3>4, SumInsert, SumInt
    <3>6. b[j] = [b[i] EXCEPT !.net = b[i].net + raw[j].flow]
      BY <2>3, <2>5, <3>2 DEF Project
    <3>7. b[i] \in BalanceStates
      BY <1>2, <2>2
    <3>8. b[j].source = b[i].source /\ b[j].net = b[i].net + raw[j].flow
      BY <3>6, <3>7 DEF BalanceStates
    <3> QED BY <2>1, <3>1, <3>5, <3>8
  <2> QED BY <2>4, <2>5
<1>10. Fine(n)
  <2>1. N \in SUBSET Nat /\ n - D \in Nat /\ D + (n - D) = n /\ n <= to
    BY <1>3 DEF D
  <2> HIDE DEF N, Fine
  <2>2. n - D \in N
    BY <1>8, <1>9, <2>1, AllNumbers
  <2> QED BY <2>1, <2>2 DEF N
<1> QED BY <1>10 DEF b, raw, days, D, F, V

\* The balance that the list of accounts shows is the one the analysis ends with.
LEMMA SummaryIs ==
    ASSUME NEW rs, Kept(rs)
    PROVE  LatestAssets(rs) = LET days == Projected(rs, Max(Dates))
                              IN  IF DOMAIN days = {} THEN Nothing ELSE days[Max(DOMAIN days)].assets
<1> DEFINE to == Max(Dates)
           days == Projected(rs, to)
           b == Balances(RawDays(rs, to), to)
           end == Max(DOMAIN days)
           stated == {i \in DOMAIN rs : Explicit(rs[i])}
           last == Max(stated)
<1>1. rs \in Written /\ \A i \in DOMAIN rs : Valid(rs[i])
  BY DEF Kept
<1>2. IsFiniteSet(DOMAIN rs) /\ DOMAIN rs \in SUBSET (Nat \ {0})
  BY <1>1, OnIs
<1>3. \A i \in DOMAIN rs : rs[i].date \in Dates
  BY <1>1, ValidIs
<1>4. CASE Dates = {}
  <2>1. DOMAIN rs = {}
    BY <1>3, <1>4
  <2>2. LatestAssets(rs) = Nothing
    BY <2>1 DEF LatestAssets
  <2>3. DOMAIN days = {}
    BY <1>4 DEF Projected, RawDays
  <2> QED BY <2>2, <2>3
<1>5. CASE Dates # {}
  <2>1. to \in Dates /\ to \in Nat /\ \A d \in Dates : d <= to
    <3>1. IsFiniteSet(Dates) /\ Dates \in SUBSET Int
      BY ReturnsAssumption
    <3>2. to \in Dates /\ \A d \in Dates : d <= to
      BY <1>5, <3>1, MaxIs
    <3> QED BY <3>2, ReturnsAssumption
  <2> HIDE DEF to
  <2>2. /\ Days(days)
        /\ \A d : d \in DOMAIN days <=> d \in Dates /\ d <= to /\ On(rs, d) # {}
        /\ \A d \in DOMAIN days : days[d].assets = Worth(b[d])
    <3>1. \A d \in DOMAIN days : days[d] = [flow |-> DayOf(rs, d).flow, moved |-> DayOf(rs, d).moved,
                                           assets |-> Worth(b[d])]
      BY <1>1, <2>1, ProjectedIs
    <3> QED BY <1>1, <2>1, <3>1, ProjectedIs
  <2>3. DOMAIN days # {} => end \in DOMAIN days /\ end \in Nat /\ \A d \in DOMAIN days : d <= end
    <3>1. DOMAIN days \in SUBSET Int /\ IsFiniteSet(DOMAIN days) /\ DOMAIN days \in SUBSET Nat
      BY <2>2 DEF Days
    <3> HIDE DEF days
    <3> QED BY <3>1, MaxIs
  <2>4. CASE stated = {}
    <3>1. LatestAssets(rs) = Nothing
      BY <2>4 DEF LatestAssets
    <3>2. ASSUME DOMAIN days # {} PROVE days[end].assets = Nothing
      <4>1. end \in 0 .. to
        BY <2>1, <2>2, <2>3, <3>2
      <4>2. \A i \in DOMAIN rs : ~Explicit(rs[i])
        BY <2>4
      <4>3. b[end].source = Nothing
        <5> HIDE DEF end
        <5> QED BY <1>1, <2>1, <4>1, <4>2, NothingStated
      <4>4. days[end].assets = Worth(b[end])
        BY <2>2, <2>3, <3>2
      <4> HIDE DEF end, days, b
      <4> QED BY <4>3, <4>4 DEF Worth
    <3> QED BY <3>1, <3>2 DEF to
  <2>5. CASE stated # {}
    <3> DEFINE D == rs[last].date
               S == FlowsAfter(rs, D)
    <3>1. last \in stated /\ \A i \in stated : i <= last
      <4>1. IsFiniteSet(stated) /\ stated \in SUBSET Int
        BY <1>2, FS_Subset
      <4> HIDE DEF stated
      <4> QED BY <2>5, <4>1, MaxIs
    <3>2. last \in DOMAIN rs /\ Explicit(rs[last]) /\ \A i \in DOMAIN rs : Explicit(rs[i]) => i <= last
      BY <3>1
    <3>3. LatestAssets(rs) = rs[last].assets + S
      BY <2>5, Zenon DEF LatestAssets, FlowsAfter
    <3> HIDE DEF last
    <3>4. Valid(rs[last]) /\ D \in Dates /\ D \in Nat /\ rs[last].kind # "log" /\ rs[last].assets \in Nat
      BY <1>1, <3>2, ValidIs
    <3>5. last \in On(rs, D)
      BY <3>2, <3>4 DEF On
    <3>6. D \in DOMAIN days
      BY <2>1, <2>2, <3>4, <3>5
    <3>7. end \in DOMAIN days /\ end \in Nat /\ D <= end /\ \A d \in DOMAIN days : d <= end
      BY <2>3, <3>6
    <3>8. end \in D .. to
      BY <2>1, <2>2, <3>4, <3>7
    <3> HIDE DEF end
    <3>9. /\ b[end].source = rs[last].assets
          /\ b[end].net = SumFunctionOnSet(Flows(days), Within(days, D, end))
      BY <2>1, <3>2, <3>8, LastStated
    <3>10. SumFunctionOnSet(Flows(days), Within(days, D, end)) = S
      BY <2>1, <3>4, <3>7, FlowsOfDays
    <3>11. days[end].assets = Worth(b[end])
      BY <2>2, <3>7
    <3> HIDE DEF b, S
    <3>12. Worth(b[end]) = rs[last].assets + S
      BY <3>4, <3>9, <3>10, ReturnsAssumption DEF Worth
    <3> HIDE DEF days
    <3>13. LatestAssets(rs) = IF DOMAIN days = {} THEN Nothing ELSE days[end].assets
      BY <3>3, <3>7, <3>11, <3>12
    <3> QED BY <3>13, Zenon DEF days, end, to
  <2> QED BY <2>4, <2>5
<1> QED BY <1>4, <1>5

\* EffectiveSummary, which reads the last statement and the flows after it, shows the balance
\* with which an analysis of all records ends.
THEOREM SummaryIsAnalysis == Spec => []SummaryAgrees
<1>1. RecordsInv => SummaryAgrees
  BY SummaryIs DEF SummaryAgrees, RecordsInv
<1> QED BY <1>1, RecordsOrdered, PTL

-----------------------------------------------------------------------------
(***************************************************************************)
(* The members of a portfolio.                                             *)
(***************************************************************************)

\* Whole numbers divided.
LEMMA Quotients ==
    ASSUME NEW x \in Int, NEW y \in Nat \ {0}
    PROVE  x \div y \in Int /\ (x >= 0 => x \div y >= 0)
  OBVIOUS

\* An amount in another currency is an amount, and not less than nothing if it was not.
LEMMA ConvertedIs ==
    ASSUME NEW x \in Int, NEW r \in (Nat \ {0}) \X (Nat \ {0})
    PROVE  Converted(x, r) \in Int /\ (x \in Nat => Converted(x, r) \in Nat)
<1> DEFINE p == r[1]
           q == r[2]
           up == 2 * x * p + q
           down == -2 * x * p + q
<1>1. p \in Nat \ {0} /\ q \in Nat \ {0}
  OBVIOUS
<1> HIDE DEF p, q
<1>2. up \in Int /\ down \in Int /\ 2 * q \in Nat \ {0}
  BY <1>1
<1>3. x >= 0 => up >= 0
  <2>1. x >= 0 => x * p >= 0
    BY <1>1
  <2>2. 2 * x * p = 2 * (x * p)
    BY <1>1
  <2> QED BY <1>1, <2>1, <2>2
<1> HIDE DEF up, down
<1>4. up \div (2 * q) \in Int /\ down \div (2 * q) \in Int /\ (up >= 0 => up \div (2 * q) >= 0)
  BY <1>2, Quotients
<1>5. Converted(x, r) = IF x < 0 THEN -(down \div (2 * q)) ELSE up \div (2 * q)
  BY ReturnsAssumption DEF Converted, up, down, p, q
<1> QED BY <1>3, <1>4, <1>5

\* A record with other amounts.
Restated(r, flow, assets) == [r EXCEPT !.flow = flow, !.assets = assets]

\* It is a record.
LEMMA RestatedIs ==
    ASSUME NEW r \in AccountRecords, NEW flow \in Int \cup {Nothing}, NEW assets \in Nat \cup {Nothing}
    PROVE  Restated(r, flow, assets) \in AccountRecords
BY DEF Restated, AccountRecords

\* The records of a member in the currency of the portfolio are records too.
LEMMA ConvertedRecords ==
    ASSUME NEW a \in Accounts, records[a] \in Written
    PROVE  Records(a) \in Written
<1> DEFINE rs == Records(a)
           n == Len(records[a])
<1>1. DOMAIN records[a] = 1 .. n /\ n \in Nat
  BY DEF Written
<1>2. ASSUME NEW i \in DOMAIN records[a]
      PROVE  Restated(records[a][i], Converted(records[a][i].flow, Rates[a]),
                      Converted(records[a][i].assets, Rates[a])) \in AccountRecords
  <2>1. records[a][i] \in AccountRecords
    BY <1>1 DEF Written
  <2>2. Rates[a] \in (Nat \ {0}) \X (Nat \ {0})
    BY RatesAssumption
  <2>3. records[a][i].flow \in Int \cup {Nothing} /\ records[a][i].assets \in Nat \cup {Nothing}
    BY <2>1 DEF AccountRecords
  <2>4. Converted(Nothing, Rates[a]) = Nothing
    BY DEF Converted
  <2>5. Converted(records[a][i].flow, Rates[a]) \in Int \cup {Nothing}
    BY <2>2, <2>3, <2>4, ConvertedIs
  <2>6. Converted(records[a][i].assets, Rates[a]) \in Nat \cup {Nothing}
    BY <2>2, <2>3, <2>4, ConvertedIs
  <2> QED BY <2>1, <2>5, <2>6, RestatedIs
<1>3. rs = [i \in DOMAIN records[a] |-> Restated(records[a][i], Converted(records[a][i].flow, Rates[a]),
                                                 Converted(records[a][i].assets, Rates[a]))]
  BY Zenon DEF Records, Restated
<1>4. rs \in [1 .. n -> AccountRecords]
  <2> HIDE DEF rs, n
  <2> QED BY <1>1, <1>2, <1>3
<1> HIDE DEF rs, n
<1> QED BY <1>1, <1>4 DEF Written, rs

Apart == [balance |-> 0, valid |-> TRUE, begun |-> FALSE]

\* A member at the end of the day n, from what it was at the end of the day before.
MemberStep(raw, x, n) ==
    IF n = 0 THEN Apart
    ELSE IF n \in DOMAIN raw THEN Normalize(x, raw[n]) ELSE x

MemberRuns(raw, g, n) == \A k \in 0 .. n : g[k] = MemberStep(raw, g[k - 1], k)

MemberSolves(raw, to, g) ==
    g = [n \in 0 .. to |-> MemberStep(raw, g[n - 1], n)]

\* The recursion behind Member has a solution.
LEMMA MemberExists ==
    ASSUME NEW raw, NEW to \in Nat
    PROVE  \E g : MemberSolves(raw, to, g)
<1> DEFINE M == {n \in Nat : \E g : MemberRuns(raw, g, n)}
<1>1. 0 \in M
  <2> DEFINE h == [k \in {0} |-> Apart]
  <2>1. MemberRuns(raw, h, 0)
    BY DEF MemberRuns, MemberStep
  <2> HIDE DEF h
  <2> QED BY <2>1
<1>2. ASSUME NEW n \in M PROVE n + 1 \in M
  <2>1. PICK g : MemberRuns(raw, g, n)
    OBVIOUS
  <2> DEFINE h == [k \in 0 .. n + 1 |->
                      IF k = n + 1 THEN MemberStep(raw, g[n], n + 1) ELSE g[k]]
  <2>2. ASSUME NEW k \in 0 .. n + 1 PROVE h[k] = MemberStep(raw, h[k - 1], k)
    <3>1. CASE k = n + 1
      BY <3>1
    <3>2. CASE k # n + 1
      <4>1. k \in 0 .. n /\ h[k] = g[k]
        BY <3>2
      <4>2. k # 0 => h[k - 1] = g[k - 1]
        BY <3>2
      <4>3. k = 0 => \A x : MemberStep(raw, x, k) = Apart
        BY DEF MemberStep
      <4> HIDE DEF h
      <4> QED BY <2>1, <4>1, <4>2, <4>3 DEF MemberRuns
    <3> QED BY <3>1, <3>2
  <2>3. MemberRuns(raw, h, n + 1)
    BY <2>2 DEF MemberRuns
  <2>4. \E x : MemberRuns(raw, x, n + 1)
    <3> HIDE DEF h
    <3> QED BY <2>3
  <2> QED BY <2>4
<1>3. to \in M
  <2> HIDE DEF M
  <2>1. M \in SUBSET Nat
    BY DEF M
  <2> QED BY <1>1, <1>2, <2>1, AllNumbers
<1>4. PICK g : MemberRuns(raw, g, to)
  BY <1>3
<1> DEFINE r == [n \in 0 .. to |-> g[n]]
<1>5. ASSUME NEW n \in 0 .. to PROVE r[n] = MemberStep(raw, r[n - 1], n)
  <2>1. n # 0 => r[n - 1] = g[n - 1]
    OBVIOUS
  <2>2. n = 0 => \A x : MemberStep(raw, x, n) = Apart
    BY DEF MemberStep
  <2>3. r[n] = g[n] /\ g[n] = MemberStep(raw, g[n - 1], n)
    BY <1>4 DEF MemberRuns
  <2> HIDE DEF r
  <2> QED BY <2>1, <2>2, <2>3
<1>6. r = [n \in 0 .. to |-> MemberStep(raw, r[n - 1], n)]
  BY <1>5
<1> HIDE DEF r
<1> QED BY <1>6 DEF MemberSolves

\* A member from day to day.
LEMMA MemberAt ==
    ASSUME NEW raw, NEW to \in Nat, NEW n \in 0 .. to
    PROVE  Member(raw, to)[n] =
              MemberStep(raw, Member(raw, to)[n - 1], n)
<1> DEFINE Solves(g) == MemberSolves(raw, to, g)
           c == Member(raw, to)
<1>1. c = CHOOSE g : Solves(g)
  BY DEF Member, MemberSolves, MemberStep, Apart
<1>2. \E g : Solves(g)
  BY MemberExists
<1>3. Solves(c)
  <2> HIDE DEF Solves, c
  <2> QED BY <1>1, <1>2
<1> HIDE DEF c
<1>4. c[n] = MemberStep(raw, c[n - 1], n)
  BY <1>3, Zenon DEF MemberSolves
<1> QED BY <1>4 DEF c

\* A member has a balance at the end of every day.
LEMMA MembersAre ==
    ASSUME NEW rs \in Written, NEW to \in Nat, NEW n \in 0 .. to
    PROVE  Member(RawDays(rs, to), to)[n].balance \in Int
<1> DEFINE raw == RawDays(rs, to)
           b == Member(raw, to)
           N == {k \in Nat : k <= to => b[k].balance \in Int}
<1>1. \A k \in 0 .. to : b[k] = MemberStep(raw, b[k - 1], k)
  BY MemberAt
<1>2. \A d \in DOMAIN raw : raw[d].flow \in Int /\ raw[d].by \in AccountRecords
  BY RawIs
<1> HIDE DEF b, raw
<1>3. 0 \in N
  <2>1. b[0] = Apart
    BY <1>1 DEF MemberStep
  <2> QED BY <2>1 DEF Apart
<1>4. ASSUME NEW k \in N PROVE k + 1 \in N
  <2> SUFFICES ASSUME k + 1 <= to PROVE b[k + 1].balance \in Int
    OBVIOUS
  <2>1. k \in 0 .. to /\ k + 1 \in 0 .. to /\ b[k].balance \in Int
    OBVIOUS
  <2>2. b[k + 1] = MemberStep(raw, b[k], k + 1)
    <3>1. (k + 1) - 1 = k
      BY <2>1
    <3> QED BY <1>1, <2>1, <3>1
  <2> DEFINE m == b[k]
             d == raw[k + 1]
  <2>3. CASE k + 1 \in DOMAIN raw
    <3>1. b[k + 1] = Normalize(m, d)
      BY <2>1, <2>2, <2>3 DEF MemberStep
    <3>2. d.flow \in Int /\ d.by \in AccountRecords
      BY <1>2, <2>3
    <3>3. Amount(m, d) \in Int
      BY <2>1, <3>2 DEF Amount, Explicit, AccountRecords
    <3>4. Normalize(m, d).balance = IF ~Counts(m, d) THEN m.balance ELSE Amount(m, d)
      BY DEF Normalize
    <3> QED BY <2>1, <3>1, <3>3, <3>4
  <2>4. CASE k + 1 \notin DOMAIN raw
    BY <2>1, <2>2, <2>4 DEF MemberStep
  <2> QED BY <2>3, <2>4
<1>5. n \in N
  <2> HIDE DEF N
  <2>1. N \in SUBSET Nat
    BY DEF N
  <2> QED BY <1>3, <1>4, <2>1, AllNumbers
<1> QED BY <1>5 DEF b, raw

\* The days of a member that count.
LEMMA NormalizedIs ==
    ASSUME NEW a \in Accounts, records[a] \in Written, NEW to \in Nat
    PROVE  /\ DOMAIN Normalized(a, to) \in SUBSET Dates /\ IsFiniteSet(DOMAIN Normalized(a, to))
           /\ \A d \in DOMAIN Normalized(a, to) :
                 d <= to /\ Normalized(a, to)[d].assets \in Int /\ Normalized(a, to)[d].flow \in Int
<1> DEFINE rs == Records(a)
           raw == RawDays(rs, to)
           at == Member(raw, to)
           days == {d \in DOMAIN raw : Counts(at[d - 1], raw[d])}
<1>1. rs \in Written
  BY ConvertedRecords
<1> HIDE DEF rs
<1>2. /\ \A d : d \in DOMAIN raw <=> d \in Dates /\ d <= to /\ On(rs, d) # {}
      /\ IsFiniteSet(DOMAIN raw)
      /\ \A d \in DOMAIN raw : raw[d].flow \in Int /\ raw[d].by \in AccountRecords
  BY <1>1, RawIs
<1>3. \A n \in 0 .. to : at[n].balance \in Int
  BY <1>1, MembersAre
<1>4. /\ DOMAIN Normalized(a, to) = days
      /\ \A d \in days : /\ Normalized(a, to)[d].assets = at[d].balance
                         /\ Normalized(a, to)[d].flow = raw[d].flow + Joining(at[d - 1], raw[d])
  BY DEF Normalized, rs
<1> HIDE DEF raw, at
<1>5. days \in SUBSET Dates /\ days \in SUBSET DOMAIN raw /\ IsFiniteSet(days)
  <2>1. days \in SUBSET DOMAIN raw
    OBVIOUS
  <2>2. IsFiniteSet(days)
    BY <1>2, <2>1, FS_Subset
  <2> QED BY <1>2, <2>1, <2>2
<1> HIDE DEF days
<1>6. ASSUME NEW d \in days PROVE d <= to /\ at[d].balance \in Int /\ raw[d].flow + Joining(at[d - 1], raw[d]) \in Int
  <2>1. d \in Nat /\ d <= to /\ raw[d].flow \in Int /\ raw[d].by \in AccountRecords
    BY <1>2, <1>5, ReturnsAssumption
  <2>2. Joining(at[d - 1], raw[d]) \in Int
    BY <2>1 DEF Joining, Positive, Explicit, AccountRecords
  <2> QED BY <1>3, <2>1, <2>2
<1> QED BY <1>4, <1>5, <1>6

\* What the days of a member are.
MemberDays(days) ==
    /\ DOMAIN days \in SUBSET Nat /\ IsFiniteSet(DOMAIN days)
    /\ \A d \in DOMAIN days : days[d].assets \in Int /\ days[d].flow \in Int

\* What a member has as of a date is a number, and the same until its next day.
LEMMA AsOfIs ==
    ASSUME NEW days, MemberDays(days), NEW date \in Int
    PROVE  /\ AssetsAsOf(days, date) \in Int /\ FlowOn(days, date) \in Int
           /\ \A e \in Int : (\A d \in DOMAIN days : d <= date <=> d <= e) =>
                                 AssetsAsOf(days, e) = AssetsAsOf(days, date)
<1> DEFINE until == {d \in DOMAIN days : d <= date}
<1>1. until \in SUBSET Int /\ IsFiniteSet(until) /\ until \in SUBSET DOMAIN days
  BY FS_Subset DEF MemberDays
<1>2. AssetsAsOf(days, date) \in Int
  <2>1. CASE until = {}
    BY <2>1 DEF AssetsAsOf, AsOf
  <2>2. CASE until # {}
    <3>1. Max(until) \in until
      <4> HIDE DEF until
      <4> QED BY <1>1, <2>2, MaxIs
    <3>2. AsOf(days, date) = Max(until)
      BY <2>2 DEF AsOf
    <3>3. Max(until) \in DOMAIN days
      BY <3>1
    <3> HIDE DEF until
    <3>4. Max(until) # Nothing /\ days[Max(until)].assets \in Int
      BY <3>3, ReturnsAssumption DEF MemberDays
    <3> QED BY <3>2, <3>4 DEF AssetsAsOf
  <2> QED BY <2>1, <2>2
<1>3. FlowOn(days, date) \in Int
  BY DEF FlowOn, MemberDays
<1>4. ASSUME NEW e \in Int, \A d \in DOMAIN days : d <= date <=> d <= e
      PROVE  AssetsAsOf(days, e) = AssetsAsOf(days, date)
  <2>1. {d \in DOMAIN days : d <= e} = until
    BY <1>4
  <2>2. AsOf(days, e) = AsOf(days, date)
    BY <2>1, Zenon DEF AsOf
  <2> QED BY <2>2 DEF AssetsAsOf
<1> QED BY <1>2, <1>3, <1>4

\* The days of a member are such days.
LEMMA MembersDays ==
    ASSUME NEW a \in Accounts, records[a] \in Written, NEW to \in Nat
    PROVE  MemberDays(Normalized(a, to))
<1> DEFINE days == Normalized(a, to)
<1>1. /\ DOMAIN days \in SUBSET Dates /\ IsFiniteSet(DOMAIN days)
      /\ \A d \in DOMAIN days : d <= to /\ days[d].assets \in Int /\ days[d].flow \in Int
  BY NormalizedIs
<1> HIDE DEF days
<1>2. MemberDays(days)
  BY <1>1, ReturnsAssumption DEF MemberDays
<1> QED BY <1>2 DEF days

\* The last day that is known of a member is a date, or 0.
LEMMA LatestIs ==
    ASSUME NEW a \in Accounts, records[a] \in Written, NEW to, Dates # {}
    PROVE  Latest(a, to) \in {0} \cup Dates
<1> DEFINE raw == RawDays(records[a], Max(Dates))
           days == Projected(records[a], Max(Dates))
           S == {0} \cup {d \in DOMAIN raw : days[d].assets # Nothing \/ raw[d].by.flow # Nothing}
<1>1. Max(Dates) \in Dates
  BY ReturnsAssumption, MaxIs
<1>2. Max(Dates) \in Int
  <2>1. \A d \in Dates : d \in Int
    BY ReturnsAssumption
  <2> QED BY <1>1, <2>1
<1>3. IsFiniteSet(DOMAIN raw) /\ \A d : d \in DOMAIN raw => d \in Dates
  BY <1>2, RawIs
<1>4. Latest(a, to) = Max(S)
  BY DEF Latest, LastKnown
<1> HIDE DEF raw, days
<1>5. S \in SUBSET Nat /\ S # {}
  BY <1>3, ReturnsAssumption
<1>6. IsFiniteSet(S)
  <2>1. IsFiniteSet({d \in DOMAIN raw : days[d].assets # Nothing \/ raw[d].by.flow # Nothing})
    <3>1. {d \in DOMAIN raw : days[d].assets # Nothing \/ raw[d].by.flow # Nothing} \in SUBSET DOMAIN raw
      OBVIOUS
    <3> QED BY <1>3, <3>1, FS_Subset
  <2>2. IsFiniteSet({0})
    BY FS_Singleton
  <2> QED BY <2>1, <2>2, FS_Union
<1> HIDE DEF S
<1>7. Max(S) \in S
  BY <1>5, <1>6, MaxIs
<1>8. S \in SUBSET ({0} \cup Dates)
  BY <1>3 DEF S
<1> QED BY <1>4, <1>7, <1>8

-----------------------------------------------------------------------------
(***************************************************************************)
(* The days of a portfolio.                                                *)
(***************************************************************************)

Typed == \A a \in Accounts : records[a] \in Written

\* The last days of the years.
YearEnds == {Max({d \in Dates : YearOf(d) = y}) : y \in {YearOf(d) : d \in Dates}}

\* They are dates.
LEMMA YearEndsAre == YearEnds \in SUBSET Dates
<1> SUFFICES ASSUME NEW d \in Dates PROVE Max({e \in Dates : YearOf(e) = YearOf(d)}) \in Dates
  BY DEF YearEnds
<1> DEFINE S == {e \in Dates : YearOf(e) = YearOf(d)}
<1>1. S \in SUBSET Dates /\ d \in S
  OBVIOUS
<1> HIDE DEF S
<1>2. IsFiniteSet(S) /\ S \in SUBSET Int /\ S # {}
  <2>1. IsFiniteSet(Dates) /\ \A e \in Dates : e \in Int
    BY ReturnsAssumption
  <2>2. IsFiniteSet(S)
    BY <1>1, <2>1, FS_Subset
  <2> QED BY <1>1, <2>1, <2>2
<1>3. Max(S) \in S
  BY <1>2, MaxIs
<1> QED BY <1>1, <1>3 DEF S

\* The dates of the joint curve, of which those of the members are some.
LEMMA JointDatesAre ==
    ASSUME Typed, NEW to \in Dates, NEW from \in Dates \cup {Nothing}
    PROVE  /\ JointDates(Accounts, from, to) \in SUBSET Nat
           /\ IsFiniteSet(JointDates(Accounts, from, to))
           /\ \A a \in Accounts : DOMAIN Normalized(a, to) \in SUBSET JointDates(Accounts, from, to)
<1> DEFINE D == JointDates(Accounts, from, to)
           dates == UNION {DOMAIN Normalized(a, to) : a \in Accounts}
           L == {Latest(a, to) : a \in Accounts}
           last == Lesser(to, Max(L))
           first == Min(dates)
           borders == IF from # Nothing /\ first <= from - 1 /\ from - 1 <= last THEN {from - 1} ELSE {}
           ends == {d \in YearEnds : YearOf(first) <= YearOf(d) /\ YearOf(d) < YearOf(last)}
<1>1. \A a \in Accounts : DOMAIN Normalized(a, to) \in SUBSET Dates
  BY NormalizedIs, ReturnsAssumption DEF Typed
<1>2. dates \in SUBSET Dates /\ \A a \in Accounts : DOMAIN Normalized(a, to) \in SUBSET dates
  BY <1>1
<1>3. CASE dates = {}
  <2>1. D = {}
    BY <1>3 DEF JointDates
  <2> QED BY <1>2, <1>3, <2>1, FS_EmptySet
<1>4. CASE dates # {}
  <2>1. D = dates \cup {last} \cup ends \cup borders
    BY <1>4, Zenon DEF JointDates, YearEnds
  <2>2. last \in Nat
    <3>1. Dates # {} /\ Accounts # {}
      BY <1>2, <1>4
    <3>2. L \in SUBSET ({0} \cup Dates) /\ L # {}
      BY <3>1, LatestIs DEF Typed
    <3>3. IsFiniteSet(L)
      <4>1. IsFiniteSet({0}) /\ IsFiniteSet(Dates)
        BY FS_Singleton, ReturnsAssumption
      <4>2. IsFiniteSet({0} \cup Dates)
        BY <4>1, FS_Union
      <4> HIDE DEF L
      <4> QED BY <3>2, <4>2, FS_Subset
    <3> HIDE DEF L
    <3>6. \A x \in {0} \cup Dates : x \in Nat
      BY ReturnsAssumption
    <3>7. L \in SUBSET Int
      BY <3>2, <3>6
    <3>8. Max(L) \in L
      BY <3>2, <3>3, <3>7, MaxIs
    <3>4. Max(L) \in Nat
      BY <3>2, <3>6, <3>8
    <3>5. to \in Nat
      BY ReturnsAssumption
    <3> HIDE DEF last
    <3> QED BY <3>4, <3>5 DEF Lesser, last
  <2>3. ends \in SUBSET Dates
    BY YearEndsAre
  <2>4. borders \in SUBSET Nat /\ IsFiniteSet(borders)
    <3>1. from # Nothing => from - 1 \in Nat
      BY ReturnsAssumption
    <3>2. IsFiniteSet({from - 1}) /\ IsFiniteSet({})
      BY FS_Singleton, FS_EmptySet
    <3> HIDE DEF last, first
    <3> QED BY <3>1, <3>2
  <2> HIDE DEF D, dates, last, ends, borders
  <2>5. IsFiniteSet(dates) /\ IsFiniteSet(ends) /\ IsFiniteSet({last})
    BY <1>2, <2>3, FS_Subset, FS_Singleton, ReturnsAssumption
  <2>6. D \in SUBSET Nat
    BY <1>2, <2>1, <2>2, <2>3, <2>4, ReturnsAssumption
  <2>7. IsFiniteSet(D)
    <3>1. IsFiniteSet(dates \cup {last})
      BY <2>5, FS_Union
    <3>2. IsFiniteSet(dates \cup {last} \cup ends)
      BY <2>5, <3>1, FS_Union
    <3> QED BY <2>1, <2>4, <3>2, FS_Union
  <2>8. \A a \in Accounts : DOMAIN Normalized(a, to) \in SUBSET D
    BY <1>2, <2>1
  <2> QED BY <2>6, <2>7, <2>8 DEF D
<1> QED BY <1>3, <1>4

\* What the members have as of a date, and what they pay in on it.
Holdings(to, date) == [a \in Accounts |-> AssetsAsOf(Normalized(a, to), date)]
Payments(to, date) == [a \in Accounts |-> FlowOn(Normalized(a, to), date)]

\* They are numbers.
LEMMA MembersOn ==
    ASSUME Typed, NEW to \in Dates, NEW date \in Int
    PROVE  /\ IsFiniteSet(Accounts)
           /\ \A a \in Accounts :
                 /\ Holdings(to, date)[a] = AssetsAsOf(Normalized(a, to), date)
                 /\ Payments(to, date)[a] = FlowOn(Normalized(a, to), date)
                 /\ Holdings(to, date)[a] \in Int /\ Payments(to, date)[a] \in Int
           /\ SumFunctionOnSet(Holdings(to, date), Accounts) \in Int
           /\ SumFunctionOnSet(Payments(to, date), Accounts) \in Int
<1>1. to \in Nat
  BY ReturnsAssumption
<1>2. ASSUME NEW a \in Accounts
      PROVE  /\ Holdings(to, date)[a] = AssetsAsOf(Normalized(a, to), date)
             /\ Payments(to, date)[a] = FlowOn(Normalized(a, to), date)
             /\ Holdings(to, date)[a] \in Int /\ Payments(to, date)[a] \in Int
  <2>1. MemberDays(Normalized(a, to))
    BY <1>1, MembersDays DEF Typed
  <2>2. AssetsAsOf(Normalized(a, to), date) \in Int /\ FlowOn(Normalized(a, to), date) \in Int
    BY <2>1, AsOfIs
  <2> QED BY <2>2 DEF Holdings, Payments
<1>3. IsFiniteSet(Accounts)
  BY RatesAssumption
<1>4. /\ SumFunctionOnSet(Holdings(to, date), Accounts) \in Int
      /\ SumFunctionOnSet(Payments(to, date), Accounts) \in Int
  BY <1>2, <1>3, SumInt
<1> QED BY <1>2, <1>3, <1>4

\* A point of the portfolio is a day.
LEMMA PointIsDay ==
    ASSUME NEW x \in Int, NEW y \in Int
    PROVE  /\ Point(x, y) \in DayRecords
           /\ Point(x, y).assets = x /\ Point(x, y).flow = y
           /\ ~Point(x, y).moved => y = 0
<1> DEFINE moved == y # 0
<1>1. moved \in BOOLEAN /\ (~moved => y = 0)
  OBVIOUS
<1>2. Point(x, y) = [flow |-> y, moved |-> moved, assets |-> x]
  BY Zenon DEF Point
<1> HIDE DEF moved
<1>3. [flow |-> y, moved |-> moved, assets |-> x] \in DayRecords
  BY <1>1, Zenon DEF DayRecords
<1>4. /\ [flow |-> y, moved |-> moved, assets |-> x].assets = x
      /\ [flow |-> y, moved |-> moved, assets |-> x].flow = y
      /\ [flow |-> y, moved |-> moved, assets |-> x].moved = moved
  BY Zenon
<1> QED BY <1>1, <1>2, <1>3, <1>4, Zenon

\* The days of the portfolio.
LEMMA JointIs ==
    ASSUME Typed, NEW to \in Dates, NEW from \in Dates \cup {Nothing}
    PROVE  /\ DOMAIN Joint(Accounts, from, to) = JointDates(Accounts, from, to)
           /\ \A d \in JointDates(Accounts, from, to) :
                 /\ Joint(Accounts, from, to)[d] =
                       Point(SumFunctionOnSet(Holdings(to, d), Accounts), SumFunctionOnSet(Payments(to, d), Accounts))
                 /\ Joint(Accounts, from, to)[d].assets = SumFunctionOnSet(Holdings(to, d), Accounts)
                 /\ Joint(Accounts, from, to)[d].flow = SumFunctionOnSet(Payments(to, d), Accounts)
                 /\ Joint(Accounts, from, to)[d].assets \in Int
                 /\ Joint(Accounts, from, to)[d].flow \in Int
           /\ Days(Joint(Accounts, from, to))
<1> DEFINE J == Joint(Accounts, from, to)
           D == JointDates(Accounts, from, to)
           A(d) == [a \in Accounts |-> AssetsAsOf([x \in Accounts |-> Normalized(x, to)][a], d)]
           F(d) == [a \in Accounts |-> FlowOn([x \in Accounts |-> Normalized(x, to)][a], d)]
<1>1. DOMAIN J = D /\ \A d \in D : J[d] = Point(SumFunction(A(d)), SumFunction(F(d)))
  BY Zenon DEF Joint, SumOver
<1>2. D \in SUBSET Nat /\ IsFiniteSet(D)
  BY JointDatesAre
<1>3. ASSUME NEW d \in D
      PROVE  /\ SumFunction(A(d)) = SumFunctionOnSet(Holdings(to, d), Accounts)
             /\ SumFunction(F(d)) = SumFunctionOnSet(Payments(to, d), Accounts)
             /\ SumFunctionOnSet(Holdings(to, d), Accounts) \in Int
             /\ SumFunctionOnSet(Payments(to, d), Accounts) \in Int
  <2> DEFINE f == A(d)
             g == F(d)
  <2>1. d \in Int
    BY <1>2
  <2>2. f = Holdings(to, d) /\ g = Payments(to, d)
    BY DEF Holdings, Payments
  <2>3. DOMAIN f = Accounts /\ DOMAIN g = Accounts
    OBVIOUS
  <2> HIDE DEF f, g
  <2>4. SumFunction(f) = SumFunctionOnSet(Holdings(to, d), Accounts)
    BY <2>1, <2>2, <2>3, MembersOn, SumOf
  <2>5. SumFunction(g) = SumFunctionOnSet(Payments(to, d), Accounts)
    BY <2>1, <2>2, <2>3, MembersOn, SumOf
  <2> QED BY <2>1, <2>4, <2>5, MembersOn DEF f, g
<1> HIDE DEF A, F
<1>4. \A d \in D :
         /\ J[d] = Point(SumFunctionOnSet(Holdings(to, d), Accounts), SumFunctionOnSet(Payments(to, d), Accounts))
         /\ SumFunctionOnSet(Holdings(to, d), Accounts) \in Int
         /\ SumFunctionOnSet(Payments(to, d), Accounts) \in Int
  BY <1>1, <1>3, Zenon
<1> HIDE DEF J, D
<1>5. \A d \in D : /\ J[d].assets = SumFunctionOnSet(Holdings(to, d), Accounts)
                   /\ J[d].flow = SumFunctionOnSet(Payments(to, d), Accounts)
                   /\ J[d].assets \in Int /\ J[d].flow \in Int
                   /\ J[d] \in DayRecords /\ (~J[d].moved => J[d].flow = 0)
  <2> SUFFICES ASSUME NEW d \in D
               PROVE  /\ J[d].assets = SumFunctionOnSet(Holdings(to, d), Accounts)
                      /\ J[d].flow = SumFunctionOnSet(Payments(to, d), Accounts)
                      /\ J[d].assets \in Int /\ J[d].flow \in Int
                      /\ J[d] \in DayRecords /\ (~J[d].moved => J[d].flow = 0)
    OBVIOUS
  <2> DEFINE x == SumFunctionOnSet(Holdings(to, d), Accounts)
             y == SumFunctionOnSet(Payments(to, d), Accounts)
  <2>1. J[d] = Point(x, y) /\ x \in Int /\ y \in Int
    BY <1>4
  <2> HIDE DEF x, y
  <2>2. /\ Point(x, y) \in DayRecords
        /\ Point(x, y).assets = x /\ Point(x, y).flow = y
        /\ ~Point(x, y).moved => y = 0
    BY <2>1, PointIsDay, Zenon
  <2>3. /\ J[d].assets = x /\ J[d].flow = y /\ J[d].assets \in Int /\ J[d].flow \in Int
        /\ J[d] \in DayRecords /\ (~J[d].moved => J[d].flow = 0)
    BY <2>1, <2>2, Zenon
  <2> QED BY <2>3 DEF x, y
<1>7. Days(J)
  <2>1. \A d \in D : J[d].assets # Nothing
    BY <1>5, ReturnsAssumption
  <2>2. \A d \in D : J[d] \in DayRecords
    BY <1>5
  <2>3. \A d \in D : ~J[d].moved => J[d].flow = 0
    BY <1>5
  <2> QED BY <1>1, <1>2, <2>1, <2>2, <2>3, Zenon DEF Days
<1> QED BY <1>1, <1>4, <1>5, <1>7, Zenon DEF J, D

-----------------------------------------------------------------------------
(***************************************************************************)
(* What the members contribute.                                            *)
(***************************************************************************)

\* The sums of the columns of a table.
Columns(c, A, s) == [a \in A |-> SumFunctionOnSet(c[a], s)]

\* The rows of a table add up to what its columns add up to.
LEMMA SumSwap ==
    ASSUME NEW A, IsFiniteSet(A), NEW T, IsFiniteSet(T),
           NEW f, NEW c, \A d \in T : \A a \in A : f[d][a] \in Int /\ c[a][d] = f[d][a],
           NEW p, \A d \in T : p[d] = SumFunctionOnSet(f[d], A)
    PROVE  SumFunctionOnSet(p, T) = SumFunctionOnSet(Columns(c, A, T), A)
<1> DEFINE Q == {s \in SUBSET T : SumFunctionOnSet(p, s) = SumFunctionOnSet(Columns(c, A, s), A)}
<1>1. \A d \in T : p[d] \in Int
  BY SumInt
<1>2. ASSUME NEW s \in SUBSET T
      PROVE  /\ IsFiniteSet(s)
             /\ \A a \in A : /\ Columns(c, A, s)[a] = SumFunctionOnSet(c[a], s)
                             /\ Columns(c, A, s)[a] \in Int
             /\ SumFunctionOnSet(Columns(c, A, s), A) \in Int
  <2>1. IsFiniteSet(s)
    BY FS_Subset
  <2>2. \A a \in A : Columns(c, A, s)[a] = SumFunctionOnSet(c[a], s)
    BY DEF Columns
  <2>3. ASSUME NEW a \in A PROVE SumFunctionOnSet(c[a], s) \in Int
    <3>1. \A d \in s : c[a][d] \in Int
      OBVIOUS
    <3> QED BY <2>1, <3>1, SumInt
  <2>4. \A a \in A : Columns(c, A, s)[a] \in Int
    BY <2>2, <2>3
  <2>5. SumFunctionOnSet(Columns(c, A, s), A) \in Int
    BY <2>4, SumInt
  <2> QED BY <2>1, <2>2, <2>4, <2>5
<1>3. {} \in Q
  <2>1. SumFunctionOnSet(p, {}) = 0
    BY SumEmpty
  <2>2. \A a \in A : Columns(c, A, {})[a] = 0
    BY SumEmpty DEF Columns
  <2>3. SumFunctionOnSet(Columns(c, A, {}), A) = 0
    BY <2>2, SumZero
  <2> QED BY <2>1, <2>3
<1>4. ASSUME NEW s \in SUBSET T, s # {}, \A x \in s : s \ {x} \in Q
      PROVE  s \in Q
  <2>1. PICK x : x \in s
    BY <1>4
  <2> DEFINE t == s \ {x}
  <2>2. /\ SumFunctionOnSet(p, t) = SumFunctionOnSet(Columns(c, A, t), A)
        /\ t \in SUBSET T /\ x \in T
    BY <1>4, <2>1
  <2>3. IsFiniteSet(s) /\ \A d \in s : p[d] \in Int
    BY <1>1, <1>2
  <2>4. SumFunctionOnSet(p, s) = p[x] + SumFunctionOnSet(p, t)
    BY <2>1, <2>3, SumAdd
  <2>5. ASSUME NEW a \in A
        PROVE  /\ f[x][a] \in Int /\ Columns(c, A, t)[a] \in Int
               /\ Columns(c, A, s)[a] = f[x][a] + Columns(c, A, t)[a]
    <3>1. \A d \in s : c[a][d] \in Int
      OBVIOUS
    <3>2. SumFunctionOnSet(c[a], s) = c[a][x] + SumFunctionOnSet(c[a], t)
      BY <2>1, <2>3, <3>1, SumAdd
    <3>3. c[a][x] = f[x][a] /\ f[x][a] \in Int
      BY <2>2
    <3>4. /\ Columns(c, A, t)[a] = SumFunctionOnSet(c[a], t) /\ Columns(c, A, t)[a] \in Int
          /\ Columns(c, A, s)[a] = SumFunctionOnSet(c[a], s)
      BY <1>2, <2>2
    <3> QED BY <3>2, <3>3, <3>4
  <2> HIDE DEF t
  <2>6. SumFunctionOnSet(Columns(c, A, s), A) =
           SumFunctionOnSet(f[x], A) + SumFunctionOnSet(Columns(c, A, t), A)
    BY <2>5, SumPlus
  <2>7. p[x] = SumFunctionOnSet(f[x], A)
    BY <2>2
  <2>8. SumFunctionOnSet(p, s) = SumFunctionOnSet(Columns(c, A, s), A)
    BY <2>2, <2>4, <2>6, <2>7
  <2> QED BY <2>8
<1>5. T \in Q
  <2> HIDE DEF Q
  <2> QED BY <1>3, <1>4, SubsetInduction
<1> QED BY <1>5

\* The days of a member within an interval, and what it pays in on each of the days.
OwnDays(days, start, end) == {d \in DOMAIN days : Counted(d, start, end)}
PaidIn(a, to, T) == [d \in T |-> FlowOn(Normalized(a, to), d)]

\* The contribution of a member, whether or not it has days.
LEMMA ContributionIs ==
    ASSUME Typed, NEW a \in Accounts, NEW to \in Dates, NEW from, NEW result, NEW closing \in Int,
           result.from \in Int, result.from < closing, result.to = closing,
           \A d \in DOMAIN Normalized(a, to) : d <= closing
    PROVE  /\ Contribution(a, result, closing, from, to).assets = AssetsAsOf(Normalized(a, to), closing)
           /\ Contribution(a, result, closing, from, to).profit.n =
                 AssetsAsOf(Normalized(a, to), closing) - AssetsAsOf(Normalized(a, to), result.from)
                    - SumFunctionOnSet(PaidIn(a, to, OwnDays(Normalized(a, to), result.from, closing)),
                                       OwnDays(Normalized(a, to), result.from, closing))
<1> DEFINE days == Until(Normalized(a, to), closing)
           own == IF from # Nothing /\ Min(DOMAIN days) >= from THEN Nothing ELSE from
           borders == {closing} \cup (IF own = Nothing THEN {} ELSE {own - 1})
           points == [date \in DOMAIN days \cup {b \in borders : AsOf(days, b) # Nothing} |->
                         Point(AssetsAsOf(days, date), FlowOn(days, date))]
           rates == ReturnsOf(points, own)
           mine == {d \in DOMAIN days : Counted(d, result.from, result.to)}
           flows == SumOver(mine, LAMBDA d : days[d].flow)
           W == OwnDays(days, result.from, closing)
           paid == SumFunctionOnSet([d \in W |-> FlowOn(days, d)], W)
<1>1. days = Normalized(a, to)
  <2> DEFINE raw == RawDays(Records(a), to)
             at == Member(raw, to)
             S == {d \in DOMAIN raw : Counts(at[d - 1], raw[d])}
             all == Normalized(a, to)
  <2>1. all = [n \in S |-> [assets |-> at[n].balance, flow |-> raw[n].flow + Joining(at[n - 1], raw[n])]]
    BY Zenon DEF Normalized
  <2>2. all = [n \in DOMAIN all |-> all[n]]
    BY <2>1, Zenon
  <2>3. \A e \in DOMAIN all : e <= closing
    OBVIOUS
  <2>4. days = [d \in {e \in DOMAIN all : e <= closing} |-> all[d]]
    BY Zenon DEF Until
  <2> HIDE DEF all, days
  <2>5. {e \in DOMAIN all : e <= closing} = DOMAIN all
    BY <2>3, Zenon
  <2>6. days = all
    BY <2>2, <2>4, <2>5, Zenon
  <2> QED BY <2>6 DEF all
<1>2. result.from # Nothing /\ closing > result.from
  BY ReturnsAssumption
<1>3. MemberDays(days)
  <2>1. to \in Nat
    BY ReturnsAssumption
  <2>2. MemberDays(Normalized(a, to))
    BY <2>1, MembersDays DEF Typed
  <2> HIDE DEF days
  <2> QED BY <1>1, <2>2
<1>4. W = mine /\ W \in SUBSET DOMAIN days /\ IsFiniteSet(W)
  <2>1. W = mine /\ W \in SUBSET DOMAIN days
    BY DEF OwnDays
  <2> QED BY <1>3, <2>1, FS_Subset DEF MemberDays
<1>5. flows = paid
  <2> DEFINE g == [d \in mine |-> days[d].flow]
             h == [d \in W |-> FlowOn(days, d)]
  <2>1. flows = SumFunction(g)
    BY DEF SumOver
  <2>2. DOMAIN g = W /\ \A d \in W : g[d] = days[d].flow
    BY <1>4
  <2>3. \A d \in W : h[d] = days[d].flow
    BY <1>4 DEF FlowOn
  <2> HIDE DEF g, h, days, W, flows
  <2>4. SumFunction(g) = SumFunctionOnSet(h, W)
    BY <1>4, <2>2, <2>3, SumOf
  <2> QED BY <2>1, <2>4 DEF h
<1>6. /\ AssetsAsOf(days, closing) \in Int /\ AssetsAsOf(days, result.from) \in Int
  BY <1>3, AsOfIs
<1>7. ASSUME DOMAIN days = {}
      PROVE  /\ Contribution(a, result, closing, from, to).assets = AssetsAsOf(days, closing)
             /\ Contribution(a, result, closing, from, to).profit.n =
                   AssetsAsOf(days, closing) - AssetsAsOf(days, result.from) - paid
  <2>1. /\ Contribution(a, result, closing, from, to).assets = 0
        /\ Contribution(a, result, closing, from, to).profit = Fraction(0, 1)
    BY <1>7 DEF Contribution
  <2>2. AssetsAsOf(days, closing) = 0 /\ AssetsAsOf(days, result.from) = 0
    BY <1>7 DEF AssetsAsOf, AsOf
  <2>3. W = {}
    BY <1>4, <1>7
  <2>4. paid = 0
    BY <2>3, SumEmpty
  <2> HIDE DEF paid, W
  <2>5. Contribution(a, result, closing, from, to).profit.n = 0
    BY <2>1 DEF Fraction
  <2>6. Contribution(a, result, closing, from, to).profit.n =
           AssetsAsOf(days, closing) - AssetsAsOf(days, result.from) - paid
    BY <2>2, <2>4, <2>5
  <2> QED BY <2>1, <2>2, <2>6
<1>8. ASSUME DOMAIN days # {}
      PROVE  /\ Contribution(a, result, closing, from, to).assets = AssetsAsOf(days, closing)
             /\ Contribution(a, result, closing, from, to).profit.n =
                   AssetsAsOf(days, closing) - AssetsAsOf(days, result.from) - paid
  <2>1. Contribution(a, result, closing, from, to) =
           [assets |-> AssetsAsOf(days, closing),
            profit |-> IF result.from # Nothing /\ closing > result.from
                       THEN Fraction(AssetsAsOf(days, closing) - AssetsAsOf(days, result.from) - flows, 1)
                       ELSE Fraction(0, 1),
            dietz |-> rates.dietz, twr |-> rates.twr]
    BY <1>8, Zenon DEF Contribution
  <2> HIDE DEF days, rates, flows, W, mine
  <2>2. /\ Contribution(a, result, closing, from, to).assets = AssetsAsOf(days, closing)
        /\ Contribution(a, result, closing, from, to).profit =
              Fraction(AssetsAsOf(days, closing) - AssetsAsOf(days, result.from) - flows, 1)
    BY <1>2, <2>1
  <2>3. Contribution(a, result, closing, from, to).profit.n =
           AssetsAsOf(days, closing) - AssetsAsOf(days, result.from) - flows
    BY <2>2 DEF Fraction
  <2> QED BY <1>5, <2>2, <2>3
<1>9. paid = SumFunctionOnSet(PaidIn(a, to, W), W)
  BY <1>1, Zenon DEF PaidIn
<1>10. W = OwnDays(Normalized(a, to), result.from, closing)
  BY <1>1, Zenon DEF OwnDays
<1> HIDE DEF paid, W, days
<1> QED BY <1>1, <1>7, <1>8, <1>9, <1>10

\* What the members have when the interval opens is what they have on the day before its
\* first: no joint day lies between.
LEMMA OpeningHeld ==
    ASSUME Typed, NEW to \in Dates, NEW from \in Dates \cup {Nothing},
           Defined(Joint(Accounts, from, to), from)
    PROVE  OpeningOf(Joint(Accounts, from, to), from) =
              SumFunctionOnSet(Holdings(to, Start(Joint(Accounts, from, to), from)), Accounts)
<1> DEFINE J == Joint(Accounts, from, to)
           D == JointDates(Accounts, from, to)
           first == OpeningDay(J, from)
           start == Start(J, from)
<1>1. Days(J) /\ DOMAIN J = D /\ from \in Nat \cup {Nothing} /\ from # 0 /\ Defined(J, from)
  BY JointIs, ReturnsAssumption
<1>2. D \in SUBSET Nat /\ \A a \in Accounts : DOMAIN Normalized(a, to) \in SUBSET D
  BY JointDatesAre
<1>3. \A d \in D : J[d].assets = SumFunctionOnSet(Holdings(to, d), Accounts)
  BY JointIs
<1>4. IsFiniteSet(Accounts) /\ to \in Nat
  BY RatesAssumption, ReturnsAssumption
<1> HIDE DEF J, D
<1>5. /\ first \in D /\ start \in Nat /\ first <= start
      /\ \A d \in D : first < d => d > start
  BY <1>1, DefinedIs
<1>6. OpeningOf(J, from) = SumFunctionOnSet(Holdings(to, first), Accounts)
  BY <1>3, <1>5 DEF OpeningOf
<1> HIDE DEF first, start
<1>7. first \in Int /\ start \in Int
  BY <1>2, <1>5
<1>8. ASSUME NEW a \in Accounts PROVE Holdings(to, first)[a] = Holdings(to, start)[a]
  <2>1. MemberDays(Normalized(a, to))
    BY <1>4, MembersDays DEF Typed
  <2>2. \A d \in DOMAIN Normalized(a, to) : d <= first <=> d <= start
    <3> SUFFICES ASSUME NEW d \in DOMAIN Normalized(a, to) PROVE d <= first <=> d <= start
      OBVIOUS
    <3>1. d \in D /\ d \in Int
      <4>1. d \in D
        BY <1>2
      <4>2. D \in SUBSET Nat
        BY <1>2
      <4>3. \A e \in D : e \in Int
        BY <4>2
      <4> QED BY <4>1, <4>3
    <3>2. first < d => d > start
      BY <1>5, <3>1
    <3> QED BY <1>5, <1>7, <3>1, <3>2
  <2>3. AssetsAsOf(Normalized(a, to), start) = AssetsAsOf(Normalized(a, to), first)
    BY <1>7, <2>1, <2>2, AsOfIs
  <2>4. /\ Holdings(to, first)[a] = AssetsAsOf(Normalized(a, to), first)
        /\ Holdings(to, start)[a] = AssetsAsOf(Normalized(a, to), start)
    BY DEF Holdings
  <2> QED BY <2>3, <2>4
<1>9. SumFunctionOnSet(Holdings(to, first), Accounts) = SumFunctionOnSet(Holdings(to, start), Accounts)
  BY <1>4, <1>8, SumSame
<1> QED BY <1>6, <1>9 DEF J, start

\* What each member pays in within the interval, on its own days ...
OwnFlows(to, start, end) ==
    [a \in Accounts |-> SumFunctionOnSet(PaidIn(a, to, OwnDays(Normalized(a, to), start, end)),
                                         OwnDays(Normalized(a, to), start, end))]
\* ... and on any days.
PaymentRows(to, T) == [d \in T |-> Payments(to, d)]
PaymentColumns(to, T) == [a \in Accounts |-> PaidIn(a, to, T)]

\* The flows of the portfolio are those of its members on their own days.
LEMMA FlowsMeet ==
    ASSUME Typed, NEW to \in Dates, NEW from \in Dates \cup {Nothing},
           NEW start \in Int, NEW end \in Int
    PROVE  SumFunctionOnSet(Flows(Joint(Accounts, from, to)), Within(Joint(Accounts, from, to), start, end)) =
              SumFunctionOnSet(OwnFlows(to, start, end), Accounts)
<1> DEFINE J == Joint(Accounts, from, to)
           D == JointDates(Accounts, from, to)
           T == Within(J, start, end)
           p == Flows(J)
           f == PaymentRows(to, T)
           c == PaymentColumns(to, T)
<1>1. Days(J) /\ DOMAIN J = D
  BY JointIs
<1>2. D \in SUBSET Nat /\ IsFiniteSet(D) /\ \A a \in Accounts : DOMAIN Normalized(a, to) \in SUBSET D
  BY JointDatesAre
<1>3. \A d \in D : J[d].flow = SumFunctionOnSet(Payments(to, d), Accounts)
  BY JointIs
<1>4. IsFiniteSet(Accounts) /\ to \in Nat
  BY RatesAssumption, ReturnsAssumption
<1> HIDE DEF J, D
<1>5. T \in SUBSET D /\ IsFiniteSet(T) /\ \A d \in D : d \in T <=> start < d /\ d <= end
  <2>1. T \in SUBSET D /\ \A d \in D : d \in T <=> start < d /\ d <= end
    BY <1>1 DEF Within
  <2> QED BY <1>2, <2>1, FS_Subset
<1>6. \A d \in T : p[d] = SumFunctionOnSet(f[d], Accounts)
  <2>1. \A d \in T : f[d] = Payments(to, d)
    BY DEF PaymentRows
  <2>2. \A d \in T : p[d] = J[d].flow
    BY <1>1, <1>5 DEF Flows
  <2> HIDE DEF f, p
  <2> QED BY <1>3, <1>5, <2>1, <2>2
<1>7. \A d \in T : \A a \in Accounts : /\ f[d][a] \in Int /\ c[a][d] = f[d][a]
                                       /\ c[a][d] = FlowOn(Normalized(a, to), d)
  <2> SUFFICES ASSUME NEW d \in T, NEW a \in Accounts
               PROVE  /\ f[d][a] \in Int /\ c[a][d] = f[d][a]
                      /\ c[a][d] = FlowOn(Normalized(a, to), d)
    OBVIOUS
  <2>1. d \in Int
    <3>1. D \in SUBSET Nat
      BY <1>2
    <3>2. \A e \in D : e \in Int
      BY <3>1
    <3>3. d \in D
      BY <1>5
    <3> QED BY <3>2, <3>3
  <2>2. f[d] = Payments(to, d)
    BY DEF PaymentRows
  <2>3. /\ Payments(to, d)[a] = FlowOn(Normalized(a, to), d) /\ Payments(to, d)[a] \in Int
    BY <2>1, MembersOn
  <2>4. c[a] = PaidIn(a, to, T)
    BY DEF PaymentColumns
  <2>5. PaidIn(a, to, T)[d] = FlowOn(Normalized(a, to), d)
    BY DEF PaidIn
  <2> HIDE DEF f, c, T
  <2> QED BY <2>2, <2>3, <2>4, <2>5
<1> HIDE DEF T, p, f
<1>8. ASSUME NEW a \in Accounts
      PROVE  Columns(c, Accounts, T)[a] = OwnFlows(to, start, end)[a]
  <2> DEFINE W == OwnDays(Normalized(a, to), start, end)
             g == PaidIn(a, to, W)
             h == c[a]
  <2>1. Columns(c, Accounts, T)[a] = SumFunctionOnSet(h, T)
    BY DEF Columns
  <2>2. OwnFlows(to, start, end)[a] = SumFunctionOnSet(g, W)
    BY Zenon DEF OwnFlows
  <2>3. /\ W \in SUBSET T /\ \A d \in T \ W : d \notin DOMAIN Normalized(a, to)
    <3>1. \A d : d \in W <=> d \in DOMAIN Normalized(a, to) /\ start < d /\ d <= end
      BY DEF OwnDays, Counted
    <3> QED BY <1>2, <1>5, <3>1
  <2>4. /\ \A d \in T : h[d] \in Int /\ h[d] = FlowOn(Normalized(a, to), d)
    BY <1>7
  <2>5. \A d \in T \ W : h[d] = 0
    BY <2>3, <2>4 DEF FlowOn
  <2>6. \A d \in W : g[d] = h[d]
    <3>1. \A d \in W : g[d] = FlowOn(Normalized(a, to), d)
      BY DEF PaidIn
    <3> HIDE DEF W, g, h
    <3> QED BY <2>3, <2>4, <3>1
  <2> HIDE DEF W, g, h
  <2>7. SumFunctionOnSet(h, W) = SumFunctionOnSet(h, T)
    BY <1>5, <2>3, <2>4, <2>5, SumSkip
  <2>8. IsFiniteSet(W)
    BY <1>5, <2>3, FS_Subset
  <2>9. SumFunctionOnSet(g, W) = SumFunctionOnSet(h, W)
    BY <2>6, <2>8, SumSame
  <2> QED BY <2>1, <2>2, <2>7, <2>9
<1> HIDE DEF c
<1>9. SumFunctionOnSet(p, T) = SumFunctionOnSet(Columns(c, Accounts, T), Accounts)
  BY <1>4, <1>5, <1>6, <1>7, SumSwap
<1>10. SumFunctionOnSet(Columns(c, Accounts, T), Accounts) = SumFunctionOnSet(OwnFlows(to, start, end), Accounts)
  BY <1>4, <1>8, SumSame
<1> QED BY <1>9, <1>10 DEF p, T, J

\* What the contributions of the members add up to.
AddUp(result, parts, days) ==
    /\ SumOver(Accounts, LAMBDA a : parts[a].profit.n) = result.profit.n
    /\ SumOver(Accounts, LAMBDA a : parts[a].assets) = days[result.to].assets

\* The contributions of the members add up, for an analysis that has returns.
LEMMA PartsAddUp ==
    ASSUME Typed, NEW to \in Dates, NEW from \in Dates \cup {Nothing},
           NEW result, result = ReturnsOf(Joint(Accounts, from, to), from), Available(result.profit),
           NEW parts, parts = [a \in Accounts |-> Contribution(a, result, result.to, from, to)]
    PROVE  AddUp(result, parts, Joint(Accounts, from, to))
<1> DEFINE J == Joint(Accounts, from, to)
           D == JointDates(Accounts, from, to)
           start == Start(J, from)
           end == End(J)
           H == Holdings(to, start)
           K == Holdings(to, end)
           F == OwnFlows(to, start, end)
           profits == [a \in Accounts |-> parts[a].profit.n]
           assets == [a \in Accounts |-> parts[a].assets]
<1>1. Days(J) /\ DOMAIN J = D /\ from \in Nat \cup {Nothing} /\ from # 0
  BY JointIs, ReturnsAssumption
<1>2. Defined(J, from)
  BY <1>1, AvailableIs
<1>3. /\ result.from = start /\ result.to = end
      /\ result.profit = Fraction(ProfitAt(J, OpeningOf(J, from), start, end), 1)
  <2> HIDE DEF J
  <2>1. result = ReturnsOf(J, from)
    BY DEF J
  <2> QED BY <1>1, <1>2, <2>1, ReturnsIs
<1>4. /\ start \in Int /\ end \in Int /\ start < end /\ end \in D
      /\ \A d \in D : d <= end
  <2> HIDE DEF J, D
  <2>1. /\ Start(J, from) \in Nat /\ End(J) \in Nat /\ Start(J, from) < End(J)
        /\ End(J) \in After(J, Start(J, from)) /\ \A d \in DOMAIN J : d <= End(J)
    BY <1>1, <1>2, DefinedIs
  <2> QED BY <1>1, <2>1 DEF After
<1>5. /\ IsFiniteSet(Accounts)
      /\ \A a \in Accounts : /\ H[a] = AssetsAsOf(Normalized(a, to), start) /\ H[a] \in Int
                             /\ K[a] = AssetsAsOf(Normalized(a, to), end) /\ K[a] \in Int
  BY <1>4, MembersOn
<1>6. OpeningOf(J, from) = SumFunctionOnSet(H, Accounts)
  BY <1>2, OpeningHeld
<1>7. J[end].assets = SumFunctionOnSet(K, Accounts)
  BY <1>4, JointIs
<1>8. SumFunctionOnSet(Flows(J), Within(J, start, end)) = SumFunctionOnSet(F, Accounts)
  BY <1>4, FlowsMeet
<1>9. ASSUME NEW a \in Accounts
      PROVE  /\ assets[a] = K[a] /\ F[a] \in Int
             /\ profits[a] = K[a] - H[a] - F[a]
  <2> DEFINE W == OwnDays(Normalized(a, to), start, end)
             part == Contribution(a, result, end, from, to)
  <2>1. parts[a] = part
    BY <1>3
  <2>2. \A d \in DOMAIN Normalized(a, to) : d <= end
    <3>1. DOMAIN Normalized(a, to) \in SUBSET D
      BY JointDatesAre
    <3> HIDE DEF D, end
    <3> QED BY <1>4, <3>1
  <2>3. /\ part.assets = AssetsAsOf(Normalized(a, to), end)
        /\ part.profit.n = AssetsAsOf(Normalized(a, to), end) - AssetsAsOf(Normalized(a, to), start)
                              - SumFunctionOnSet(PaidIn(a, to, W), W)
    <3> HIDE DEF start, end
    <3>1. result.from \in Int /\ result.from < end /\ result.to = end /\ end \in Int /\ result.from = start
      BY <1>3, <1>4
    <3> QED BY <2>2, <3>1, ContributionIs
  <2>4. F[a] = SumFunctionOnSet(PaidIn(a, to, W), W)
    BY Zenon DEF OwnFlows
  <2>5. F[a] \in Int
    <3>1. MemberDays(Normalized(a, to))
      <4>1. to \in Nat
        BY ReturnsAssumption
      <4> QED BY <4>1, MembersDays DEF Typed
    <3>2. W \in SUBSET DOMAIN Normalized(a, to) /\ IsFiniteSet(W)
      <4>1. W \in SUBSET DOMAIN Normalized(a, to)
        BY DEF OwnDays
      <4> QED BY <3>1, <4>1, FS_Subset DEF MemberDays
    <3>3. \A d \in W : PaidIn(a, to, W)[d] \in Int
      <4> SUFFICES ASSUME NEW d \in W PROVE PaidIn(a, to, W)[d] \in Int
        OBVIOUS
      <4>1. d \in Int
        BY <3>1, <3>2 DEF MemberDays
      <4>2. FlowOn(Normalized(a, to), d) \in Int
        BY <3>1, <4>1, AsOfIs
      <4> HIDE DEF W
      <4> QED BY <4>2 DEF PaidIn
    <3> HIDE DEF W, F
    <3>4. SumFunctionOnSet(PaidIn(a, to, W), W) \in Int
      BY <3>2, <3>3, SumInt
    <3> QED BY <2>4, <3>4
  <2>6. assets[a] = parts[a].assets /\ profits[a] = parts[a].profit.n
    OBVIOUS
  <2> HIDE DEF W, part, F, H, K, assets, profits
  <2> QED BY <1>5, <2>1, <2>3, <2>4, <2>5, <2>6
<1>10. /\ SumOver(Accounts, LAMBDA a : parts[a].profit.n) = SumFunction(profits)
       /\ SumOver(Accounts, LAMBDA a : parts[a].assets) = SumFunction(assets)
  BY Zenon DEF SumOver
<1>11. DOMAIN profits = Accounts /\ DOMAIN assets = Accounts
  OBVIOUS
<1> DEFINE G == [a \in Accounts |-> K[a] - H[a]]
<1>12. \A a \in Accounts : G[a] = K[a] - H[a]
  OBVIOUS
<1> HIDE DEF H, K, F, G, profits, assets, start, end, J, D
<1>13. SumFunction(assets) = SumFunctionOnSet(K, Accounts)
  BY <1>5, <1>9, <1>11, SumOf
<1>14. SumFunction(profits) = SumFunctionOnSet(profits, Accounts)
  BY <1>5, <1>11, SumOf
<1>15. SumFunctionOnSet(profits, Accounts) = SumFunctionOnSet(G, Accounts) - SumFunctionOnSet(F, Accounts)
  <2>1. \A a \in Accounts : G[a] \in Int /\ F[a] \in Int /\ profits[a] = G[a] - F[a]
    BY <1>5, <1>9, <1>12
  <2> QED BY <1>5, <2>1, SumMinus
<1>16. SumFunctionOnSet(G, Accounts) = SumFunctionOnSet(K, Accounts) - SumFunctionOnSet(H, Accounts)
  BY <1>5, <1>12, SumMinus
<1>17. result.profit.n = SumFunctionOnSet(K, Accounts) - SumFunctionOnSet(H, Accounts) - SumFunctionOnSet(F, Accounts)
  <2>1. result.profit.n = ProfitAt(J, OpeningOf(J, from), start, end)
    BY <1>3 DEF Fraction
  <2> QED BY <1>6, <1>7, <1>8, <2>1 DEF ProfitAt
<1>18. SumFunction(profits) = result.profit.n
  BY <1>14, <1>15, <1>16, <1>17
<1>19. SumFunction(assets) = J[result.to].assets
  BY <1>3, <1>7, <1>13
<1> QED BY <1>10, <1>18, <1>19, Zenon DEF AddUp, J

\* The contributions of the members of a portfolio add up to its profit and its assets,
\* for every interval.
THEOREM Contributions == Spec => []ContributionsAddUp
<1>1. ASSUME RecordsInv PROVE ContributionsAddUp
  <2>1. Typed
    BY <1>1 DEF Typed, RecordsInv, Kept
  <2> SUFFICES ASSUME NEW from \in Froms, NEW to \in Dates, Analysed(Accounts, to),
                      NEW result \in {PortfolioReturn(Accounts, from, to)}, Available(result.profit),
                      NEW parts \in {[a \in Accounts |-> Contribution(a, result, result.to, from, to)]}
               PROVE  AddUp(result, parts, Joint(Accounts, from, to))
    BY Zenon DEF ContributionsAddUp, AddUp
  <2>2. from \in Dates \cup {Nothing} /\ result = ReturnsOf(Joint(Accounts, from, to), from)
    BY DEF Froms, PortfolioReturn
  <2>3. parts = [a \in Accounts |-> Contribution(a, result, result.to, from, to)]
    BY Zenon
  <2> QED BY <2>1, <2>2, <2>3, PartsAddUp, Zenon
<1> QED BY <1>1, RecordsOrdered, PTL

-----------------------------------------------------------------------------
(***************************************************************************)
(* Members, wherever the analysis ends.                                    *)
(***************************************************************************)

\* What a member was at the end of a day does not depend on the end of the analysis.
LEMMA MembersSame ==
    ASSUME NEW rs \in Written, NEW to \in Nat, NEW t \in Nat, t <= to, NEW n \in 0 .. t
    PROVE  Member(RawDays(rs, t), t)[n] = Member(RawDays(rs, to), to)[n]
<1> DEFINE raw == RawDays(rs, to)
           cut == RawDays(rs, t)
           b == Member(raw, to)
           c == Member(cut, t)
           N == {k \in Nat : k <= t => c[k] = b[k]}
<1>1. \A k \in 0 .. to : b[k] = MemberStep(raw, b[k - 1], k)
  BY MemberAt
<1>2. \A k \in 0 .. t : c[k] = MemberStep(cut, c[k - 1], k)
  BY MemberAt
<1>3. /\ \A d : d \in DOMAIN raw <=> d \in Dates /\ d <= to /\ On(rs, d) # {}
      /\ \A d \in DOMAIN raw : raw[d] = DayOf(rs, d)
  BY RawIs
<1>4. /\ \A d : d \in DOMAIN cut <=> d \in Dates /\ d <= t /\ On(rs, d) # {}
      /\ \A d \in DOMAIN cut : cut[d] = DayOf(rs, d)
  BY RawIs
<1> HIDE DEF raw, cut, b, c
<1>5. 0 \in N
  BY <1>1, <1>2 DEF MemberStep
<1>6. ASSUME NEW k \in N PROVE k + 1 \in N
  <2> SUFFICES ASSUME k + 1 <= t PROVE c[k + 1] = b[k + 1]
    OBVIOUS
  <2>1. k + 1 \in 0 .. t /\ k + 1 \in 0 .. to /\ (k + 1) - 1 = k /\ c[k] = b[k] /\ k + 1 # 0
    OBVIOUS
  <2>2. b[k + 1] = IF k + 1 \in DOMAIN raw THEN Normalize(b[k], raw[k + 1]) ELSE b[k]
    BY <1>1, <2>1 DEF MemberStep
  <2>3. c[k + 1] = IF k + 1 \in DOMAIN cut THEN Normalize(c[k], cut[k + 1]) ELSE c[k]
    BY <1>2, <2>1 DEF MemberStep
  <2>4. k + 1 \in DOMAIN raw <=> k + 1 \in DOMAIN cut
    BY <1>3, <1>4
  <2>5. k + 1 \in DOMAIN raw => raw[k + 1] = cut[k + 1]
    BY <1>3, <1>4, <2>4
  <2> QED BY <2>1, <2>2, <2>3, <2>4, <2>5
<1>7. n \in N
  <2> HIDE DEF N
  <2>1. N \in SUBSET Nat
    BY DEF N
  <2> QED BY <1>5, <1>6, <2>1, AllNumbers
<1> QED BY <1>7 DEF b, c, raw, cut

\* An analysis that ends earlier sees the days of a member up to its end.
LEMMA NormalizedCut ==
    ASSUME NEW a \in Accounts, records[a] \in Written, NEW to \in Nat, NEW t \in Nat, t <= to
    PROVE  /\ \A d : d \in DOMAIN Normalized(a, t) <=> d \in DOMAIN Normalized(a, to) /\ d <= t
           /\ \A d \in DOMAIN Normalized(a, t) : Normalized(a, t)[d] = Normalized(a, to)[d]
<1> DEFINE rs == Records(a)
           raw == RawDays(rs, to)
           cut == RawDays(rs, t)
           b == Member(raw, to)
           c == Member(cut, t)
           whole == Normalized(a, to)
           part == Normalized(a, t)
<1>1. rs \in Written
  BY ConvertedRecords
<1>2. whole = [n \in {d \in DOMAIN raw : Counts(b[d - 1], raw[d])} |->
                 [assets |-> b[n].balance, flow |-> raw[n].flow + Joining(b[n - 1], raw[n])]]
  BY Zenon DEF Normalized
<1>3. part = [n \in {d \in DOMAIN cut : Counts(c[d - 1], cut[d])} |->
                 [assets |-> c[n].balance, flow |-> cut[n].flow + Joining(c[n - 1], cut[n])]]
  BY Zenon DEF Normalized
<1> HIDE DEF rs
<1>4. /\ \A d : d \in DOMAIN raw <=> d \in Dates /\ d <= to /\ On(rs, d) # {}
      /\ \A d \in DOMAIN raw : raw[d] = DayOf(rs, d)
  BY <1>1, RawIs
<1>5. /\ \A d : d \in DOMAIN cut <=> d \in Dates /\ d <= t /\ On(rs, d) # {}
      /\ \A d \in DOMAIN cut : cut[d] = DayOf(rs, d)
  BY <1>1, RawIs
<1>6. \A n \in 0 .. t : c[n] = b[n]
  BY <1>1, MembersSame
<1> HIDE DEF raw, cut, b, c, whole, part
<1>7. \A d \in Dates : d <= t => d <= to /\ d \in 0 .. t /\ d - 1 \in 0 .. t
  BY ReturnsAssumption
<1>8. ASSUME NEW d \in DOMAIN cut
      PROVE  d \in DOMAIN raw /\ cut[d] = raw[d] /\ c[d] = b[d] /\ c[d - 1] = b[d - 1]
  BY <1>4, <1>5, <1>6, <1>7
<1>9. \A d : d \in DOMAIN cut <=> d \in DOMAIN raw /\ d <= t
  BY <1>4, <1>5, <1>7
<1>10. \A d : d \in DOMAIN part <=> d \in DOMAIN cut /\ Counts(c[d - 1], cut[d])
  BY <1>3
<1>11. \A d : d \in DOMAIN whole <=> d \in DOMAIN raw /\ Counts(b[d - 1], raw[d])
  BY <1>2
<1>12. ASSUME NEW d PROVE d \in DOMAIN part <=> d \in DOMAIN whole /\ d <= t
  <2>1. CASE d \in DOMAIN cut
    BY <1>8, <1>9, <1>10, <1>11, <2>1, Zenon
  <2>2. CASE d \notin DOMAIN cut
    BY <1>9, <1>10, <1>11, <2>2, Zenon
  <2> QED BY <2>1, <2>2
<1>13. ASSUME NEW d \in DOMAIN part PROVE part[d] = whole[d]
  <2>1. d \in DOMAIN cut /\ d \in DOMAIN whole
    BY <1>10, <1>12
  <2>2. cut[d] = raw[d] /\ c[d] = b[d] /\ c[d - 1] = b[d - 1]
    BY <1>8, <2>1
  <2>3. part[d] = [assets |-> c[d].balance, flow |-> cut[d].flow + Joining(c[d - 1], cut[d])]
    BY <1>3
  <2>4. whole[d] = [assets |-> b[d].balance, flow |-> raw[d].flow + Joining(b[d - 1], raw[d])]
    BY <1>2, <2>1
  <2> QED BY <2>2, <2>3, <2>4, Zenon
<1> QED BY <1>12, <1>13 DEF whole, part

\* The records in the currency of the portfolio are on the same days, of the same kinds,
\* and have an amount where the records have one.
Alike(r, s) ==
    /\ s.date = r.date /\ s.kind = r.kind
    /\ (s.flow = Nothing <=> r.flow = Nothing)
    /\ (s.assets = Nothing <=> r.assets = Nothing)
    /\ Explicit(s) <=> Explicit(r)

\* So are the records of a member, one by one.
LEMMA RecordsAlike ==
    ASSUME NEW a \in Accounts, records[a] \in Written
    PROVE  /\ DOMAIN Records(a) = DOMAIN records[a]
           /\ \A i \in DOMAIN records[a] : Alike(records[a][i], Records(a)[i])
<1>1. Records(a) = [i \in DOMAIN records[a] |-> Restated(records[a][i], Converted(records[a][i].flow, Rates[a]),
                                                         Converted(records[a][i].assets, Rates[a]))]
  BY Zenon DEF Records, Restated
<1>2. ASSUME NEW i \in DOMAIN records[a] PROVE Alike(records[a][i], Records(a)[i])
  <2> DEFINE r == records[a][i]
             f == Converted(r.flow, Rates[a])
             g == Converted(r.assets, Rates[a])
             s == Restated(r, f, g)
  <2>1. Records(a)[i] = s
    BY <1>1
  <2>2. r \in AccountRecords
    BY DEF Written
  <2>3. Rates[a] \in (Nat \ {0}) \X (Nat \ {0})
    BY RatesAssumption
  <2>4. r.flow \in Int \cup {Nothing} /\ r.assets \in Int \cup {Nothing}
    BY <2>2 DEF AccountRecords
  <2>5. (f = Nothing <=> r.flow = Nothing) /\ (g = Nothing <=> r.assets = Nothing)
    <3>1. Converted(Nothing, Rates[a]) = Nothing
      BY DEF Converted
    <3>2. r.flow \in Int => f \in Int
      BY <2>3, ConvertedIs
    <3>3. r.assets \in Int => g \in Int
      BY <2>3, ConvertedIs
    <3> HIDE DEF r
    <3> QED BY <2>4, <3>1, <3>2, <3>3, ReturnsAssumption
  <2> HIDE DEF r, f, g
  <2>6. /\ s.date = r.date /\ s.kind = r.kind /\ s.flow = f /\ s.assets = g
        /\ s.carried = r.carried /\ s.manual = r.manual
    BY <2>2, Zenon DEF Restated, AccountRecords
  <2>7. Explicit(s) <=> Explicit(r)
    BY <2>5, <2>6, Zenon DEF Explicit
  <2> HIDE DEF s
  <2>8. Alike(r, s)
    BY <2>5, <2>6, <2>7, Zenon DEF Alike
  <2> QED BY <2>1, <2>8 DEF r
<1> QED BY <1>1, <1>2

\* So each day has a flow in one currency when it has one in the other, and the records that
\* speak for it are the same.
LEMMA DaysAlike ==
    ASSUME NEW a \in Accounts, records[a] \in Written, NEW date
    PROVE  /\ On(Records(a), date) = On(records[a], date)
           /\ DayFlows(Records(a), date) = DayFlows(records[a], date)
           /\ On(records[a], date) # {} => Alike(Selected(records[a], date), Selected(Records(a), date))
<1> DEFINE rs == records[a]
           ss == Records(a)
           S == {i \in On(rs, date) : Explicit(rs[i])}
           T == IF S = {} THEN On(rs, date) ELSE S
<1>1. DOMAIN ss = DOMAIN rs /\ \A i \in DOMAIN rs : Alike(rs[i], ss[i])
  BY RecordsAlike
<1> HIDE DEF ss, rs
<1>2. On(ss, date) = On(rs, date) /\ \A i \in On(rs, date) : i \in DOMAIN rs
  BY <1>1 DEF On, Alike
<1>3. DayFlows(ss, date) = DayFlows(rs, date)
  BY <1>1, <1>2 DEF DayFlows, Alike
<1>4. S = {i \in On(rs, date) : Explicit(ss[i])}
  <2>1. \A i \in On(rs, date) : Explicit(ss[i]) <=> Explicit(rs[i])
    BY <1>1, <1>2 DEF Alike
  <2> QED BY <2>1, Zenon
<1>5. Selected(rs, date) = rs[Max(T)]
  BY Zenon DEF Selected
<1>6. Selected(ss, date) = ss[Max(T)]
  <2> HIDE DEF S
  <2>1. Selected(ss, date) = LET stated == {i \in On(ss, date) : Explicit(ss[i])}
                             IN  ss[Max(IF stated = {} THEN On(ss, date) ELSE stated)]
    BY Zenon DEF Selected
  <2>2. {i \in On(ss, date) : Explicit(ss[i])} = S
    BY <1>2, <1>4, Zenon
  <2> QED BY <1>2, <2>1, <2>2, Zenon
<1>7. ASSUME On(rs, date) # {} PROVE Max(T) \in DOMAIN rs
  <2>1. T # {} /\ T \in SUBSET On(rs, date)
    BY <1>7
  <2> HIDE DEF T
  <2>2. IsFiniteSet(On(rs, date)) /\ On(rs, date) \in SUBSET DOMAIN rs /\ DOMAIN rs \in SUBSET (Nat \ {0})
    BY OnIs DEF rs
  <2>3. IsFiniteSet(T) /\ T \in SUBSET Int
    BY <2>1, <2>2, FS_Subset
  <2>4. Max(T) \in T
    BY <2>1, <2>3, MaxIs
  <2> QED BY <2>1, <2>2, <2>4
<1> HIDE DEF T
<1>8. On(rs, date) # {} => Alike(Selected(rs, date), Selected(ss, date))
  BY <1>1, <1>5, <1>6, <1>7
<1> QED BY <1>2, <1>3, <1>8 DEF rs, ss

\* A member that counts a day has begun; otherwise the day changes nothing.
LEMMA NormalizeIs ==
    ASSUME NEW m, NEW d
    PROVE  /\ Counts(m, d) => Normalize(m, d).begun
           /\ ~Counts(m, d) => Normalize(m, d) = m
BY Zenon DEF Normalize

\* A member with a known balance has begun.
LEMMA KnownHasBegun ==
    ASSUME NEW a \in Accounts, records[a] \in Written, NEW to \in Nat, NEW n \in 0 .. to
    PROVE  Balances(RawDays(records[a], to), to)[n].source # Nothing =>
              Member(RawDays(Records(a), to), to)[n].begun
<1> DEFINE rs == records[a]
           ss == Records(a)
           raw == RawDays(rs, to)
           own == RawDays(ss, to)
           b == Balances(raw, to)
           m == Member(own, to)
           N == {k \in Nat : k <= to => (b[k].source # Nothing => m[k].begun)}
<1>0. ss \in Written
  BY ConvertedRecords
<1>1. \A k \in 0 .. to : b[k] = BalanceStep(raw, b[k - 1], k)
  BY BalancesAt
<1>2. \A k \in 0 .. to : m[k] = MemberStep(own, m[k - 1], k)
  BY MemberAt
<1>3. /\ \A d : d \in DOMAIN raw <=> d \in Dates /\ d <= to /\ On(rs, d) # {}
      /\ \A d \in DOMAIN raw : raw[d] = DayOf(rs, d)
  BY RawIs
<1>4. /\ \A d : d \in DOMAIN own <=> d \in Dates /\ d <= to /\ On(ss, d) # {}
      /\ \A d \in DOMAIN own : own[d] = DayOf(ss, d)
  <2> HIDE DEF ss
  <2> QED BY <1>0, RawIs
<1>5. \A d : /\ On(ss, d) = On(rs, d)
             /\ On(rs, d) # {} => Alike(Selected(rs, d), Selected(ss, d))
  BY DaysAlike
<1> HIDE DEF rs, ss, raw, own, b, m
<1>6. 0 \in N
  BY <1>1 DEF BalanceStep, Unknown
<1>7. ASSUME NEW k \in N PROVE k + 1 \in N
  <2> SUFFICES ASSUME k + 1 <= to, b[k + 1].source # Nothing PROVE m[k + 1].begun
    OBVIOUS
  <2>1. k + 1 \in 0 .. to /\ (k + 1) - 1 = k /\ k + 1 # 0
    OBVIOUS
  <2>0. b[k].source # Nothing => m[k].begun
    OBVIOUS
  <2>2. b[k + 1] = IF k + 1 \in DOMAIN raw THEN Project(b[k], raw[k + 1]) ELSE b[k]
    BY <1>1, <2>1 DEF BalanceStep
  <2>3. m[k + 1] = IF k + 1 \in DOMAIN own THEN Normalize(m[k], own[k + 1]) ELSE m[k]
    BY <1>2, <2>1 DEF MemberStep
  <2>4. k + 1 \in DOMAIN raw <=> k + 1 \in DOMAIN own
    BY <1>3, <1>4, <1>5
  <2>5. CASE k + 1 \notin DOMAIN raw
    <3>1. b[k + 1] = b[k] /\ m[k + 1] = m[k]
      BY <2>2, <2>3, <2>4, <2>5, Zenon
    <3> QED BY <2>0, <3>1, Zenon
  <2>6. CASE k + 1 \in DOMAIN raw
    <3> DEFINE d == raw[k + 1]
               e == own[k + 1]
    <3>1. b[k + 1] = Project(b[k], d) /\ m[k + 1] = Normalize(m[k], e)
      BY <2>2, <2>3, <2>4, <2>6, Zenon
    <3>2. Explicit(d.by) <=> Explicit(e.by)
      <4>1. d = DayOf(rs, k + 1) /\ e = DayOf(ss, k + 1) /\ On(rs, k + 1) # {}
        BY <1>3, <1>4, <2>4, <2>6
      <4> HIDE DEF d, e
      <4>2. d.by = Selected(rs, k + 1) /\ e.by = Selected(ss, k + 1)
        BY <4>1, Zenon DEF DayOf
      <4>3. Alike(Selected(rs, k + 1), Selected(ss, k + 1))
        BY <1>5, <4>1
      <4> QED BY <4>2, <4>3, Zenon DEF Alike
    <3> HIDE DEF d, e
    <3>3. CASE Explicit(e.by)
      <4>1. Counts(m[k], e)
        BY <3>3, Zenon DEF Counts
      <4> QED BY <3>1, <4>1, NormalizeIs, Zenon
    <3>4. CASE ~Explicit(e.by)
      <4>1. ~Explicit(d.by)
        BY <3>2, <3>4, Zenon
      <4>2. b[k + 1] = [b[k] EXCEPT !.net = @ + d.flow]
        BY <3>1, <4>1 DEF Project
      <4>3. b[k].source # Nothing
        <5>1. b[k] \in BalanceStates
          <6>1. k \in 0 .. to
            BY <2>1
          <6> QED BY <6>1, BalancesAre DEF b, raw, rs
        <5> QED BY <4>2, <5>1 DEF BalanceStates
      <4>4. m[k].begun
        BY <2>0, <4>3, Zenon
      <4> QED BY <3>1, <4>4, NormalizeIs, Zenon
    <3> QED BY <3>3, <3>4
  <2> QED BY <2>5, <2>6
<1>8. n \in N
  <2> HIDE DEF N
  <2>1. N \in SUBSET Nat
    BY DEF N
  <2> QED BY <1>6, <1>7, <2>1, AllNumbers
<1>9. b[n].source # Nothing => m[n].begun
  BY <1>8
<1> QED BY <1>9, Zenon DEF b, m, raw, own, rs, ss

\* A day, field by field.
LEMMA DayOfIs ==
    ASSUME NEW rs, NEW date
    PROVE  DayOf(rs, date).by = Selected(rs, date) /\ (DayOf(rs, date).hasFlow <=> DayFlows(rs, date) # {})
<1>1. DayOf(rs, date).by = Selected(rs, date)
  BY Zenon DEF DayOf
<1>2. DayOf(rs, date).hasFlow = (DayFlows(rs, date) # {})
  BY Zenon DEF DayOf
<1> QED BY <1>1, <1>2, Zenon

\* The last day that is known of a member counts.
LEMMA LatestCounts ==
    ASSUME NEW a \in Accounts, Kept(records[a]), Dates # {}, NEW to, Latest(a, to) > 0
    PROVE  Latest(a, to) \in DOMAIN Normalized(a, Max(Dates))
<1> DEFINE M == Max(Dates)
           rs == records[a]
           ss == Records(a)
           raw == RawDays(rs, M)
           own == RawDays(ss, M)
           days == Projected(rs, M)
           b == Balances(raw, M)
           m == Member(own, M)
           S == {0} \cup {d \in DOMAIN raw : days[d].assets # Nothing \/ raw[d].by.flow # Nothing}
           L == Latest(a, to)
<1>1. M \in Dates /\ M \in Nat
  <2>1. IsFiniteSet(Dates) /\ \A d \in Dates : d \in Nat /\ d \in Int
    BY ReturnsAssumption
  <2>2. M \in Dates
    BY <2>1, MaxIs
  <2> QED BY <2>1, <2>2
<1> HIDE DEF M
<1>2. rs \in Written /\ ss \in Written /\ \A i \in DOMAIN rs : Valid(rs[i])
  BY ConvertedRecords DEF Kept
<1>3. L = Max(S)
  BY Zenon DEF Latest, LastKnown, M
<1>4. /\ IsFiniteSet(DOMAIN raw)
      /\ \A d : d \in DOMAIN raw <=> d \in Dates /\ d <= M /\ On(rs, d) # {}
      /\ \A d \in DOMAIN raw : raw[d] = DayOf(rs, d)
  <2> HIDE DEF rs
  <2> QED BY <1>1, <1>2, RawIs
<1>5. /\ \A d : d \in DOMAIN own <=> d \in Dates /\ d <= M /\ On(ss, d) # {}
      /\ \A d \in DOMAIN own : own[d] = DayOf(ss, d)
  <2> HIDE DEF ss
  <2> QED BY <1>1, <1>2, RawIs
<1>6. \A d \in DOMAIN days : days[d].assets = Worth(b[d])
  <2> HIDE DEF rs
  <2>1. \A d \in DOMAIN Projected(rs, M) :
           Projected(rs, M)[d] = [flow |-> DayOf(rs, d).flow, moved |-> DayOf(rs, d).moved,
                                  assets |-> Worth(Balances(RawDays(rs, M), M)[d])]
    BY <1>1, <1>2, ProjectedIs
  <2> HIDE DEF b
  <2> QED BY <2>1 DEF b
<1>7. DOMAIN days = DOMAIN raw
  BY DEF Projected
<1>8. /\ On(ss, L) = On(rs, L) /\ DayFlows(ss, L) = DayFlows(rs, L)
      /\ On(rs, L) # {} => Alike(Selected(rs, L), Selected(ss, L))
  <2> HIDE DEF L
  <2> QED BY <1>2, DaysAlike
<1>9. \A k \in 0 .. M : b[k].source # Nothing => m[k].begun
  <2> SUFFICES ASSUME NEW k \in 0 .. M PROVE b[k].source # Nothing => m[k].begun
    BY Zenon
  <2> QED BY <1>1, <1>2, KnownHasBegun, Zenon
<1>10. \A k \in 0 .. M : b[k] = BalanceStep(raw, b[k - 1], k) /\ b[k] \in BalanceStates
  <2>1. \A k \in 0 .. M : b[k] = BalanceStep(raw, b[k - 1], k)
    BY <1>1, BalancesAt
  <2>2. \A k \in 0 .. M : b[k] \in BalanceStates
    <3> HIDE DEF rs
    <3> QED BY <1>1, <1>2, BalancesAre
  <2> QED BY <2>1, <2>2, Zenon
<1>11. DOMAIN Normalized(a, M) = {d \in DOMAIN own : Counts(m[d - 1], own[d])}
  BY Zenon DEF Normalized
<1> HIDE DEF raw, own, days, b, m
<1>12. S \in SUBSET Int /\ IsFiniteSet(S) /\ S # {}
  <2> DEFINE T == {d \in DOMAIN raw : days[d].assets # Nothing \/ raw[d].by.flow # Nothing}
  <2>1. T \in SUBSET DOMAIN raw
    OBVIOUS
  <2>2. \A d \in DOMAIN raw : d \in Int
    <3>1. \A d \in Dates : d \in Int
      BY ReturnsAssumption
    <3> QED BY <1>4, <3>1, Zenon
  <2>3. IsFiniteSet(T)
    BY <1>4, <2>1, FS_Subset
  <2>4. S = {0} \cup T
    OBVIOUS
  <2> HIDE DEF T, S
  <2>5. IsFiniteSet({0})
    BY FS_Singleton
  <2>6. IsFiniteSet(S)
    BY <2>3, <2>4, <2>5, FS_Union
  <2> QED BY <2>1, <2>2, <2>4, <2>6
<1>13. L \in S
  <2> HIDE DEF S, L
  <2> QED BY <1>3, <1>12, MaxIs
<1>14. L \in DOMAIN raw /\ (days[L].assets # Nothing \/ raw[L].by.flow # Nothing)
  BY <1>13 DEF L
<1> HIDE DEF S, L
<1>15. L \in 0 .. M /\ L - 1 \in 0 .. M /\ L # 0 /\ On(rs, L) # {} /\ L \in DOMAIN own
  BY <1>1, <1>4, <1>5, <1>8, <1>14, ReturnsAssumption
<1> DEFINE r == Selected(rs, L)
           s == Selected(ss, L)
<1>16. raw[L].by = r /\ own[L].by = s /\ (own[L].hasFlow <=> DayFlows(rs, L) # {})
  <2>1. raw[L] = DayOf(rs, L) /\ own[L] = DayOf(ss, L)
    BY <1>4, <1>5, <1>14, <1>15
  <2> QED BY <1>8, <2>1, DayOfIs, Zenon
<1>17. PICK i \in On(rs, L) : r = rs[i]
  <2> HIDE DEF rs
  <2> QED BY <1>2, <1>15, SelectedIs
<1>18. r.flow # Nothing => DayFlows(rs, L) # {}
  BY <1>17 DEF DayFlows
<1>19. (s.flow = Nothing <=> r.flow = Nothing) /\ (s.assets = Nothing <=> r.assets = Nothing) /\ (Explicit(s) <=> Explicit(r))
  BY <1>8, <1>15, Zenon DEF Alike
<1>20. r.kind # "log" /\ Valid(r)
  BY <1>2, <1>17 DEF On
<1> HIDE DEF r, s
<1>21. CASE raw[L].by.flow # Nothing
  <2>1. own[L].hasFlow
    BY <1>16, <1>18, <1>21, Zenon
  <2>2. Counts(m[L - 1], own[L])
    BY <2>1, Zenon DEF Counts
  <2> QED BY <1>11, <1>15, <2>2, Zenon DEF L, M
<1>22. CASE days[L].assets # Nothing /\ r.flow = Nothing
  <2>1. CASE Explicit(s)
    <3>1. Counts(m[L - 1], own[L])
      BY <1>16, <2>1, Zenon DEF Counts
    <3> QED BY <1>11, <1>15, <3>1, Zenon DEF L, M
  <2>2. CASE ~Explicit(s)
    <3>1. b[L].source # Nothing
      BY <1>6, <1>7, <1>14, <1>22 DEF Worth
    <3>2. b[L] = Project(b[L - 1], raw[L])
      BY <1>10, <1>14, <1>15 DEF BalanceStep
    <3>3. b[L] = [b[L - 1] EXCEPT !.net = @ + raw[L].flow]
      <4>1. ~Explicit(raw[L].by)
        BY <1>16, <1>19, <2>2, Zenon
      <4> QED BY <3>2, <4>1 DEF Project
    <3>4. b[L - 1].source # Nothing
      <4>1. b[L - 1] \in BalanceStates
        BY <1>10, <1>15
      <4> QED BY <3>1, <3>3, <4>1 DEF BalanceStates
    <3>5. m[L - 1].begun
      BY <1>9, <1>15, <3>4, Zenon
    <3>6. r.assets # Nothing
      BY <1>20, <1>22 DEF Valid
    <3>7. own[L].by.assets # Nothing
      BY <1>16, <1>19, <3>6, Zenon
    <3>8. Counts(m[L - 1], own[L])
      BY <3>5, <3>7, Zenon DEF Counts
    <3> QED BY <1>11, <1>15, <3>8, Zenon DEF L, M
  <2> QED BY <2>1, <2>2
<1> QED BY <1>14, <1>16, <1>21, <1>22, Zenon DEF L, M

-----------------------------------------------------------------------------
(***************************************************************************)
(* The dates of a year of the table.                                       *)
(***************************************************************************)

AllKept == \A a \in Accounts : Kept(records[a])

\* The dates of the members, and the last that is known of any of them.
MemberDates(to) == UNION {DOMAIN Normalized(a, to) : a \in Accounts}
LastDays == {Latest(a, Max(Dates)) : a \in Accounts}
LastDay == Max(LastDays)

\* An end of a year comes after all of its dates.
LEMMA YearEndIs ==
    ASSUME NEW e
    PROVE  e \in YearEnds <=> e \in Dates /\ \A d \in Dates : YearOf(d) = YearOf(e) => d <= e
<1>0. IsFiniteSet(Dates) /\ \A d \in Dates : d \in Int
  BY ReturnsAssumption
<1>1. ASSUME NEW x \in Dates
      PROVE  LET S == {d \in Dates : YearOf(d) = YearOf(x)}
             IN  /\ S \in SUBSET Int /\ IsFiniteSet(S) /\ x \in S /\ S \in SUBSET Dates
                 /\ Max(S) \in S /\ \A d \in S : d <= Max(S)
  <2> DEFINE S == {d \in Dates : YearOf(d) = YearOf(x)}
  <2>1. S \in SUBSET Dates /\ x \in S
    OBVIOUS
  <2> HIDE DEF S
  <2>2. S \in SUBSET Int /\ IsFiniteSet(S)
    BY <1>0, <2>1, FS_Subset
  <2>3. Max(S) \in S /\ \A d \in S : d <= Max(S)
    BY <2>1, <2>2, MaxIs
  <2> QED BY <2>1, <2>2, <2>3 DEF S
<1>2. ASSUME e \in YearEnds
      PROVE  e \in Dates /\ \A d \in Dates : YearOf(d) = YearOf(e) => d <= e
  <2>1. PICK x \in Dates : e = Max({d \in Dates : YearOf(d) = YearOf(x)})
    BY <1>2 DEF YearEnds
  <2> DEFINE S == {d \in Dates : YearOf(d) = YearOf(x)}
  <2>2. e \in S /\ \A d \in S : d <= e
    BY <1>1, <2>1
  <2> QED BY <2>2
<1>3. ASSUME e \in Dates, \A d \in Dates : YearOf(d) = YearOf(e) => d <= e
      PROVE  e \in YearEnds
  <2> DEFINE S == {d \in Dates : YearOf(d) = YearOf(e)}
  <2>1. S \in SUBSET Int /\ IsFiniteSet(S) /\ e \in S
    BY <1>1, <1>3
  <2>2. \A d \in S : d <= e
    BY <1>3
  <2>3. Max(S) = e
    <3> HIDE DEF S
    <3> QED BY <2>1, <2>2, MaxUnique
  <2> QED BY <1>3, <2>3, Zenon DEF YearEnds
<1> QED BY <1>2, <1>3

\* The last day of the members, as a number.
LEMMA LastDayIs ==
    ASSUME AllKept, Accounts # {}, Dates # {}
    PROVE  /\ LastDay \in LastDays /\ LastDay \in {0} \cup Dates /\ LastDay \in Nat
           /\ \A a \in Accounts : Latest(a, Max(Dates)) <= LastDay
<1>1. \A a \in Accounts : records[a] \in Written
  BY DEF AllKept, Kept
<1>2. LastDays \in SUBSET ({0} \cup Dates) /\ LastDays # {}
  BY <1>1, LatestIs DEF LastDays
<1>3. IsFiniteSet(Dates) /\ IsFiniteSet({0}) /\ \A d \in {0} \cup Dates : d \in Nat /\ d \in Int
  <2>1. IsFiniteSet(Dates) /\ \A d \in Dates : d \in Nat /\ d \in Int
    BY ReturnsAssumption
  <2>2. IsFiniteSet({0})
    BY FS_Singleton
  <2>3. \A d \in {0} \cup Dates : d \in Nat /\ d \in Int
    BY <2>1
  <2> QED BY <2>1, <2>2, <2>3
<1>4. IsFiniteSet(LastDays)
  <2>1. IsFiniteSet({0} \cup Dates)
    BY <1>3, FS_Union
  <2> QED BY <1>2, <2>1, FS_Subset
<1>5. LastDays \in SUBSET Int
  BY <1>2, <1>3
<1>6. LastDay \in LastDays /\ \A x \in LastDays : x <= LastDay
  BY <1>2, <1>4, <1>5, MaxIs DEF LastDay
<1>7. \A a \in Accounts : Latest(a, Max(Dates)) \in LastDays
  BY DEF LastDays
<1> QED BY <1>2, <1>3, <1>6, <1>7

\* Where the end is known, it is a date of a member.
LEMMA LastDayCounts ==
    ASSUME AllKept, EndKnown(Accounts, Max(Dates)), MemberDates(Max(Dates)) # {}
    PROVE  LastDay \in MemberDates(Max(Dates)) /\ Accounts # {} /\ Dates # {}
<1>1. PICK x \in Accounts : DOMAIN Normalized(x, Max(Dates)) # {}
  BY DEF MemberDates
<1>2. PICK y \in Accounts : Latest(y, Max(Dates)) > 0
  BY <1>1, Zenon DEF EndKnown
<1>3. \A a \in Accounts : records[a] \in Written
  BY DEF AllKept, Kept
<1>4. Dates # {}
  <2>1. CASE Dates = {}
    <3>1. DOMAIN Normalized(x, Max(Dates)) \in SUBSET DOMAIN RawDays(Records(x), Max(Dates))
      BY DEF Normalized
    <3>2. DOMAIN RawDays(Records(x), Max(Dates)) \in SUBSET Dates
      BY DEF RawDays
    <3> QED BY <1>1, <2>1, <3>1, <3>2
  <2> QED BY <2>1
<1>5. /\ LastDay \in LastDays /\ LastDay \in Nat /\ LastDay \in {0} \cup Dates
      /\ \A a \in Accounts : Latest(a, Max(Dates)) <= LastDay
  BY <1>1, <1>4, LastDayIs
<1>6. PICK a \in Accounts : LastDay = Latest(a, Max(Dates))
  BY <1>5 DEF LastDays
<1>7. LastDay > 0
  <2>1. Latest(y, Max(Dates)) \in {0} \cup Dates /\ Latest(y, Max(Dates)) <= LastDay
    BY <1>3, <1>4, <1>5, LatestIs
  <2>2. Latest(y, Max(Dates)) \in Int
    <3>1. \A d \in Dates : d \in Int
      BY ReturnsAssumption
    <3> QED BY <2>1, <3>1
  <2> QED BY <1>2, <1>5, <2>1, <2>2
<1>8. LastDay \in DOMAIN Normalized(a, Max(Dates))
  BY <1>4, <1>6, <1>7, LatestCounts DEF AllKept
<1> QED BY <1>1, <1>4, <1>8 DEF MemberDates

\* The ends of the years that are dates of the portfolio.
YearEndBetween(d, first, last) ==
    d \in YearEnds /\ YearOf(first) <= YearOf(d) /\ YearOf(d) < YearOf(last)
\* The day before the first of an analysis.
Border(d, from, first, last) == from # Nothing /\ d = from - 1 /\ first <= d /\ d <= last

\* The dates of the joint curve, one by one.
LEMMA JointDate ==
    ASSUME NEW to, NEW from, MemberDates(to) # {}, NEW d
    PROVE  d \in JointDates(Accounts, from, to) <=>
              \/ d \in MemberDates(to)
              \/ d = Lesser(to, LastDay)
              \/ YearEndBetween(d, Min(MemberDates(to)), Lesser(to, LastDay))
              \/ Border(d, from, Min(MemberDates(to)), Lesser(to, LastDay))
<1> DEFINE dates == MemberDates(to)
           last == Lesser(to, LastDay)
           first == Min(dates)
           ends == {e \in YearEnds : YearOf(first) <= YearOf(e) /\ YearOf(e) < YearOf(last)}
           borders == IF from # Nothing /\ first <= from - 1 /\ from - 1 <= last THEN {from - 1} ELSE {}
<1>1. {Latest(a, to) : a \in Accounts} = LastDays
  BY Zenon DEF LastDays, Latest
<1>2. last = Lesser(to, Max({Latest(a, to) : a \in Accounts}))
  BY <1>1, Zenon DEF LastDay
<1>3. JointDates(Accounts, from, to) = dates \cup {last} \cup ends \cup borders
  <2> DEFINE l == Lesser(to, Max({Latest(a, to) : a \in Accounts}))
  <2>1. JointDates(Accounts, from, to) =
           dates \cup {l} \cup {e \in YearEnds : YearOf(first) <= YearOf(e) /\ YearOf(e) < YearOf(l)}
                 \cup (IF from # Nothing /\ first <= from - 1 /\ from - 1 <= l THEN {from - 1} ELSE {})
    BY Zenon DEF JointDates, YearEnds, MemberDates
  <2>2. l = last
    BY <1>2
  <2> HIDE DEF l, last, dates, first
  <2> QED BY <2>1, <2>2 DEF dates
<1>4. d \in ends <=> YearEndBetween(d, first, last)
  BY Zenon DEF YearEndBetween
<1>5. d \in borders <=> Border(d, from, first, last)
  BY DEF Border
<1> HIDE DEF dates, last, first, ends, borders
<1>6. d \in dates \cup {last} \cup ends \cup borders <=>
         d \in dates \/ d = last \/ YearEndBetween(d, first, last) \/ Border(d, from, first, last)
  BY <1>4, <1>5
<1> QED BY <1>3, <1>6, Zenon DEF dates, last, first

\* The dates of the members up to an end of a year.
LEMMA MemberDatesCut ==
    ASSUME AllKept, NEW to \in Nat, NEW t \in Nat, t <= to, NEW d
    PROVE  d \in MemberDates(t) <=> d \in MemberDates(to) /\ d <= t
<1>1. \A a \in Accounts : d \in DOMAIN Normalized(a, t) <=> d \in DOMAIN Normalized(a, to) /\ d <= t
  <2> SUFFICES ASSUME NEW a \in Accounts
               PROVE  d \in DOMAIN Normalized(a, t) <=> d \in DOMAIN Normalized(a, to) /\ d <= t
    BY Zenon
  <2>1. records[a] \in Written
    BY DEF AllKept, Kept
  <2> QED BY <2>1, NormalizedCut
<1>2. \A s : d \in MemberDates(s) <=> \E a \in Accounts : d \in DOMAIN Normalized(a, s)
  BY DEF MemberDates
<1> QED BY <1>1, <1>2, Zenon

\* They are dates.
LEMMA MemberDatesAre ==
    ASSUME AllKept, NEW to \in Nat
    PROVE  /\ MemberDates(to) \in SUBSET Dates /\ MemberDates(to) \in SUBSET Int /\ IsFiniteSet(MemberDates(to))
           /\ \A d \in MemberDates(to) : d <= to
<1>1. \A a \in Accounts : /\ DOMAIN Normalized(a, to) \in SUBSET Dates
                          /\ \A d \in DOMAIN Normalized(a, to) : d <= to
  BY NormalizedIs DEF AllKept, Kept
<1>2. MemberDates(to) \in SUBSET Dates /\ \A d \in MemberDates(to) : d <= to
  BY <1>1 DEF MemberDates
<1>3. IsFiniteSet(Dates) /\ \A d \in Dates : d \in Int
  BY ReturnsAssumption
<1> QED BY <1>2, <1>3, FS_Subset

\* The dates of a year that is over: those of the whole table up to its end, and the day
\* before its first.
LEMMA YearDates ==
    ASSUME AllKept, EndKnown(Accounts, Max(Dates)), MemberDates(Max(Dates)) # {},
           NEW end \in YearEnds, YearOf(Min(MemberDates(Max(Dates)))) <= YearOf(end),
           NEW from \in Dates \cup {Nothing}, NEW d
    PROVE  /\ d \in JointDates(Accounts, from, end) <=>
                 \/ d \in JointDates(Accounts, Nothing, Max(Dates)) /\ d <= end
                 \/ Border(d, from, Min(MemberDates(Max(Dates))), Lesser(end, LastDay))
           /\ Lesser(end, LastDay) \in JointDates(Accounts, Nothing, Max(Dates)) /\ Lesser(end, LastDay) <= end
<1> DEFINE M == Max(Dates)
           X == LastDay
           last == Lesser(end, X)
           all == MemberDates(M)
           some == MemberDates(end)
           first == Min(all)
<1>1. X \in all /\ Accounts # {} /\ Dates # {}
  BY LastDayCounts
<1>2. M \in Dates /\ M \in Nat /\ \A e \in Dates : e <= M /\ e \in Nat
  <2>1. IsFiniteSet(Dates) /\ \A e \in Dates : e \in Nat /\ e \in Int
    BY ReturnsAssumption
  <2>2. M \in Dates /\ \A e \in Dates : e <= M
    BY <1>1, <2>1, MaxIs
  <2> QED BY <2>1, <2>2
<1>3. end \in Dates /\ end \in Nat /\ end <= M /\ \A e \in Dates : YearOf(e) = YearOf(end) => e <= end
  BY <1>2, YearEndIs
<1> HIDE DEF M
<1>4. /\ all \in SUBSET Dates /\ all \in SUBSET Int /\ IsFiniteSet(all)
      /\ \A e \in all : e <= M
  BY <1>2, MemberDatesAre
<1>5. \A e : e \in some <=> e \in all /\ e <= end
  BY <1>2, <1>3, MemberDatesCut
<1>6. all # {}
  BY DEF M
<1> HIDE DEF all, some
<1>7. first \in all /\ \A e \in all : first <= e
  BY <1>4, <1>6, MinIs
<1> HIDE DEF first, X
<1>8. X \in Dates /\ X \in Nat /\ X <= M /\ first \in Dates /\ first \in Nat
  BY <1>1, <1>2, <1>4, <1>7
<1>9. \A e, g \in Dates : /\ YearOf(e) \in Int /\ e \in Int
                          /\ e <= g => YearOf(e) <= YearOf(g)
  BY <1>2, YearsAssumption
<1>10. first <= end
  <2>1. CASE YearOf(first) = YearOf(end)
    BY <1>3, <1>8, <2>1
  <2>2. CASE YearOf(first) # YearOf(end)
    <3>1. YearOf(first) <= YearOf(end)
      BY DEF first, all, M
    <3>2. ~(end <= first)
      BY <1>3, <1>8, <1>9, <2>2, <3>1
    <3> QED BY <1>3, <1>8, <3>2
  <2> QED BY <2>1, <2>2
<1>11. first \in some /\ Min(some) = first
  <2>1. first \in some /\ \A e \in some : first <= e
    BY <1>5, <1>7, <1>10
  <2>2. some \in SUBSET Int /\ IsFiniteSet(some)
    <3>1. some \in SUBSET all
      BY <1>5
    <3> QED BY <1>4, <3>1, FS_Subset
  <2> QED BY <2>1, <2>2, MinUnique
<1>12. Lesser(M, X) = X
  BY <1>2, <1>8 DEF Lesser
<1>13. d \in JointDates(Accounts, Nothing, M) <=> d \in all \/ YearEndBetween(d, first, X)
  <2>1. ~Border(d, Nothing, first, X)
    BY DEF Border
  <2>2. MemberDates(M) # {}
    BY <1>6 DEF all
  <2>3. d \in JointDates(Accounts, Nothing, M) <=>
           d \in all \/ d = X \/ YearEndBetween(d, first, X) \/ Border(d, Nothing, first, X)
    BY <1>12, <2>2, JointDate DEF all, first, X
  <2> QED BY <1>1, <2>1, <2>3 DEF all, X
<1>14. d \in JointDates(Accounts, from, end) <=>
          d \in some \/ d = last \/ YearEndBetween(d, first, last) \/ Border(d, from, first, last)
  <2>1. MemberDates(end) # {}
    BY <1>11 DEF some
  <2> HIDE DEF last
  <2> QED BY <1>11, <2>1, JointDate DEF some, last, X
<1> QED
  <2>0. X \in all
    BY <1>1 DEF X, all
  <2>1. CASE X <= end
    <3>1. last = X
      <4>1. X < end \/ X = end
        BY <1>3, <1>8, <2>1
      <4> QED BY <1>3, <1>8, <4>1 DEF Lesser
    <3>2. YearEndBetween(d, first, X) => d <= end
      <4> SUFFICES ASSUME YearEndBetween(d, first, X) PROVE d <= end
        OBVIOUS
      <4>1. d \in Dates /\ YearOf(d) < YearOf(X)
        BY YearEndIs DEF YearEndBetween
      <4> QED BY <1>3, <1>8, <1>9, <2>1, <4>1
    <3>3. X \in JointDates(Accounts, Nothing, M)
      <4>1. MemberDates(M) # {}
        BY <1>6 DEF all
      <4> QED BY <2>0, <4>1, JointDate DEF all
    <3> HIDE DEF last
    <3> QED BY <1>5, <1>13, <1>14, <2>0, <2>1, <3>1, <3>2, <3>3 DEF last, first, all, M, X
  <2>2. CASE ~(X <= end)
    <3>1. last = end
      BY <1>3, <1>8, <2>2 DEF Lesser
    <3>2. YearOf(end) < YearOf(X)
      <4>1. YearOf(end) <= YearOf(X) /\ YearOf(end) # YearOf(X)
        BY <1>3, <1>8, <1>9, <2>2
      <4> QED BY <1>3, <1>8, <1>9, <4>1
    <3>3. YearEndBetween(end, first, X)
      BY <3>2 DEF YearEndBetween, first, all, M
    <3>4. YearEndBetween(d, first, X) /\ d <= end <=> d = end \/ YearEndBetween(d, first, end)
      <4>1. ASSUME YearEndBetween(d, first, X), d <= end, d # end PROVE YearEndBetween(d, first, end)
        <5>1. d \in YearEnds /\ d \in Dates /\ (\A e \in Dates : YearOf(e) = YearOf(d) => e <= d)
          BY <4>1, YearEndIs DEF YearEndBetween
        <5>2. YearOf(d) <= YearOf(end) /\ YearOf(d) # YearOf(end)
          BY <1>3, <1>9, <4>1, <5>1
        <5>3. YearOf(d) < YearOf(end)
          BY <1>3, <1>9, <5>1, <5>2
        <5> QED BY <4>1, <5>3 DEF YearEndBetween
      <4>2. ASSUME YearEndBetween(d, first, end) PROVE YearEndBetween(d, first, X) /\ d <= end
        <5>1. d \in YearEnds /\ d \in Dates /\ YearOf(d) < YearOf(end)
          BY <4>2, YearEndIs DEF YearEndBetween
        <5>2. d <= end
          BY <1>3, <1>9, <5>1
        <5>3. YearOf(d) < YearOf(X)
          BY <1>3, <1>8, <1>9, <3>2, <5>1
        <5> QED BY <4>2, <5>2, <5>3 DEF YearEndBetween
      <4> QED BY <1>3, <3>3, <4>1, <4>2
    <3>5. end \in JointDates(Accounts, Nothing, M) /\ end <= end
      <4>1. MemberDates(M) # {}
        BY <1>6 DEF all
      <4> QED BY <1>3, <1>12, <3>3, <4>1, JointDate DEF all, first, X
    <3> HIDE DEF last
    <3>6. d \in JointDates(Accounts, from, end) <=>
             d \in some \/ d = end \/ YearEndBetween(d, first, end) \/ Border(d, from, first, end)
      BY <1>14, <3>1
    <3>7. d \in JointDates(Accounts, from, end) <=>
             (d \in JointDates(Accounts, Nothing, M) /\ d <= end) \/ Border(d, from, first, end)
      BY <1>5, <1>13, <3>4, <3>6
    <3> QED BY <3>1, <3>5, <3>7 DEF last, first, all, M, X
  <2> QED BY <2>1, <2>2

-----------------------------------------------------------------------------
(***************************************************************************)
(* The table of years.                                                     *)
(***************************************************************************)

\* Why an interval has no returns.
LEMMA UndefinedIs ==
    ASSUME NEW days, Days(days), NEW from \in Nat \cup {Nothing}, from # 0, ~Defined(days, from),
           NEW why, why = IF OpeningDay(days, from) = Nothing \/ days[OpeningDay(days, from)].assets = Nothing
                          THEN "missing_opening" ELSE "no_interval"
    PROVE  /\ ReturnsOf(days, from).profit = Unavailable(why)
           /\ ReturnsOf(days, from).dietz = Unavailable(why)
           /\ ReturnsOf(days, from).twr = Unavailable(why)
<1> DEFINE first == OpeningDay(days, from)
           start == Start(days, from)
           end == IF DOMAIN days = {} THEN Nothing ELSE Max(DOMAIN days)
           All(reason) == [from |-> start, to |-> end, curve |-> <<>>, profit |-> Unavailable(reason),
                           dietz |-> Unavailable(reason), twr |-> Unavailable(reason)]
<1>1. CASE first = Nothing \/ days[first].assets = Nothing
  <2>1. ReturnsOf(days, from) = All("missing_opening") /\ why = "missing_opening"
    BY <1>1 DEF ReturnsOf, Start
  <2> HIDE DEF start, end
  <2> QED BY <2>1
<1>2. CASE first # Nothing /\ days[first].assets # Nothing
  <2>1. ~(start < End(days))
    BY <1>2 DEF Defined
  <2>2. first \in DOMAIN days
    BY <1>2, OpeningIs
  <2>3. start \in Int /\ End(days) \in Int
    <3>1. End(days) \in DOMAIN days
      BY <2>2, EndIs
    <3>2. DOMAIN days \in SUBSET Nat
      BY DEF Days
    <3>3. from # Nothing => from \in Nat
      OBVIOUS
    <3> QED BY <2>2, <3>1, <3>2, <3>3 DEF Start
  <2>4. end = End(days) /\ end - start <= 0
    BY <2>1, <2>2, <2>3 DEF End
  <2>5. ReturnsOf(days, from) = All("no_interval") /\ why = "no_interval"
    BY <1>2, <2>4 DEF ReturnsOf, Start
  <2> HIDE DEF start, end
  <2> QED BY <2>5
<1> QED BY <1>1, <1>2

\* The days of others with, possibly, the day before the first of the analysis.
Bordered(days, others, from) ==
    /\ DOMAIN days # {}
    /\ \A d \in DOMAIN days : d \in DOMAIN others /\ others[d] = days[d] /\ days[d].assets \in Int
    /\ \A d \in DOMAIN others : d \in DOMAIN days \/
          /\ d = from - 1 /\ d <= End(days)
          /\ OpeningDay(days, from) # Nothing /\ others[d].assets = OpeningOf(days, from)

\* That day changes nothing but the day that opens.
LEMMA BorderedIs ==
    ASSUME NEW days, Days(days), NEW others, Days(others), NEW from \in Nat \ {0},
           Bordered(days, others, from)
    PROVE  /\ End(others) = End(days)
           /\ Start(others, from) = from - 1 /\ Start(days, from) = from - 1
           /\ OpeningDay(others, from) = Nothing <=> OpeningDay(days, from) = Nothing
           /\ OpeningDay(days, from) # Nothing =>
                 /\ OpeningOf(others, from) = OpeningOf(days, from)
                 /\ OpeningOf(days, from) \in Int
           /\ Defined(others, from) <=> Defined(days, from)
<1>0. from # Nothing /\ from \in Nat \cup {Nothing} /\ from \in Int
  BY ReturnsAssumption
<1>1. /\ DOMAIN days \in SUBSET Nat /\ DOMAIN others \in SUBSET Nat
      /\ DOMAIN others \in SUBSET Int /\ DOMAIN days \in SUBSET Int
      /\ IsFiniteSet(DOMAIN others) /\ DOMAIN days # {}
      /\ \A d \in DOMAIN others : d \in Int
  BY DEF Days, Bordered
<1>2. End(others) = End(days)
  <2>1. End(days) \in DOMAIN days /\ \A d \in DOMAIN days : d <= End(days)
    BY <1>1, EndIs
  <2>2. End(days) \in DOMAIN others /\ \A d \in DOMAIN others : d <= End(days)
    BY <2>1 DEF Bordered
  <2> QED BY <1>1, <2>2, MaxUnique DEF End
<1>3. Start(others, from) = from - 1 /\ Start(days, from) = from - 1
  BY <1>0 DEF Start
<1>4. ASSUME OpeningDay(days, from) # Nothing
      PROVE  /\ OpeningDay(others, from) # Nothing
             /\ OpeningOf(others, from) = OpeningOf(days, from)
             /\ OpeningOf(days, from) \in Int
  <2> DEFINE o == OpeningDay(days, from)
             p == OpeningDay(others, from)
  <2>1. o \in DOMAIN days /\ o < from /\ \A d \in DOMAIN days : d < from => d <= o
    BY <1>0, <1>4, OpeningIs
  <2>2. o \in DOMAIN others /\ days[o].assets \in Int
    BY <2>1 DEF Bordered
  <2>3. p # Nothing
    <3> DEFINE before == {d \in DOMAIN others : d < from}
    <3>1. o \in before /\ before \in SUBSET DOMAIN others
      BY <2>1, <2>2
    <3> HIDE DEF before
    <3>2. before # {} /\ before \in SUBSET Int /\ IsFiniteSet(before)
      BY <1>1, <3>1, FS_Subset
    <3>3. Max(before) \in Int
      BY <3>2, MaxIs
    <3>4. p = Max(before)
      BY <1>0, <3>2 DEF OpeningDay, before
    <3> QED BY <3>3, <3>4, ReturnsAssumption
  <2>4. p \in DOMAIN others /\ p < from /\ \A d \in DOMAIN others : d < from => d <= p
    BY <1>0, <2>3, OpeningIs
  <2>5. others[p].assets = days[o].assets
    <3>1. CASE p \in DOMAIN days
      <4>1. p <= o /\ o <= p /\ p \in Int /\ o \in Int
        BY <1>1, <2>1, <2>2, <2>4, <3>1
      <4>2. p = o
        BY <4>1
      <4> QED BY <2>1, <4>2 DEF Bordered
    <3>2. CASE p \notin DOMAIN days
      BY <2>4, <3>2 DEF Bordered, OpeningOf
    <3> QED BY <3>1, <3>2
  <2> QED BY <2>2, <2>3, <2>5 DEF OpeningOf
<1>5. ASSUME OpeningDay(others, from) # Nothing PROVE OpeningDay(days, from) # Nothing
  <2> DEFINE p == OpeningDay(others, from)
             before == {d \in DOMAIN days : d < from}
  <2>1. p \in DOMAIN others /\ p < from
    BY <1>0, <1>5, OpeningIs
  <2>2. CASE p \in DOMAIN days
    <3>1. p \in before /\ before \in SUBSET DOMAIN days
      BY <2>1, <2>2
    <3>2. IsFiniteSet(DOMAIN days)
      BY DEF Days
    <3> HIDE DEF before
    <3>3. before # {} /\ before \in SUBSET Int /\ IsFiniteSet(before)
      BY <1>1, <3>1, <3>2, FS_Subset
    <3>4. Max(before) \in Int
      BY <3>3, MaxIs
    <3>5. OpeningDay(days, from) = Max(before)
      BY <1>0, <3>3 DEF OpeningDay, before
    <3> QED BY <3>4, <3>5, ReturnsAssumption
  <2>3. CASE p \notin DOMAIN days
    BY <2>1, <2>3 DEF Bordered
  <2> QED BY <2>2, <2>3
<1>6. Defined(others, from) <=> Defined(days, from)
  <2>1. OpeningOf(days, from) \in Int => OpeningOf(days, from) # Nothing
    BY ReturnsAssumption
  <2> QED BY <1>2, <1>3, <1>4, <1>5, <2>1 DEF Defined, OpeningOf
<1> QED BY <1>2, <1>3, <1>4, <1>5, <1>6

\* The returns are the same.
LEMMA BorderCountsNothing ==
    ASSUME NEW days, Days(days), NEW others, Days(others), NEW from \in Nat \ {0},
           Bordered(days, others, from)
    PROVE  /\ ReturnsOf(others, from).profit = ReturnsOf(days, from).profit
           /\ ReturnsOf(others, from).dietz = ReturnsOf(days, from).dietz
           /\ ReturnsOf(others, from).twr = ReturnsOf(days, from).twr
<1> DEFINE start == from - 1
           end == End(days)
           opening == OpeningOf(days, from)
           W == Within(days, start, end)
<1>0. from \in Nat \cup {Nothing} /\ from # 0 /\ start \in Nat
  OBVIOUS
<1>1. /\ End(others) = end
      /\ Start(others, from) = start /\ Start(days, from) = start
      /\ OpeningDay(others, from) = Nothing <=> OpeningDay(days, from) = Nothing
      /\ OpeningDay(days, from) # Nothing => OpeningOf(others, from) = opening /\ opening \in Int
      /\ Defined(others, from) <=> Defined(days, from)
  BY BorderedIs
<1>2. CASE ~Defined(days, from)
  <2> DEFINE why(x) == IF OpeningDay(x, from) = Nothing \/ x[OpeningDay(x, from)].assets = Nothing
                       THEN "missing_opening" ELSE "no_interval"
  <2>1. why(days) = why(others)
    BY <1>1, ReturnsAssumption DEF OpeningOf
  <2>2. /\ ReturnsOf(days, from).profit = Unavailable(why(days))
        /\ ReturnsOf(days, from).dietz = Unavailable(why(days))
        /\ ReturnsOf(days, from).twr = Unavailable(why(days))
    BY <1>0, <1>2, UndefinedIs
  <2>3. /\ ReturnsOf(others, from).profit = Unavailable(why(others))
        /\ ReturnsOf(others, from).dietz = Unavailable(why(others))
        /\ ReturnsOf(others, from).twr = Unavailable(why(others))
    BY <1>0, <1>1, <1>2, UndefinedIs
  <2> HIDE DEF why
  <2> QED BY <2>1, <2>2, <2>3
<1>3. CASE Defined(days, from)
  <2>0. Defined(others, from) /\ OpeningOf(others, from) = opening
    BY <1>1, <1>3 DEF Defined
  <2>1. /\ end \in Nat /\ start < end /\ end \in After(days, start)
        /\ \A d \in DOMAIN days : d <= end
    <3>1. /\ End(days) \in Nat /\ Start(days, from) < End(days)
          /\ End(days) \in After(days, Start(days, from)) /\ \A d \in DOMAIN days : d <= End(days)
      BY <1>0, <1>3, DefinedIs
    <3> QED BY <1>1, <3>1
  <2>2. /\ DOMAIN days \in SUBSET Nat /\ DOMAIN others \in SUBSET Nat
        /\ \A d \in DOMAIN days : d \in DOMAIN others /\ others[d] = days[d]
        /\ \A d \in DOMAIN others : start < d => d \in DOMAIN days
    BY DEF Days, Bordered
  <2>3. end \in After(others, start) /\ others[end] = days[end] /\ end \in DOMAIN days
    BY <2>1, <2>2 DEF After
  <2>4. Within(others, start, end) = W /\ W \in SUBSET DOMAIN days /\ IsFiniteSet(W)
    <3>1. Within(others, start, end) = W
      BY <2>2 DEF Within
    <3>2. W \in SUBSET DOMAIN days /\ IsFiniteSet(DOMAIN days)
      BY DEF Within, Days
    <3> HIDE DEF W
    <3> QED BY <3>1, <3>2, FS_Subset
  <2>5. \A e \in W : Flows(others)[e] = Flows(days)[e] /\ WeightedFlows(others, end)[e] = WeightedFlows(days, end)[e]
    BY <2>2, <2>4 DEF Flows, WeightedFlows
  <2> HIDE DEF W
  <2>6. /\ SumFunctionOnSet(Flows(others), W) = SumFunctionOnSet(Flows(days), W)
        /\ SumFunctionOnSet(WeightedFlows(others, end), W) = SumFunctionOnSet(WeightedFlows(days, end), W)
    BY <2>4, <2>5, SumSame
  <2>7. /\ ProfitAt(others, opening, start, end) = ProfitAt(days, opening, start, end)
        /\ DenominatorAt(others, opening, start, end) = DenominatorAt(days, opening, start, end)
    BY <2>3, <2>4, <2>6 DEF ProfitAt, DenominatorAt, W
  <2>8. ChainOf(others, from)[end - 1] = ChainOf(days, from)[end - 1]
    <3> DEFINE m == end - 1
    <3>1. m \in Nat /\ m <= end /\ m \in 0 .. m
      BY <1>0, <2>1
    <3>2. SameDays(days, others, start, m)
      BY <2>2 DEF SameDays
    <3> HIDE DEF m, end, start, opening
    <3>3. Chain(others, start, end, opening)[m] = Chain(days, start, end, opening)[m]
      BY <1>0, <2>1, <3>1, <3>2, ChainSame
    <3>4. ChainOf(others, from) = Chain(others, start, end, opening) /\ ChainOf(days, from) = Chain(days, start, end, opening)
      BY <1>1, <2>0 DEF ChainOf, end, start, opening
    <3> QED BY <3>3, <3>4 DEF m
  <2>9. /\ ReturnsOf(days, from).profit = Fraction(ProfitAt(days, opening, start, end), 1)
        /\ ReturnsOf(days, from).dietz = Dietz(ProfitAt(days, opening, start, end),
                                               DenominatorAt(days, opening, start, end), end - start + 1)
        /\ ReturnsOf(days, from).twr = CurvePoint(ChainOf(days, from)[end - 1], opening, end - start, days[end]).twr
    <3>1. /\ ReturnsOf(days, from).profit =
                Fraction(ProfitAt(days, OpeningOf(days, from), Start(days, from), End(days)), 1)
          /\ ReturnsOf(days, from).dietz =
                Dietz(ProfitAt(days, OpeningOf(days, from), Start(days, from), End(days)),
                      DenominatorAt(days, OpeningOf(days, from), Start(days, from), End(days)),
                      End(days) - Start(days, from) + 1)
          /\ ReturnsOf(days, from).twr = ReturnsOf(days, from).curve[End(days)].twr
      BY <1>0, <1>3, ReturnsIs
    <3>2. ReturnsOf(days, from).curve[end].twr =
             CurvePoint(ChainOf(days, from)[end - 1], OpeningOf(days, from), end - Start(days, from), days[end]).twr
      <4>1. end \in After(days, Start(days, from))
        BY <1>1, <2>1
      <4> HIDE DEF end
      <4> QED BY <1>0, <1>3, <4>1, PointIs
    <3> QED BY <1>1, <3>1, <3>2
  <2>10. /\ ReturnsOf(others, from).profit = Fraction(ProfitAt(others, opening, start, end), 1)
         /\ ReturnsOf(others, from).dietz = Dietz(ProfitAt(others, opening, start, end),
                                                  DenominatorAt(others, opening, start, end), end - start + 1)
         /\ ReturnsOf(others, from).twr = CurvePoint(ChainOf(others, from)[end - 1], opening, end - start, others[end]).twr
    <3>1. /\ ReturnsOf(others, from).profit =
                Fraction(ProfitAt(others, OpeningOf(others, from), Start(others, from), End(others)), 1)
          /\ ReturnsOf(others, from).dietz =
                Dietz(ProfitAt(others, OpeningOf(others, from), Start(others, from), End(others)),
                      DenominatorAt(others, OpeningOf(others, from), Start(others, from), End(others)),
                      End(others) - Start(others, from) + 1)
          /\ ReturnsOf(others, from).twr = ReturnsOf(others, from).curve[End(others)].twr
      BY <1>0, <2>0, ReturnsIs
    <3>2. ReturnsOf(others, from).curve[end].twr =
             CurvePoint(ChainOf(others, from)[end - 1], OpeningOf(others, from), end - Start(others, from), others[end]).twr
      <4>1. end \in After(others, Start(others, from))
        BY <1>1, <2>3
      <4> HIDE DEF end
      <4> QED BY <1>0, <2>0, <4>1, PointIs
    <3> QED BY <1>1, <2>0, <3>1, <3>2
  <2> HIDE DEF end, start, opening
  <2> QED BY <2>3, <2>7, <2>8, <2>9, <2>10
<1> QED BY <1>2, <1>3

\* What the members have on a day does not depend on the end of the analysis.
LEMMA HeldCut ==
    ASSUME AllKept, NEW to \in Dates, NEW t \in Dates, t <= to, NEW d \in Int, d <= t
    PROVE  /\ SumFunctionOnSet(Holdings(t, d), Accounts) = SumFunctionOnSet(Holdings(to, d), Accounts)
           /\ SumFunctionOnSet(Payments(t, d), Accounts) = SumFunctionOnSet(Payments(to, d), Accounts)
<1>1. to \in Nat /\ t \in Nat /\ t \in Int /\ IsFiniteSet(Accounts)
  BY ReturnsAssumption, RatesAssumption
<1>2. ASSUME NEW a \in Accounts
      PROVE  Holdings(t, d)[a] = Holdings(to, d)[a] /\ Payments(t, d)[a] = Payments(to, d)[a]
  <2> DEFINE x == Normalized(a, t)
             y == Normalized(a, to)
  <2>1. /\ \A e : e \in DOMAIN x <=> e \in DOMAIN y /\ e <= t
        /\ \A e \in DOMAIN x : x[e] = y[e]
    BY <1>1, NormalizedCut DEF AllKept, Kept
  <2>2. MemberDays(y)
    BY <1>1, MembersDays DEF AllKept, Kept
  <2> HIDE DEF x, y
  <2>3. \A e \in DOMAIN y : e \in Int
    BY <2>2 DEF MemberDays
  <2>4. {e \in DOMAIN x : e <= d} = {e \in DOMAIN y : e <= d}
    BY <1>1, <2>1, <2>3
  <2>5. AsOf(x, d) = AsOf(y, d)
    BY <2>4 DEF AsOf
  <2>6. AsOf(x, d) # Nothing => x[AsOf(x, d)] = y[AsOf(x, d)]
    <3> SUFFICES ASSUME AsOf(x, d) # Nothing PROVE AsOf(x, d) \in DOMAIN x
      BY <2>1
    <3> DEFINE S == {e \in DOMAIN x : e <= d}
    <3>1. S # {} /\ AsOf(x, d) = Max(S)
      BY DEF AsOf
    <3>2. S \in SUBSET DOMAIN y
      BY <2>4
    <3>3. S \in SUBSET Int /\ IsFiniteSet(S)
      <4>1. IsFiniteSet(DOMAIN y)
        BY <2>2 DEF MemberDays
      <4> HIDE DEF S
      <4> QED BY <2>3, <3>2, <4>1, FS_Subset
    <3>4. S \in SUBSET DOMAIN x
      OBVIOUS
    <3> HIDE DEF S
    <3>5. Max(S) \in S
      BY <3>1, <3>3, MaxIs
    <3> QED BY <3>1, <3>4, <3>5
  <2>7. AssetsAsOf(x, d) = AssetsAsOf(y, d)
    BY <2>5, <2>6 DEF AssetsAsOf
  <2>8. FlowOn(x, d) = FlowOn(y, d)
    BY <2>1 DEF FlowOn
  <2> QED BY <2>7, <2>8 DEF Holdings, Payments, x, y
<1> QED BY <1>1, <1>2, SumSame

\* The end of a year comes after the dates of earlier years.
LEMMA YearEndAfter ==
    ASSUME NEW e \in YearEnds, NEW d \in Dates, YearOf(d) <= YearOf(e)
    PROVE  d <= e /\ e \in Dates
<1>1. e \in Dates /\ \A c \in Dates : YearOf(c) = YearOf(e) => c <= e
  BY YearEndIs
<1>2. /\ d \in Int /\ e \in Int /\ YearOf(d) \in Int /\ YearOf(e) \in Int
      /\ e <= d => YearOf(e) <= YearOf(d)
  BY <1>1, ReturnsAssumption, YearsAssumption
<1>3. CASE YearOf(d) = YearOf(e)
  BY <1>1, <1>3
<1>4. CASE YearOf(d) # YearOf(e)
  BY <1>1, <1>2, <1>4
<1> QED BY <1>3, <1>4

\* The table begins with the first date of a member.
LEMMA FirstDate ==
    ASSUME AllKept, EndKnown(Accounts, Max(Dates)), MemberDates(Max(Dates)) # {}
    PROVE  /\ Min(MemberDates(Max(Dates))) \in JointDates(Accounts, Nothing, Max(Dates))
           /\ Min(MemberDates(Max(Dates))) \in Dates
           /\ \A d \in JointDates(Accounts, Nothing, Max(Dates)) : Min(MemberDates(Max(Dates))) <= d
<1> DEFINE M == Max(Dates)
           all == MemberDates(M)
           first == Min(all)
<1>1. LastDay \in all /\ Dates # {}
  BY LastDayCounts
<1>2. M \in Dates /\ M \in Nat /\ \A e \in Dates : e <= M /\ e \in Nat
  <2>1. IsFiniteSet(Dates) /\ \A e \in Dates : e \in Nat /\ e \in Int
    BY ReturnsAssumption
  <2>2. M \in Dates /\ \A e \in Dates : e <= M
    BY <1>1, <2>1, MaxIs
  <2> QED BY <2>1, <2>2
<1>3. all \in SUBSET Dates /\ all \in SUBSET Int /\ IsFiniteSet(all) /\ all # {}
  <2> HIDE DEF M
  <2> QED BY <1>1, <1>2, MemberDatesAre
<1>4. \A d : d \in JointDates(Accounts, Nothing, M) <=>
         \/ d \in all
         \/ d = Lesser(M, LastDay)
         \/ YearEndBetween(d, first, Lesser(M, LastDay))
         \/ Border(d, Nothing, first, Lesser(M, LastDay))
  BY JointDate
<1> HIDE DEF all, M
<1>5. first \in all /\ \A e \in all : first <= e
  BY <1>3, MinIs
<1> HIDE DEF first
<1>6. Lesser(M, LastDay) \in all
  <2>1. LastDay \in Dates /\ LastDay <= M /\ LastDay \in Nat
    BY <1>1, <1>2, <1>3
  <2>2. Lesser(M, LastDay) = LastDay
    BY <1>2, <2>1 DEF Lesser
  <2> QED BY <1>1, <2>2
<1>7. ASSUME NEW d \in JointDates(Accounts, Nothing, M) PROVE first <= d
  <2>1. CASE d \in all
    BY <1>5, <2>1
  <2>2. CASE d \notin all
    <3>1. d \in YearEnds /\ YearOf(first) <= YearOf(d)
      BY <1>4, <1>6, <2>2 DEF YearEndBetween, Border
    <3> QED BY <1>3, <1>5, <3>1, YearEndAfter
  <2> QED BY <2>1, <2>2
<1>8. first \in JointDates(Accounts, Nothing, M) /\ first \in Dates
  BY <1>3, <1>4, <1>5
<1> QED BY <1>7, <1>8 DEF first, all, M

\* The days of the table up to the end of a year, and those of an analysis that ends there.
Table == Joint(Accounts, Nothing, Max(Dates))
YearDays(end) == Until(Table, end)
CustomDays(from, end) == Joint(Accounts, from, end)

\* What there is to a year of the table.
TableYear(end) ==
    /\ AllKept /\ EndKnown(Accounts, Max(Dates)) /\ MemberDates(Max(Dates)) # {}
    /\ end \in YearEnds /\ YearOf(Min(MemberDates(Max(Dates)))) <= YearOf(end)

\* Both are days of the members; on those of the table the analysis has the same point.
LEMMA YearDaysAre ==
    ASSUME NEW end, TableYear(end), NEW from \in Dates \cup {Nothing}
    PROVE  /\ Typed /\ Max(Dates) \in Dates /\ end \in Dates /\ end <= Max(Dates) /\ end \in Int
           /\ Days(YearDays(end)) /\ Days(CustomDays(from, end))
           /\ DOMAIN YearDays(end) # {}
           /\ \A d : d \in DOMAIN YearDays(end) <=> d \in JointDates(Accounts, Nothing, Max(Dates)) /\ d <= end
           /\ \A d : d \in DOMAIN CustomDays(from, end) <=>
                        \/ d \in DOMAIN YearDays(end)
                        \/ Border(d, from, Min(MemberDates(Max(Dates))), Lesser(end, LastDay))
           /\ Lesser(end, LastDay) \in DOMAIN YearDays(end)
           /\ \A d \in DOMAIN YearDays(end) :
                 /\ CustomDays(from, end)[d] = YearDays(end)[d]
                 /\ YearDays(end)[d].assets = SumFunctionOnSet(Holdings(Max(Dates), d), Accounts)
                 /\ YearDays(end)[d].assets \in Int
           /\ \A d \in DOMAIN CustomDays(from, end) : d <= end =>
                 CustomDays(from, end)[d].assets = SumFunctionOnSet(Holdings(Max(Dates), d), Accounts)
<1> DEFINE M == Max(Dates)
           last == Lesser(end, LastDay)
           first == Min(MemberDates(M))
           B == YearDays(end)
           C == CustomDays(from, end)
           D == JointDates(Accounts, Nothing, M)
<1>1. Typed
  BY DEF Typed, TableYear, AllKept, Kept
<1>2. end \in Dates /\ M \in Dates /\ end <= M /\ end \in Int
  <2>1. IsFiniteSet(Dates) /\ \A e \in Dates : e \in Int
    BY ReturnsAssumption
  <2>2. end \in Dates
    BY YearEndIs DEF TableYear
  <2> QED BY <2>1, <2>2, MaxIs
<1>3. Nothing \in Dates \cup {Nothing}
  OBVIOUS
<1>4. /\ DOMAIN Table = D /\ Days(Table)
      /\ \A d \in D :
            /\ Table[d] = Point(SumFunctionOnSet(Holdings(M, d), Accounts), SumFunctionOnSet(Payments(M, d), Accounts))
            /\ Table[d].assets = SumFunctionOnSet(Holdings(M, d), Accounts)
            /\ Table[d].assets \in Int
  <2> HIDE DEF M
  <2> QED BY <1>1, <1>2, <1>3, JointIs DEF Table, M
<1>5. /\ DOMAIN C = JointDates(Accounts, from, end) /\ Days(C)
      /\ \A d \in DOMAIN C :
            /\ C[d] = Point(SumFunctionOnSet(Holdings(end, d), Accounts), SumFunctionOnSet(Payments(end, d), Accounts))
            /\ C[d].assets = SumFunctionOnSet(Holdings(end, d), Accounts)
  BY <1>1, <1>2, JointIs DEF CustomDays
<1>6. /\ Days(B) /\ \A d : d \in DOMAIN B <=> d \in D /\ d <= end
      /\ \A d \in DOMAIN B : B[d] = Table[d]
  <2>1. /\ Days(B) /\ \A d : d \in DOMAIN B <=> d \in DOMAIN Table /\ d <= end
        /\ \A d \in DOMAIN Table : d <= end => B[d] = Table[d]
    BY <1>2, <1>4, UntilIs DEF YearDays
  <2> HIDE DEF B, D
  <2> QED BY <1>4, <2>1
<1>7. /\ \A d : d \in DOMAIN C <=> d \in DOMAIN B \/ Border(d, from, first, last)
      /\ last \in DOMAIN B
  <2>1. \A d : d \in JointDates(Accounts, from, end) <=>
                   (d \in D /\ d <= end) \/ Border(d, from, first, last)
    BY YearDates DEF TableYear
  <2>2. last \in D /\ last <= end
    BY YearDates DEF TableYear
  <2> HIDE DEF B, C, D, last, first
  <2> QED BY <1>5, <1>6, <2>1, <2>2
<1>8. \A d \in Int : d <= end =>
         /\ SumFunctionOnSet(Holdings(end, d), Accounts) = SumFunctionOnSet(Holdings(M, d), Accounts)
         /\ SumFunctionOnSet(Payments(end, d), Accounts) = SumFunctionOnSet(Payments(M, d), Accounts)
  <2>1. AllKept
    BY DEF TableYear
  <2> HIDE DEF M
  <2> QED BY <1>2, <2>1, HeldCut
<1>9. \A d \in DOMAIN C : d \in Int
  BY <1>5 DEF Days
<1> HIDE DEF B, C, D, M, last, first
<1>10. \A d \in DOMAIN C : d <= end => C[d].assets = SumFunctionOnSet(Holdings(M, d), Accounts)
  BY <1>5, <1>8, <1>9
<1>11. ASSUME NEW d \in DOMAIN B
       PROVE  /\ C[d] = B[d] /\ B[d].assets = SumFunctionOnSet(Holdings(M, d), Accounts) /\ B[d].assets \in Int
  <2>1. d \in DOMAIN C /\ d \in D /\ d <= end /\ B[d] = Table[d] /\ d \in Int
    BY <1>6, <1>7, <1>9
  <2> QED BY <1>4, <1>5, <1>8, <2>1
<1> QED BY <1>1, <1>2, <1>5, <1>6, <1>7, <1>10, <1>11 DEF B, C, D, M, last, first

\* The day before the first of the year has the assets with which the year opens: no day of
\* a member lies between.
LEMMA BorderHeld ==
    ASSUME NEW end, TableYear(end), NEW from \in Dates,
           Border(from - 1, from, Min(MemberDates(Max(Dates))), Lesser(end, LastDay))
    PROVE  /\ OpeningDay(YearDays(end), from) # Nothing
           /\ SumFunctionOnSet(Holdings(Max(Dates), from - 1), Accounts) = OpeningOf(YearDays(end), from)
<1> DEFINE M == Max(Dates)
           D == JointDates(Accounts, Nothing, M)
           first == Min(MemberDates(M))
           last == Lesser(end, LastDay)
           B == YearDays(end)
           o == OpeningDay(B, from)
<1>0. from \in Dates \cup {Nothing} /\ from \in Nat \cup {Nothing} /\ from \in Int /\ from # Nothing
  BY ReturnsAssumption
<1>1. /\ Typed /\ M \in Dates /\ end \in Int /\ Days(B)
      /\ \A d : d \in DOMAIN B <=> d \in D /\ d <= end
      /\ last \in DOMAIN B
      /\ \A d \in DOMAIN B : B[d].assets = SumFunctionOnSet(Holdings(M, d), Accounts)
  BY <1>0, YearDaysAre
<1>2. \A d \in DOMAIN B : d \in Int
  BY <1>1 DEF Days
<1>3. first <= from - 1 /\ from - 1 <= last
  BY DEF Border
<1>4. first \in D /\ first \in Int
  <2>1. first \in D /\ first \in Dates
    BY FirstDate DEF TableYear
  <2>2. \A d \in Dates : d \in Int
    BY ReturnsAssumption
  <2> HIDE DEF first, D
  <2> QED BY <2>1, <2>2
<1>5. \A a \in Accounts : DOMAIN Normalized(a, M) \in SUBSET D
  <2> HIDE DEF M
  <2> QED BY <1>1, JointDatesAre DEF D
<1>6. M \in Nat /\ IsFiniteSet(Accounts)
  BY <1>1, ReturnsAssumption, RatesAssumption
<1> HIDE DEF M, D, first, last, B
<1>7. first \in DOMAIN B /\ first < from
  BY <1>0, <1>1, <1>2, <1>3, <1>4
<1>8. o # Nothing
  <2> DEFINE before == {d \in DOMAIN B : d < from}
  <2>1. first \in before /\ before \in SUBSET DOMAIN B /\ IsFiniteSet(DOMAIN B)
    BY <1>1, <1>7 DEF Days
  <2> HIDE DEF before
  <2>2. before # {} /\ before \in SUBSET Int /\ IsFiniteSet(before)
    BY <1>2, <2>1, FS_Subset
  <2>3. Max(before) \in Int
    BY <2>2, MaxIs
  <2>4. o = Max(before)
    BY <1>0, <2>2 DEF OpeningDay, before
  <2> QED BY <2>3, <2>4, ReturnsAssumption
<1>9. o \in DOMAIN B /\ o < from /\ \A d \in DOMAIN B : d < from => d <= o
  BY <1>0, <1>1, <1>8, OpeningIs
<1> HIDE DEF o
<1>10. o \in Int /\ from - 1 \in Int /\ last \in Int /\ last <= end
  BY <1>0, <1>1, <1>2, <1>9
<1>11. ASSUME NEW a \in Accounts PROVE Holdings(M, from - 1)[a] = Holdings(M, o)[a]
  <2>1. MemberDays(Normalized(a, M))
    BY <1>1, <1>6, MembersDays DEF Typed
  <2>2. \A d \in DOMAIN Normalized(a, M) : d <= o <=> d <= from - 1
    <3> SUFFICES ASSUME NEW d \in DOMAIN Normalized(a, M) PROVE d <= o <=> d <= from - 1
      OBVIOUS
    <3>1. d \in D
      BY <1>5
    <3>2. d \in Int
      BY <2>1 DEF MemberDays
    <3>3. d <= from - 1 => d \in DOMAIN B
      BY <1>0, <1>1, <1>3, <1>10, <3>1, <3>2
    <3> QED BY <1>0, <1>9, <1>10, <3>2, <3>3
  <2>3. AssetsAsOf(Normalized(a, M), from - 1) = AssetsAsOf(Normalized(a, M), o)
    BY <1>10, <2>1, <2>2, AsOfIs
  <2> QED BY <2>3 DEF Holdings
<1>12. SumFunctionOnSet(Holdings(M, from - 1), Accounts) = SumFunctionOnSet(Holdings(M, o), Accounts)
  BY <1>6, <1>11, SumSame
<1> QED BY <1>1, <1>8, <1>9, <1>12 DEF OpeningOf, o, B, M

\* So a year of the table has the returns of an analysis that ends with it.
LEMMA YearIsCustom ==
    ASSUME NEW end, TableYear(end), NEW from \in Dates \cup {Nothing}
    PROVE  /\ ReturnsOf(CustomDays(from, end), from).profit = ReturnsOf(YearDays(end), from).profit
           /\ ReturnsOf(CustomDays(from, end), from).dietz = ReturnsOf(YearDays(end), from).dietz
           /\ ReturnsOf(CustomDays(from, end), from).twr = ReturnsOf(YearDays(end), from).twr
<1> DEFINE B == YearDays(end)
           C == CustomDays(from, end)
           first == Min(MemberDates(Max(Dates)))
           last == Lesser(end, LastDay)
<1>1. /\ Days(B) /\ Days(C) /\ DOMAIN B # {} /\ end \in Int
      /\ \A d : d \in DOMAIN C <=> d \in DOMAIN B \/ Border(d, from, first, last)
      /\ last \in DOMAIN B
      /\ \A d \in DOMAIN B : C[d] = B[d] /\ B[d].assets \in Int
  BY YearDaysAre
<1>2. \A d : d \in DOMAIN B => d <= end
  BY YearDaysAre
<1>3. \A d \in DOMAIN C : d <= end => C[d].assets = SumFunctionOnSet(Holdings(Max(Dates), d), Accounts)
  BY YearDaysAre
<1>4. CASE from = Nothing
  <2>1. DOMAIN C = DOMAIN B
    BY <1>1, <1>4 DEF Border
  <2>2. C = [d \in DOMAIN C |-> C[d]] /\ B = [d \in DOMAIN B |-> B[d]]
    BY DEF CustomDays, YearDays, Joint, Until
  <2> HIDE DEF B, C
  <2>3. C = B
    BY <1>1, <2>1, <2>2
  <2> QED BY <2>3 DEF B, C
<1>5. CASE from # Nothing
  <2>1. from \in Dates /\ from \in Nat \ {0}
    BY <1>5, ReturnsAssumption
  <2>2. End(B) \in DOMAIN B /\ \A d \in DOMAIN B : d <= End(B)
    BY <1>1, EndIs
  <2>3. ASSUME NEW d \in DOMAIN C, d \notin DOMAIN B
        PROVE  /\ d = from - 1 /\ d <= End(B)
               /\ OpeningDay(B, from) # Nothing /\ C[d].assets = OpeningOf(B, from)
    <3>1. Border(d, from, first, last)
      BY <1>1, <2>3
    <3>2. d = from - 1 /\ d <= last /\ Border(from - 1, from, first, last)
      BY <3>1 DEF Border
    <3>3. OpeningDay(B, from) # Nothing /\ SumFunctionOnSet(Holdings(Max(Dates), d), Accounts) = OpeningOf(B, from)
      BY <2>1, <3>2, BorderHeld
    <3>4. d \in Int /\ last \in Int /\ End(B) \in Int
      <4>1. \A e \in DOMAIN B : e \in Int
        BY <1>1 DEF Days
      <4> HIDE DEF B, last
      <4> QED BY <1>1, <2>1, <2>2, <3>2, <4>1
    <3>5. last <= End(B) /\ last <= end
      BY <1>1, <1>2, <2>2
    <3> HIDE DEF B, C, last
    <3>6. d <= end /\ d <= End(B)
      BY <1>1, <3>2, <3>4, <3>5
    <3>7. C[d].assets = OpeningOf(B, from)
      BY <1>3, <3>3, <3>6
    <3> QED BY <3>2, <3>3, <3>6, <3>7
  <2> HIDE DEF B, C, first, last
  <2>4. Bordered(B, C, from)
    BY <1>1, <2>3 DEF Bordered
  <2> QED BY <1>1, <2>1, <2>4, BorderCountsNothing DEF B, C
<1> QED BY <1>4, <1>5

\* A row of the table: the year is one of the table, and its interval starts with the year
\* or, for the first year, with what is known first.
LEMMA RowIs ==
    ASSUME AllKept, EndKnown(Accounts, Max(Dates)), NEW row \in Annual(Table)
    PROVE  LET year == {d \in Dates : YearOf(d) = row.year}
               from == IF row.result.from = Min(year) - 1 THEN Min(year) ELSE Nothing
           IN  /\ TableYear(Max(year)) /\ from \in Dates \cup {Nothing}
               /\ row.result = ReturnsOf(YearDays(Max(year)), from)
<1> DEFINE M == Max(Dates)
           D == JointDates(Accounts, Nothing, M)
           first == Min(MemberDates(M))
           known == {d \in DOMAIN Table : Table[d].assets # Nothing}
           Year(y) == {d \in Dates : YearOf(d) = y}
           From(y) == IF y = YearOf(Min(known)) THEN Nothing ELSE Min(Year(y))
           Row(y) == [year |-> y, result |-> ReturnsOf(Until(Table, Max(Year(y))), From(y))]
           Ys == {YearOf(d) : d \in Dates} \cap YearOf(Min(known)) .. YearOf(Max(DOMAIN Table))
<1>1. known # {} /\ row \in {Row(y) : y \in Ys}
  BY DEF Annual
<1>2. PICK y \in Ys : row = Row(y)
  BY <1>1
<1>3. row.year = y /\ row.result = ReturnsOf(YearDays(Max(Year(y))), From(y))
  <2> HIDE DEF Year, From
  <2> QED BY <1>2 DEF YearDays
<1> HIDE DEF Row
<1>4. D # {} /\ Dates # {}
  <2>1. DOMAIN Table = D
    BY DEF Table, Joint
  <2> QED BY <1>1, <1>2, <2>1
<1>5. MemberDates(M) # {}
  BY <1>4 DEF JointDates, MemberDates
<1>6. first \in D /\ first \in Dates /\ \A d \in D : first <= d
  BY <1>5, FirstDate
<1>7. M \in Dates
  BY <1>4, MaxIs, ReturnsAssumption
<1>8. /\ DOMAIN Table = D /\ Days(Table) /\ \A d \in D : Table[d].assets \in Int
  <2>1. Typed /\ Nothing \in Dates \cup {Nothing}
    BY DEF Typed, AllKept, Kept
  <2> HIDE DEF M
  <2> QED BY <1>7, <2>1, JointIs DEF Table, M, D
<1> HIDE DEF D, first, M
<1>9. Min(known) = first
  <2>1. known = D
    BY <1>8, ReturnsAssumption
  <2>2. D \in SUBSET Int /\ IsFiniteSet(D)
    BY <1>8 DEF Days
  <2> HIDE DEF known
  <2> QED BY <1>6, <2>1, <2>2, MinUnique
<1> HIDE DEF known
<1>10. y \in {YearOf(d) : d \in Dates} /\ y \in YearOf(first) .. YearOf(Max(DOMAIN Table))
  BY <1>9
<1>11. YearOf(first) \in Int /\ y \in Int /\ YearOf(first) <= y
  <2>1. \A d \in Dates : YearOf(d) \in Int
    BY YearsAssumption
  <2>2. YearOf(first) \in Int /\ y \in Int
    BY <1>6, <1>10, <2>1
  <2>3. y \in YearOf(first) .. YearOf(Max(DOMAIN Table)) => YearOf(first) <= y
    BY <2>2
  <2> QED BY <1>10, <2>2, <2>3
<1>12. Year(y) # {} /\ Year(y) \in SUBSET Dates /\ Year(y) \in SUBSET Int /\ IsFiniteSet(Year(y))
  <2>1. Year(y) # {} /\ Year(y) \in SUBSET Dates
    BY <1>10
  <2>2. IsFiniteSet(Dates) /\ Dates \in SUBSET Int
    BY ReturnsAssumption
  <2> HIDE DEF Year
  <2> QED BY <2>1, <2>2, FS_Subset
<1>13. \A d : d \in Year(y) <=> d \in Dates /\ YearOf(d) = y
  OBVIOUS
<1>14. {d \in Dates : YearOf(d) = row.year} = Year(y)
  BY <1>3
<1>15. Max(Year(y)) \in YearEnds /\ YearOf(Max(Year(y))) = y
  <2>1. Max(Year(y)) \in YearEnds
    BY <1>10 DEF YearEnds
  <2> HIDE DEF Year
  <2> QED BY <1>12, <1>13, <2>1, MaxIs
<1> HIDE DEF Year
<1>16. TableYear(Max(Year(y)))
  BY <1>5, <1>11, <1>15 DEF TableYear, first, M
<1>17. Min(Year(y)) \in Year(y) /\ \A d \in Year(y) : Min(Year(y)) <= d
  BY <1>12, MinIs
<1>18. Min(Year(y)) \in Dates /\ Min(Year(y)) \in Int
  BY <1>12, <1>17
<1>19. From(y) \in Dates \cup {Nothing} /\ From(y) \in Nat \cup {Nothing} /\ From(y) # 0
  BY <1>18, ReturnsAssumption
<1> DEFINE B == YearDays(Max(Year(y)))
<1>20. Days(B) /\ \A d : d \in DOMAIN B => d \in D
  BY <1>16, <1>19, YearDaysAre DEF D, M
<1>21. row.result.from = Start(B, From(y))
  <2> HIDE DEF B, From
  <2> QED BY <1>3, <1>19, <1>20, AvailableIs DEF B
<1>22. (IF row.result.from = Min(Year(y)) - 1 THEN Min(Year(y)) ELSE Nothing) = From(y)
  <2>1. CASE y = YearOf(first)
    <3>1. From(y) = Nothing
      BY <1>9, <2>1
    <3>2. row.result.from = OpeningDay(B, Nothing)
      <4> HIDE DEF B, From
      <4> QED BY <1>21, <3>1 DEF Start
    <3>3. Min(Year(y)) <= first
      BY <1>6, <1>13, <1>17, <2>1
    <3>4. row.result.from # Min(Year(y)) - 1
      <4>1. CASE row.result.from = Nothing
        BY <1>18, <4>1, ReturnsAssumption
      <4>2. CASE row.result.from # Nothing
        <5>1. OpeningDay(B, Nothing) \in DOMAIN B
          <6> HIDE DEF B
          <6> QED BY <1>20, <3>2, <4>2, OpeningIs
        <5>2. row.result.from \in D /\ first <= row.result.from
          BY <1>6, <1>20, <3>2, <5>1
        <5>3. row.result.from \in Int /\ first \in Int
          <6>1. \A d \in D : d \in Int
            BY <1>8 DEF Days
          <6> QED BY <1>6, <5>2, <6>1
        <5> QED BY <1>18, <3>3, <5>2, <5>3
      <4> QED BY <4>1, <4>2
    <3> QED BY <3>1, <3>4
  <2>2. CASE y # YearOf(first)
    <3>1. From(y) = Min(Year(y)) /\ From(y) # Nothing
      BY <1>9, <1>18, <2>2, ReturnsAssumption
    <3>2. row.result.from = From(y) - 1
      <4> HIDE DEF B, From
      <4> QED BY <1>21, <3>1 DEF Start
    <3> QED BY <3>1, <3>2
  <2> QED BY <2>1, <2>2
<1> HIDE DEF From
<1> QED BY <1>3, <1>14, <1>16, <1>19, <1>22

\* A year of the table of years is what an analysis of that year reports, also when it is
\* asked for by its first day.
THEOREM YearsAgree == Spec => []AnnualIsCustom
<1>1. ASSUME RecordsInv PROVE AnnualIsCustom
  <2> SUFFICES ASSUME Analysed(Accounts, Max(Dates)), NEW row \in Annual(Table)
               PROVE  LET year == {d \in Dates : YearOf(d) = row.year}
                          from == IF row.result.from = Min(year) - 1 THEN Min(year) ELSE Nothing
                      IN  \A custom \in {PortfolioReturn(Accounts, from, Max(year))} :
                             /\ Same(row.result.profit, custom.profit)
                             /\ Same(row.result.dietz, custom.dietz)
                             /\ Same(row.result.twr, custom.twr)
    BY DEF AnnualIsCustom, Table
  <2> DEFINE year == {d \in Dates : YearOf(d) = row.year}
             from == IF row.result.from = Min(year) - 1 THEN Min(year) ELSE Nothing
             end == Max(year)
  <2>1. AllKept /\ EndKnown(Accounts, Max(Dates))
    BY <1>1 DEF RecordsInv, AllKept, Analysed
  <2>2. TableYear(end) /\ from \in Dates \cup {Nothing} /\ row.result = ReturnsOf(YearDays(end), from)
    BY <2>1, RowIs
  <2> SUFFICES ASSUME NEW custom, custom = PortfolioReturn(Accounts, from, end)
               PROVE  /\ Same(row.result.profit, custom.profit)
                      /\ Same(row.result.dietz, custom.dietz)
                      /\ Same(row.result.twr, custom.twr)
    OBVIOUS
  <2> HIDE DEF from, end, year
  <2>3. custom = ReturnsOf(CustomDays(from, end), from)
    BY DEF PortfolioReturn, CustomDays
  <2>4. custom.profit = row.result.profit /\ custom.dietz = row.result.dietz /\ custom.twr = row.result.twr
    BY <2>2, <2>3, YearIsCustom
  <2>5. \A x : Same(x, x)
    BY DEF Same
  <2> QED BY <2>4, <2>5
<1> QED BY <1>1, RecordsOrdered, PTL
=============================================================================
