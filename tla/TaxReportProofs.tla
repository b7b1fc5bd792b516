-------------------------- MODULE TaxReportProofs --------------------------
(***************************************************************************)
(* Proofs about TaxReport, for any statements that validate admits, in any *)
(* number and order of imports and deletions.  Every report is computed    *)
(* anew from the rows, so what has to be proved is what the loop of        *)
(* Calculate does, row by row: Good says what it has found after some of   *)
(* the rows.                                                                *)
(***************************************************************************)
EXTENDS TaxReport, SumTheorems

-----------------------------------------------------------------------------
(***************************************************************************)
(* The rows of all statements, and their order.                            *)
(***************************************************************************)

\* The statements in a space are among those that can be imported.
TypeOK == imports \in Seq(Files)

\* Entries of several statements: rows that are told apart by where they stand.
Entry(e) == e.row \in Lines /\ e.name \in Nat /\ e.line \in Nat /\ e.import \in Nat
Entries(E) ==
    /\ IsFiniteSet(E)
    /\ \A e \in E : Entry(e)
    /\ \A e, f \in E : e.name = f.name /\ e.line = f.line /\ e.import = f.import => e = f

\* mergeRecords keeps such entries.
LEMMA MergedIs == ASSUME TypeOK PROVE Entries(Merged)
<1> DEFINE E == [n \in 1 .. Len(imports) |->
                    {[row |-> imports[n].rows[i], name |-> imports[n].name, line |-> i, import |-> n] :
                      i \in {j \in 1 .. Len(imports[n].rows) : Kept(n, j)}}]
<1>0. \A k \in Nat : IsFiniteSet(1 .. k)
  BY FS_Interval
<1>1. /\ Len(imports) \in Nat
      /\ \A n \in 1 .. Len(imports) : /\ imports[n] \in Files /\ imports[n].name \in Nat
                                      /\ imports[n].rows \in Seq(Lines) /\ Len(imports[n].rows) \in Nat
                                      /\ \A i \in 1 .. Len(imports[n].rows) : imports[n].rows[i] \in Lines
  <2>1. Len(imports) \in Nat /\ \A n \in 1 .. Len(imports) : imports[n] \in Files
    BY DEF TypeOK
  <2>2. \A file \in Files : file.name \in Nat /\ file.rows \in Seq(Lines)
    BY StatementsAssumption
  <2>3. \A s \in Seq(Lines) : Len(s) \in Nat /\ \A i \in 1 .. Len(s) : s[i] \in Lines
    OBVIOUS
  <2> QED BY <2>1, <2>2, <2>3
<1>2. Merged = UNION {E[n] : n \in 1 .. Len(imports)}
  BY DEF Merged
<1>3. ASSUME NEW n \in 1 .. Len(imports) PROVE IsFiniteSet(E[n])
  <2> DEFINE I == {j \in 1 .. Len(imports[n].rows) : Kept(n, j)}
             entry(i) == [row |-> imports[n].rows[i], name |-> imports[n].name, line |-> i, import |-> n]
             f == [i \in I |-> entry(i)]
  <2>1. IsFiniteSet(I)
    <3>1. IsFiniteSet(1 .. Len(imports[n].rows))
      BY <1>0, <1>1
    <3> QED BY <3>1, FS_Subset
  <2>2. E[n] = {f[i] : i \in I}
    OBVIOUS
  <2>3. f \in Surjection(I, E[n])
    BY <2>2 DEF Surjection
  <2> HIDE DEF f, I, E
  <2> QED BY <2>1, <2>3, FS_Surjection
<1>4. IsFiniteSet(Merged)
  <2> DEFINE f == [n \in 1 .. Len(imports) |-> E[n]]
             U == {E[n] : n \in 1 .. Len(imports)}
  <2>1. f \in Surjection(1 .. Len(imports), U)
    BY DEF Surjection
  <2>2. IsFiniteSet(1 .. Len(imports))
    BY <1>1, FS_Interval
  <2>3. IsFiniteSet(U)
    <3> HIDE DEF f, U
    <3> QED BY <2>1, <2>2, FS_Surjection
  <2>4. \A T \in U : IsFiniteSet(T)
    BY <1>3
  <2> HIDE DEF U
  <2>5. IsFiniteSet(UNION U)
    BY <2>3, <2>4, FS_UNION
  <2> QED BY <1>2, <2>5 DEF U
<1>5. \A e \in Merged : \E n \in 1 .. Len(imports) : \E i \in 1 .. Len(imports[n].rows) :
         e = [row |-> imports[n].rows[i], name |-> imports[n].name, line |-> i, import |-> n]
  BY <1>2
<1>6. \A e \in Merged : Entry(e)
  BY <1>1, <1>5 DEF Entry
<1>7. \A e, f \in Merged : e.name = f.name /\ e.line = f.line /\ e.import = f.import => e = f
  BY <1>5
<1> QED BY <1>4, <1>6, <1>7 DEF Entries

\* What validate admits, and what follows for the trades.
LEMMA RowIs ==
    ASSUME NEW e, Entry(e)
    PROVE  /\ e.row.date \in Dates /\ e.row.date \in Nat
           /\ e.row.currency \in Currencies
           /\ Trade(e) => /\ e.row.quantity \in Nat \ {0}
                          /\ e.row.amount \in Nat /\ e.row.fee \in Nat
                          /\ e.row.fee % e.row.quantity = 0
                          /\ e.row.kind = "fund" => ~Short(e)
                          /\ ~Dividend(e) /\ ~OtherFee(e)
           /\ Dividend(e) \/ OtherFee(e) => e.row.change \in Int
<1>1. Valid(e.row) /\ Dates \subseteq Nat
  BY StatementsAssumption, CalendarAssumption DEF Entry
<1>2. e.row.date \in Dates /\ e.row.date \in Nat /\ e.row.currency \in Currencies
  BY <1>1 DEF Valid
<1>3. ASSUME Trade(e)
      PROVE  /\ e.row.quantity \in Nat \ {0}
             /\ e.row.amount \in Nat /\ e.row.fee \in Nat
             /\ e.row.fee % e.row.quantity = 0
             /\ e.row.side \in Sides(e.row.kind)
             /\ ~Dividend(e) /\ ~OtherFee(e)
  BY <1>1, <1>3 DEF Valid, Trade, Dividend, OtherFee
<1>4. Trade(e) /\ e.row.kind = "fund" => ~Short(e)
  BY <1>3 DEF Sides, Short
<1>5. Dividend(e) \/ OtherFee(e) => e.row.change \in Int
  BY <1>1 DEF Valid, Dividend, OtherFee
<1> QED BY <1>2, <1>3, <1>4, <1>5

\* Two trades of a book are in one currency.
LEMMA BookCurrency ==
    ASSUME NEW e, Entry(e), NEW f, Entry(f), Trade(e), Trade(f), SameBook(e, f)
    PROVE  e.row.currency = f.row.currency
<1>1. e.row.kind # "cash" /\ f.row.kind # "cash"
  BY DEF Trade
<1> QED BY <1>1, StatementsAssumption DEF Entry, SameBook

LEMMA SomeEntries == ASSUME NEW E, Entries(E), NEW F \in SUBSET E PROVE Entries(F)
BY FS_Subset DEF Entries

\* The order of the loop, as a relation.
Earlier(E) == {p \in E \X E : Before(p[1], p[2])}

\* It is a strict linear order.
LEMMA InOrder ==
    ASSUME NEW E, Entries(E)
    PROVE  /\ \A e, f \in E : <<e, f>> \in Earlier(E) <=> Before(e, f)
           /\ \A e, f \in E : e # f => Before(e, f) \/ Before(f, e)
           /\ \A e \in E : ~Before(e, e)
           /\ \A e, f, g \in E : Before(e, f) /\ Before(f, g) => Before(e, g)
           /\ Linear(E, Earlier(E))
<1>1. \A e \in E : e.row.date \in Nat /\ e.name \in Nat /\ e.line \in Nat /\ e.import \in Nat
  BY RowIs DEF Entries, Entry
<1>2. \A e, f \in E : <<e, f>> \in Earlier(E) <=> Before(e, f)
  BY DEF Earlier
<1>3. \A e, f \in E : e # f => Before(e, f) \/ Before(f, e)
  <2>1. \A e, f \in E : e # f => e.name # f.name \/ e.line # f.line \/ e.import # f.import
    BY DEF Entries
  <2> QED BY <1>1, <2>1 DEF Before
<1>4. \A e \in E : ~Before(e, e)
  BY <1>1 DEF Before
<1>5. \A e, f, g \in E : Before(e, f) /\ Before(f, g) => Before(e, g)
  BY <1>1 DEF Before
<1> QED BY <1>2, <1>3, <1>4, <1>5 DEF Linear

\* Ordered lists every entry once, in the order of the loop.
LEMMA OrderedIs ==
    ASSUME NEW E, Entries(E)
    PROVE  /\ Cardinality(E) \in Nat
           /\ \A n \in 1 .. Cardinality(E) :
                 /\ Ordered(E)[n] \in E
                 /\ Rank(E, Earlier(E), Ordered(E)[n]) = n - 1
           /\ \A e \in E : \E n \in 1 .. Cardinality(E) : Ordered(E)[n] = e
           /\ \A m, n \in 1 .. Cardinality(E) : Before(Ordered(E)[m], Ordered(E)[n]) <=> m < n
<1> DEFINE N == Cardinality(E)
           R == Earlier(E)
           s == Ordered(E)
<1>1. IsFiniteSet(E) /\ Linear(E, R)
  BY InOrder DEF Entries
<1>2. /\ N \in Nat
      /\ \A x \in E : Rank(E, R, x) \in 0 .. N - 1
      /\ \A x, y \in E : <<x, y>> \in R <=> Rank(E, R, x) < Rank(E, R, y)
      /\ \A x, y \in E : Rank(E, R, x) = Rank(E, R, y) => x = y
      /\ \A n \in 0 .. N - 1 : \E x \in E : Rank(E, R, x) = n
  <2> HIDE DEF R
  <2> QED BY <1>1, RankIs
<1>3. \A e \in E : Cardinality({f \in E : Before(f, e)}) = Rank(E, R, e)
  <2>1. \A e \in E : {f \in E : Before(f, e)} = {f \in E : <<f, e>> \in R}
    BY InOrder
  <2> QED BY <2>1 DEF Rank
<1>4. \A n \in 1 .. N : s[n] = CHOOSE e \in E : Cardinality({f \in E : Before(f, e)}) = n - 1
  BY DEF Ordered
<1> HIDE DEF R, s, N
<1>5. ASSUME NEW n \in 1 .. N PROVE s[n] \in E /\ Rank(E, R, s[n]) = n - 1
  <2>1. n - 1 \in 0 .. N - 1
    BY <1>2
  <2>2. \E e \in E : Cardinality({f \in E : Before(f, e)}) = n - 1
    BY <1>2, <1>3, <2>1
  <2> QED BY <1>3, <1>4, <2>2
<1>6. ASSUME NEW e \in E PROVE \E n \in 1 .. N : s[n] = e
  <2>1. Rank(E, R, e) + 1 \in 1 .. N /\ Rank(E, R, e) \in Int
    BY <1>2
  <2>2. s[Rank(E, R, e) + 1] \in E /\ Rank(E, R, s[Rank(E, R, e) + 1]) = Rank(E, R, e)
    BY <1>5, <2>1
  <2> QED BY <1>2, <2>1, <2>2
<1>7. ASSUME NEW m \in 1 .. N, NEW n \in 1 .. N PROVE Before(s[m], s[n]) <=> m < n
  <2>1. s[m] \in E /\ s[n] \in E /\ Rank(E, R, s[m]) = m - 1 /\ Rank(E, R, s[n]) = n - 1
    BY <1>5
  <2>2. Before(s[m], s[n]) <=> <<s[m], s[n]>> \in R
    BY <2>1, InOrder DEF R
  <2> QED BY <1>2, <2>1, <2>2
<1> QED BY <1>2, <1>5, <1>6, <1>7 DEF N, R, s

-----------------------------------------------------------------------------
(***************************************************************************)
(* The loop.                                                               *)
(***************************************************************************)

Start == [lots |-> {}, matches |-> {}, missing |-> {}]

\* What is known of the loop up to its first n rows.
Runs(E, g, n) ==
    /\ g[0] = Start
    /\ \A k \in 1 .. n : g[k] = Counted(g[k - 1], Ordered(E)[k])

\* The recursion behind Progress has a solution.
LEMMA RunExists ==
    ASSUME NEW E, NEW N \in Nat
    PROVE  \E g : g = [n \in 0 .. N |-> IF n = 0 THEN Start ELSE Counted(g[n - 1], Ordered(E)[n])]
<1> DEFINE M == {n \in Nat : \E g : Runs(E, g, n)}
<1>1. 0 \in M
  <2>1. Runs(E, [n \in {0} |-> Start], 0)
    BY DEF Runs
  <2> QED BY <2>1
<1>2. ASSUME NEW n \in M PROVE n + 1 \in M
  <2>1. PICK g : Runs(E, g, n)
    OBVIOUS
  <2> DEFINE h == [k \in 0 .. n + 1 |-> IF k = n + 1 THEN Counted(g[n], Ordered(E)[n + 1]) ELSE g[k]]
  <2>2. h[0] = Start
    BY <2>1 DEF Runs
  <2>3. ASSUME NEW k \in 1 .. n + 1 PROVE h[k] = Counted(h[k - 1], Ordered(E)[k])
    <3>1. CASE k = n + 1
      BY <3>1
    <3>2. CASE k # n + 1
      <4>1. k \in 1 .. n /\ k - 1 \in 0 .. n /\ h[k] = g[k] /\ h[k - 1] = g[k - 1]
        BY <3>2
      <4> HIDE DEF h
      <4> QED BY <2>1, <4>1 DEF Runs
    <3> QED BY <3>1, <3>2
  <2>4. Runs(E, h, n + 1)
    BY <2>2, <2>3 DEF Runs
  <2>5. \E x : Runs(E, x, n + 1)
    <3> HIDE DEF h
    <3> QED BY <2>4
  <2> QED BY <2>5
<1>3. N \in M
  <2> HIDE DEF M
  <2>1. M \in SUBSET Nat
    BY DEF M
  <2> QED BY <1>1, <1>2, <2>1, AllNumbers
<1>4. PICK g : Runs(E, g, N)
  BY <1>3
<1> DEFINE r == [n \in 0 .. N |-> g[n]]
<1>5. r[0] = Start /\ \A n \in 1 .. N : r[n] = Counted(r[n - 1], Ordered(E)[n])
  BY <1>4 DEF Runs
<1>6. r = [n \in 0 .. N |-> IF n = 0 THEN Start ELSE Counted(r[n - 1], Ordered(E)[n])]
  <2>1. \A n \in 0 .. N : n # 0 => n \in 1 .. N
    OBVIOUS
  <2> QED BY <1>5, <2>1
<1> HIDE DEF r
<1> QED BY <1>6

\* The loop takes one entry after the other.
LEMMA ProgressIs ==
    ASSUME NEW E, Entries(E)
    PROVE  /\ Progress(E)[0] = Start
           /\ \A n \in 1 .. Cardinality(E) : Progress(E)[n] = Counted(Progress(E)[n - 1], Ordered(E)[n])
<1> DEFINE N == Cardinality(E)
           Solves(g) == g = [n \in 0 .. N |-> IF n = 0 THEN Start ELSE Counted(g[n - 1], Ordered(E)[n])]
<1>1. N \in Nat
  BY OrderedIs
<1>2. Progress(E) = CHOOSE g : Solves(g)
  BY DEF Progress, Start
<1>3. \E g : Solves(g)
  BY <1>1, RunExists, Zenon
<1>4. Solves(Progress(E))
  <2> HIDE DEF Solves
  <2> QED BY <1>2, <1>3
<1> HIDE DEF N
<1>5. ASSUME NEW n \in 0 .. N
      PROVE  Progress(E)[n] = IF n = 0 THEN Start ELSE Counted(Progress(E)[n - 1], Ordered(E)[n])
  BY <1>4, Zenon
<1>6. 0 \in 0 .. N /\ \A n \in 1 .. N : n \in 0 .. N /\ n # 0
  BY <1>1
<1> QED BY <1>5, <1>6 DEF N

-----------------------------------------------------------------------------
(***************************************************************************)
(* What a closing takes from its book.                                     *)
(***************************************************************************)

\* Shares of a multiple of the quantity are whole, and the whole share is all of it.
LEMMA Portions ==
    ASSUME NEW q \in Nat \ {0}
    PROVE  /\ \A x \in Int, p \in Int : Portion(x, p, q) \in Int
           /\ \A x \in Int : Portion(x, q, q) = x /\ Portion(x, 0, q) = 0
           /\ \A x \in Int : x % q = 0 => \A p \in Int : Portion(x, p, q) = (x \div q) * p
<1>1. \A x \in Int, p \in Int : Portion(x, p, q) \in Int
  BY DEF Portion
<1>2. \A k \in Int : (k * q) \div q = k
  OBVIOUS
<1>3. ASSUME NEW x \in Int PROVE Portion(x, q, q) = x /\ Portion(x, 0, q) = 0
  <2>1. x * 0 = 0 * q
    OBVIOUS
  <2> QED BY <1>2, <2>1 DEF Portion
<1>4. ASSUME NEW x \in Int, x % q = 0, NEW p \in Int PROVE Portion(x, p, q) = (x \div q) * p
  <2>1. x \div q \in Int /\ x = (x \div q) * q
    BY <1>4
  <2> DEFINE k == x \div q
  <2>2. \A a \in Int : (a * q) * p = (a * p) * q /\ a * p \in Int
    OBVIOUS
  <2>3. x * p = (k * p) * q /\ k * p \in Int
    <3> HIDE DEF k
    <3> QED BY <2>1, <2>2 DEF k
  <2> HIDE DEF k
  <2>4. Portion(x, p, q) = k * p
    BY <1>2, <2>3 DEF Portion
  <2> QED BY <2>4 DEF k
<1> QED BY <1>1, <1>3, <1>4

Opening(e) == Trade(e) /\ Opens(e)
Closing(e) == Trade(e) /\ ~Opens(e)

\* What the loop keeps, when it has counted the entries P.
Lot(P) == [of : {e \in P : Opening(e)}, quantity : Nat \ {0}, amount : Int, fee : Int]
Pair(P) == [open : {e \in P : Opening(e)}, close : {e \in P : Closing(e)}, quantity : Nat \ {0},
            cost : Int, proceeds : Int, openFee : Int, closeFee : Int]
Lack(P) == [of : {e \in P : Closing(e)}, quantity : Nat \ {0}, fee : Int]

Shape(P, c) ==
    /\ c \in [lots : SUBSET Lot(P), matches : SUBSET Pair(P), missing : SUBSET Lack(P)]
    /\ IsFiniteSet(c.lots) /\ IsFiniteSet(c.matches) /\ IsFiniteSet(c.missing)
    /\ \A l, m \in c.lots : l.of = m.of => l = m
    /\ \A m, n \in c.matches : m.open = n.open /\ m.close = n.close => m = n
    /\ \A u, v \in c.missing : u.of = v.of => u = v
    /\ \A m \in c.matches : SameBook(m.open, m.close) /\ Before(m.open, m.close)

\* The lots of a book: some lots of trades that are told apart by them.
Book(E, B) ==
    /\ IsFiniteSet(B) /\ B \in SUBSET Lot(E)
    /\ \A l, m \in B : l.of = m.of => l = m

\* What stands before x in the book.
Stock(B, x) == FieldSum({l \in B : Before(l.of, x)}, "quantity")

\* A closing takes no more than a lot has, and of all lots as much as they have.
LEMMA TakenIs ==
    ASSUME NEW E, Entries(E), NEW B, Book(E, B), NEW Q \in Nat
    PROVE  /\ \A l \in B : Stock(B, l.of) \in Int
           /\ \A l \in B : /\ Taken(B, l, Q) = Lesser(l.quantity, Positive(Q - Stock(B, l.of)))
                           /\ Taken(B, l, Q) \in 0 .. l.quantity
           /\ FieldSum(B, "quantity") \in Int
           /\ SumFunction([l \in B |-> Taken(B, l, Q)]) = Lesser(Q, FieldSum(B, "quantity"))
<1> DEFINE R == {p \in B \X B : Before(p[1].of, p[2].of)}
           q == [l \in B |-> l.quantity]
           G == [n \in Int |-> Lesser(Q, n)]
           w == [l \in B |-> Taken(B, l, Q)]
<1>1. \A l \in B : l.of \in E /\ l.quantity \in Nat \ {0}
  BY DEF Book, Lot
<1>2. Linear(B, R)
  <2>1. \A l, m \in B : <<l, m>> \in R <=> Before(l.of, m.of)
    OBVIOUS
  <2>2. \A l, m \in B : l # m => l.of # m.of
    BY DEF Book
  <2> HIDE DEF R
  <2>3. \A l, m \in B : l # m => <<l, m>> \in R \/ <<m, l>> \in R
    BY <1>1, <2>1, <2>2, InOrder
  <2>4. \A l \in B : <<l, l>> \notin R
    BY <1>1, <2>1, InOrder
  <2>5. \A l, m, n \in B : <<l, m>> \in R /\ <<m, n>> \in R => <<l, n>> \in R
    BY <1>1, <2>1, InOrder
  <2> QED BY <2>3, <2>4, <2>5 DEF Linear
<1>3. IsFiniteSet(B) /\ \A x : IsFiniteSet({l \in B : Before(l.of, x)})
  BY FS_Subset DEF Book
<1>4. ASSUME NEW x PROVE Stock(B, x) \in Int
  <2> DEFINE S == {l \in B : Before(l.of, x)}
  <2>1. IsFiniteSet(S) /\ \A l \in S : l.quantity \in Int
    BY <1>1, <1>3
  <2> HIDE DEF S
  <2>2. FieldSum(S, "quantity") \in Int
    BY <2>1, FieldInt
  <2> QED BY <2>2 DEF S, Stock
<1>5. ASSUME NEW l \in B PROVE SumBefore(q, B, R, l) = Stock(B, l.of)
  <2> DEFINE S == {m \in B : Before(m.of, l.of)}
  <2>1. S = {m \in B : <<m, l>> \in R}
    OBVIOUS
  <2>2. IsFiniteSet(S) /\ \A m \in S : q[m] = m.quantity
    BY <1>3
  <2> HIDE DEF S, q
  <2>3. FieldSum(S, "quantity") = SumFunctionOnSet(q, S)
    BY <2>2, FieldSumIs
  <2> QED BY <2>1, <2>3 DEF S, Stock, SumBefore
<1>6. ASSUME NEW l \in B
      PROVE  /\ Taken(B, l, Q) = Lesser(l.quantity, Positive(Q - Stock(B, l.of)))
             /\ Taken(B, l, Q) \in 0 .. l.quantity
             /\ w[l] = G[SumBefore(q, B, R, l) + q[l]] - G[SumBefore(q, B, R, l)]
  <2>1. Taken(B, l, Q) = Lesser(l.quantity, Positive(Q - Stock(B, l.of)))
    BY DEF Taken, SumOver, Stock, FieldSum
  <2> DEFINE s == Stock(B, l.of)
  <2>2. s \in Int /\ l.quantity \in Nat \ {0}
    BY <1>1, <1>4
  <2>3. w[l] = Taken(B, l, Q) /\ q[l] = l.quantity /\ SumBefore(q, B, R, l) = s
    BY <1>5
  <2>4. G[s + l.quantity] = Lesser(Q, s + l.quantity) /\ G[s] = Lesser(Q, s)
    BY <2>2
  <2>5. /\ Lesser(l.quantity, Positive(Q - s)) \in 0 .. l.quantity
        /\ Lesser(l.quantity, Positive(Q - s)) = Lesser(Q, s + l.quantity) - Lesser(Q, s)
    <3> HIDE DEF s
    <3> QED BY <2>2 DEF Lesser, Positive
  <2> HIDE DEF w, q, G, R, s
  <2> QED BY <2>1, <2>3, <2>4, <2>5 DEF s
<1>7. /\ \A l \in B : q[l] \in Int /\ q[l] = l.quantity
      /\ \A n \in Int : G[n] \in Int /\ G[n] = Lesser(Q, n)
      /\ DOMAIN w = B
  BY <1>1 DEF Lesser
<1> HIDE DEF w, q, G, R
<1>8. SumFunctionOnSet(w, B) = G[SumFunctionOnSet(q, B)] - G[0]
  BY <1>2, <1>3, <1>6, <1>7, Telescope
<1>9. SumFunctionOnSet(q, B) = FieldSum(B, "quantity") /\ SumFunctionOnSet(q, B) \in Int
  BY <1>3, <1>7, FieldSumIs, SumInt
<1>10. SumFunctionOnSet(w, B) = SumFunction(w)
  BY <1>7 DEF SumFunction
<1>11. SumFunction(w) = Lesser(Q, FieldSum(B, "quantity"))
  <2>1. G[0] = 0 /\ G[SumFunctionOnSet(q, B)] = Lesser(Q, FieldSum(B, "quantity"))
    BY <1>7, <1>9 DEF Lesser
  <2>2. Lesser(Q, FieldSum(B, "quantity")) \in Int
    BY <1>9 DEF Lesser
  <2> QED BY <1>8, <1>10, <2>1, <2>2
<1> QED BY <1>4, <1>6, <1>9, <1>11 DEF w

\* The lots of the book of a closing, what it takes of each, and what is left then.
BookOf(c, e) == {lot \in c.lots : SameBook(lot.of, e)}
Share(c, e) == [lot \in BookOf(c, e) |-> Taken(BookOf(c, e), lot, e.row.quantity)]
Parted(c, e) == {lot \in BookOf(c, e) : Share(c, e)[lot] < lot.quantity}
Used(c, e) == {lot \in BookOf(c, e) : Share(c, e)[lot] > 0}
Remains(c, e) == {Rest(lot, Share(c, e)[lot]) : lot \in Parted(c, e)}
Made(c, e) == {Match(lot, e, Share(c, e)[lot]) : lot \in Used(c, e)}
Wanting(c, e) == e.row.quantity - SumFunction(Share(c, e))
Lacking(c, e) ==
    IF Wanting(c, e) = 0 THEN {}
    ELSE {[of |-> e, quantity |-> Wanting(c, e), fee |-> Portion(e.row.fee, Wanting(c, e), e.row.quantity)]}

LEMMA CloseIs ==
    ASSUME NEW c, NEW e
    PROVE  Close(c, e) = [lots    |-> (c.lots \ BookOf(c, e)) \cup Remains(c, e),
                          matches |-> c.matches \cup Made(c, e),
                          missing |-> c.missing \cup Lacking(c, e)]
<1> DEFINE old == IF Wanting(c, e) = 0 THEN c.missing
                  ELSE c.missing \cup {[of |-> e, quantity |-> Wanting(c, e),
                                        fee |-> Portion(e.row.fee, Wanting(c, e), e.row.quantity)]}
<1>1. Close(c, e) = [lots    |-> (c.lots \ BookOf(c, e)) \cup Remains(c, e),
                     matches |-> c.matches \cup Made(c, e),
                     missing |-> old]
  BY Zenon DEF Close, BookOf, Share, Parted, Used, Remains, Made, Wanting
<1>2. old = c.missing \cup Lacking(c, e)
  BY DEF Lacking
<1> QED BY <1>1, <1>2

\* What is left of a lot, and what a match takes from it.
LEMMA RestIs ==
    ASSUME NEW P, NEW lot \in Lot(P), NEW n \in Nat, n < lot.quantity
    PROVE  /\ Rest(lot, n) \in Lot(P)
           /\ Rest(lot, n).of = lot.of
           /\ Rest(lot, n).quantity = lot.quantity - n
           /\ Rest(lot, n).fee = lot.fee - Portion(lot.fee, n, lot.quantity)
<1> DEFINE a == lot.amount - Portion(lot.amount, n, lot.quantity)
           f == lot.fee - Portion(lot.fee, n, lot.quantity)
<1>1. /\ lot.quantity \in Nat \ {0} /\ lot.amount \in Int /\ lot.fee \in Int
      /\ lot \in [of : {e \in P : Opening(e)}, quantity : Nat \ {0}, amount : Int, fee : Int]
  BY DEF Lot
<1>2. /\ lot.quantity - n \in Nat \ {0}
      /\ Portion(lot.amount, n, lot.quantity) \in Int
      /\ Portion(lot.fee, n, lot.quantity) \in Int
  <2>1. n \in Int /\ lot.quantity - n \in Nat \ {0}
    BY <1>1
  <2>2. \A x \in Int : Portion(x, n, lot.quantity) \in Int
    BY <1>1, <2>1, Portions
  <2> QED BY <1>1, <2>1, <2>2
<1>3. a \in Int /\ f \in Int
  BY <1>1, <1>2
<1>4. Rest(lot, n) = [lot EXCEPT !.quantity = lot.quantity - n, !.amount = a, !.fee = f]
  BY DEF Rest
<1> HIDE DEF a, f
<1>5. /\ Rest(lot, n).of = lot.of /\ Rest(lot, n).quantity = lot.quantity - n /\ Rest(lot, n).fee = f
      /\ Rest(lot, n) \in [of : {e \in P : Opening(e)}, quantity : Nat \ {0}, amount : Int, fee : Int]
  BY <1>1, <1>2, <1>3, <1>4
<1> QED BY <1>5 DEF f, Lot

LEMMA MatchIs ==
    ASSUME NEW P, NEW lot \in Lot(P), NEW e \in P, Entry(e), Closing(e), NEW n \in Nat \ {0}
    PROVE  /\ Match(lot, e, n) \in Pair(P)
           /\ Match(lot, e, n).open = lot.of /\ Match(lot, e, n).close = e
           /\ Match(lot, e, n).quantity = n
           /\ Match(lot, e, n).openFee = Portion(lot.fee, n, lot.quantity)
           /\ Match(lot, e, n).closeFee = Portion(e.row.fee, n, e.row.quantity)
<1>1. /\ lot.quantity \in Nat \ {0} /\ lot.amount \in Int /\ lot.fee \in Int
      /\ lot.of \in {x \in P : Opening(x)}
  BY DEF Lot
<1>2. e.row.quantity \in Nat \ {0} /\ e.row.amount \in Nat /\ e.row.fee \in Nat
  BY RowIs DEF Closing
<1>3. /\ Portion(lot.amount, n, lot.quantity) \in Int
      /\ Portion(lot.fee, n, lot.quantity) \in Int
      /\ Portion(e.row.amount, n, e.row.quantity) \in Int
      /\ Portion(e.row.fee, n, e.row.quantity) \in Int
  <2>1. n \in Int /\ e.row.amount \in Int /\ e.row.fee \in Int
    BY <1>2
  <2> QED BY <1>1, <1>2, <2>1, Portions
<1> QED BY <1>1, <1>3 DEF Match, Pair

\* A closing e that comes after the entries P, in the lots that they have left.
Due(E, P, c, e) ==
    /\ Entries(E) /\ P \in SUBSET E /\ e \in E /\ e \notin P
    /\ \A f \in P : Before(f, e)
    /\ Shape(P, c)

LEMMA BookIs ==
    ASSUME NEW E, NEW P, NEW c, NEW e, Due(E, P, c, e), Closing(e)
    PROVE  /\ Book(P, BookOf(c, e)) /\ Book(E, BookOf(c, e)) /\ BookOf(c, e) \in SUBSET c.lots
           /\ e.row.quantity \in Nat \ {0} /\ e.row.fee \in Nat /\ e.row.fee % e.row.quantity = 0
           /\ Entry(e)
           /\ \A lot \in BookOf(c, e) : /\ Share(c, e)[lot] \in 0 .. lot.quantity
                                        /\ lot.quantity \in Nat \ {0} /\ lot.fee \in Int
                                        /\ lot.of \in P /\ Opening(lot.of) /\ SameBook(lot.of, e)
           /\ Wanting(c, e) \in Nat
           /\ DOMAIN Share(c, e) = BookOf(c, e)
<1> DEFINE B == BookOf(c, e)
           Q == e.row.quantity
<1>1. /\ B \in SUBSET c.lots /\ IsFiniteSet(B) /\ c.lots \in SUBSET Lot(P)
      /\ \A l, m \in B : l.of = m.of => l = m
  BY FS_Subset DEF BookOf, Due, Shape
<1>2. P \in SUBSET E /\ Lot(P) \in SUBSET Lot(E) /\ Entry(e)
  BY DEF Due, Lot, Entries
<1>3. Book(P, B) /\ Book(E, B)
  BY <1>1, <1>2 DEF Book
<1>4. Q \in Nat \ {0} /\ e.row.fee \in Nat /\ e.row.fee % Q = 0
  BY <1>2, RowIs DEF Closing
<1>5. Share(c, e) = [lot \in B |-> Taken(B, lot, Q)]
  BY DEF Share
<1>6. \A lot \in B : /\ lot.quantity \in Nat \ {0} /\ lot.fee \in Int
                     /\ lot.of \in P /\ Opening(lot.of) /\ SameBook(lot.of, e)
  BY <1>1 DEF BookOf, Lot
<1> HIDE DEF B, Q
<1>7. /\ \A lot \in B : Taken(B, lot, Q) \in 0 .. lot.quantity
      /\ FieldSum(B, "quantity") \in Int
      /\ SumFunction(Share(c, e)) = Lesser(Q, FieldSum(B, "quantity"))
  <2>1. Entries(E) /\ Q \in Nat
    BY <1>4 DEF Due
  <2> QED BY <1>3, <1>5, <2>1, TakenIs
<1>8. Q - SumFunction(Share(c, e)) \in Nat
  BY <1>4, <1>7 DEF Lesser
<1> QED BY <1>1, <1>2, <1>3, <1>4, <1>5, <1>6, <1>7, <1>8 DEF B, Q, Wanting

\* What a closing leaves and makes has the shape of what was there.
LEMMA CloseShape ==
    ASSUME NEW E, NEW P, NEW c, NEW e, Due(E, P, c, e), Closing(e)
    PROVE  Shape(P \cup {e}, Close(c, e))
<1> DEFINE F == P \cup {e}
           B == BookOf(c, e)
           t == Share(c, e)
<1>1. /\ \A lot \in B : /\ lot \in Lot(F) /\ lot \in c.lots /\ t[lot] \in 0 .. lot.quantity
                        /\ lot.quantity \in Nat \ {0}
                        /\ lot.of \in P /\ SameBook(lot.of, e)
      /\ IsFiniteSet(B) /\ Wanting(c, e) \in Nat /\ Entry(e)
      /\ e.row.quantity \in Nat \ {0} /\ e.row.fee \in Int
  <2>1. Lot(P) \in SUBSET Lot(F)
    BY DEF Lot
  <2>2. /\ Book(P, B) /\ B \in SUBSET c.lots
        /\ \A lot \in B : /\ t[lot] \in 0 .. lot.quantity
                           /\ lot.quantity \in Nat \ {0}
                           /\ lot.of \in P /\ SameBook(lot.of, e)
        /\ Wanting(c, e) \in Nat /\ Entry(e)
        /\ e.row.quantity \in Nat \ {0} /\ e.row.fee \in Int
    BY BookIs
  <2> HIDE DEF B, t, F
  <2> QED BY <2>1, <2>2 DEF Book
<1>2. /\ c \in [lots : SUBSET Lot(P), matches : SUBSET Pair(P), missing : SUBSET Lack(P)]
      /\ IsFiniteSet(c.lots) /\ IsFiniteSet(c.matches) /\ IsFiniteSet(c.missing)
      /\ \A l, m \in c.lots : l.of = m.of => l = m
      /\ \A m, n \in c.matches : m.open = n.open /\ m.close = n.close => m = n
      /\ \A u, v \in c.missing : u.of = v.of => u = v
      /\ \A m \in c.matches : SameBook(m.open, m.close) /\ Before(m.open, m.close)
      /\ e \notin P /\ \A f \in P : Before(f, e)
  BY DEF Due, Shape
<1>3. /\ c.lots \in SUBSET Lot(F) /\ c.matches \in SUBSET Pair(F) /\ c.missing \in SUBSET Lack(F)
      /\ \A m \in c.matches : m.close # e
      /\ \A u \in c.missing : u.of # e
  BY <1>2 DEF Lot, Pair, Lack
<1> HIDE DEF F, B, t
<1>4. \A lot \in Parted(c, e) : /\ lot \in B
                                /\ Rest(lot, t[lot]) \in Lot(F)
                                /\ Rest(lot, t[lot]).of = lot.of
  <2> SUFFICES ASSUME NEW lot \in Parted(c, e)
               PROVE  lot \in B /\ Rest(lot, t[lot]) \in Lot(F) /\ Rest(lot, t[lot]).of = lot.of
    OBVIOUS
  <2>1. lot \in B /\ t[lot] < lot.quantity
    BY DEF Parted, B, t
  <2>2. lot \in Lot(F) /\ t[lot] \in Nat
    BY <1>1, <2>1
  <2> QED BY <2>1, <2>2, RestIs
<1>5. \A lot \in Used(c, e) : /\ lot \in B
                              /\ Match(lot, e, t[lot]) \in Pair(F)
                              /\ Match(lot, e, t[lot]).open = lot.of
                              /\ Match(lot, e, t[lot]).close = e
  <2> SUFFICES ASSUME NEW lot \in Used(c, e)
               PROVE  /\ lot \in B
                      /\ Match(lot, e, t[lot]) \in Pair(F)
                      /\ Match(lot, e, t[lot]).open = lot.of
                      /\ Match(lot, e, t[lot]).close = e
    OBVIOUS
  <2>1. lot \in B /\ t[lot] > 0
    BY DEF Used, B, t
  <2>2. lot \in Lot(F) /\ t[lot] \in Nat \ {0}
    BY <1>1, <2>1
  <2>3. e \in F /\ Entry(e)
    BY <1>1 DEF F
  <2> QED BY <2>1, <2>2, <2>3, MatchIs
<1>6. /\ \A r \in Remains(c, e) : \E lot \in Parted(c, e) : r = Rest(lot, t[lot])
      /\ \A m \in Made(c, e) : \E lot \in Used(c, e) : m = Match(lot, e, t[lot])
  BY DEF Remains, Made, t
<1>7. IsFiniteSet(Remains(c, e)) /\ IsFiniteSet(Made(c, e)) /\ IsFiniteSet(Lacking(c, e))
  <2>1. Parted(c, e) \in SUBSET B /\ Used(c, e) \in SUBSET B
    BY DEF Parted, Used, B
  <2>2. IsFiniteSet(Parted(c, e)) /\ IsFiniteSet(Used(c, e))
    BY <1>1, <2>1, FS_Subset
  <2> DEFINE r == [lot \in Parted(c, e) |-> Rest(lot, t[lot])]
             m == [lot \in Used(c, e) |-> Match(lot, e, t[lot])]
  <2>3. r \in Surjection(Parted(c, e), Remains(c, e)) /\ m \in Surjection(Used(c, e), Made(c, e))
    BY DEF Surjection, Remains, Made, t
  <2>4. IsFiniteSet(Lacking(c, e))
    BY FS_Singleton, FS_EmptySet DEF Lacking
  <2> HIDE DEF r, m
  <2> QED BY <2>2, <2>3, <2>4, FS_Surjection
<1>8. \A u \in Lacking(c, e) : u \in Lack(F) /\ u.of = e
  <2> DEFINE u == [of |-> e, quantity |-> Wanting(c, e), fee |-> Portion(e.row.fee, Wanting(c, e), e.row.quantity)]
  <2>1. CASE Wanting(c, e) = 0
    BY <2>1 DEF Lacking
  <2>2. CASE Wanting(c, e) # 0
    <3>1. Lacking(c, e) = {u}
      BY <2>2 DEF Lacking
    <3>2. Wanting(c, e) \in Int /\ Wanting(c, e) \in Nat \ {0}
      BY <1>1, <2>2
    <3>3. Portion(e.row.fee, Wanting(c, e), e.row.quantity) \in Int
      BY <1>1, <3>2, Portions
    <3>4. u \in Lack(F) /\ u.of = e
      BY <3>2, <3>3 DEF Lack, F
    <3> QED BY <3>1, <3>4
  <2> QED BY <2>1, <2>2
<1> DEFINE lots == (c.lots \ B) \cup Remains(c, e)
           matches == c.matches \cup Made(c, e)
           missing == c.missing \cup Lacking(c, e)
<1>9. /\ lots \in SUBSET Lot(F) /\ IsFiniteSet(lots)
      /\ \A l, m \in lots : l.of = m.of => l = m
  <2>1. lots \in SUBSET Lot(F)
    BY <1>3, <1>4, <1>6
  <2>2. IsFiniteSet(lots)
    <3>1. IsFiniteSet(c.lots \ B)
      BY <1>2, FS_Subset
    <3> QED BY <1>7, <3>1, FS_Union
  <2>3. \A l \in c.lots \ B, m \in Remains(c, e) : l.of # m.of
    BY <1>1, <1>2, <1>4, <1>6
  <2>4. \A l, m \in Remains(c, e) : l.of = m.of => l = m
    BY <1>1, <1>2, <1>4, <1>6
  <2> QED BY <1>2, <2>1, <2>2, <2>3, <2>4
<1>10. /\ matches \in SUBSET Pair(F) /\ IsFiniteSet(matches)
       /\ \A m, n \in matches : m.open = n.open /\ m.close = n.close => m = n
       /\ \A m \in matches : SameBook(m.open, m.close) /\ Before(m.open, m.close)
  <2>1. matches \in SUBSET Pair(F)
    BY <1>3, <1>5, <1>6
  <2>2. IsFiniteSet(matches)
    BY <1>2, <1>7, FS_Union
  <2>3. \A m \in Made(c, e) : m.close = e /\ SameBook(m.open, m.close) /\ Before(m.open, m.close)
    BY <1>1, <1>2, <1>5, <1>6
  <2>4. \A m, n \in Made(c, e) : m.open = n.open => m = n
    BY <1>1, <1>2, <1>5, <1>6
  <2> QED BY <1>2, <1>3, <2>1, <2>2, <2>3, <2>4
<1>11. /\ missing \in SUBSET Lack(F) /\ IsFiniteSet(missing)
       /\ \A u, v \in missing : u.of = v.of => u = v
  <2>1. missing \in SUBSET Lack(F)
    BY <1>3, <1>8
  <2>2. IsFiniteSet(missing)
    BY <1>2, <1>7, FS_Union
  <2>3. \A u, v \in Lacking(c, e) : u = v
    BY DEF Lacking
  <2> QED BY <1>2, <1>3, <1>8, <2>1, <2>2, <2>3
<1> HIDE DEF lots, matches, missing
<1>12. Close(c, e) = [lots |-> lots, matches |-> matches, missing |-> missing]
  BY CloseIs DEF lots, matches, missing, B
<1> QED BY <1>9, <1>10, <1>11, <1>12 DEF Shape, F

\* What concerns one entry: its lot, the matches that close it, the matches it makes, and
\* what it closes of nothing.
LotsOf(c, x) == {l \in c.lots : l.of = x}
MatchesOf(c, x) == {m \in c.matches : m.open = x}
MatchesBy(c, x) == {m \in c.matches : m.close = x}
LackOf(c, x) == {u \in c.missing : u.of = x}

\* A closing parts the lots of its book.
LEMMA ClosePartsLot ==
    ASSUME NEW E, NEW P, NEW c, NEW e, Due(E, P, c, e), Closing(e), NEW lot \in BookOf(c, e)
    PROVE  /\ LotsOf(c, lot.of) = {lot}
           /\ LotsOf(Close(c, e), lot.of)
                = IF Share(c, e)[lot] < lot.quantity THEN {Rest(lot, Share(c, e)[lot])} ELSE {}
           /\ MatchesOf(Close(c, e), lot.of)
                = MatchesOf(c, lot.of)
                    \cup (IF Share(c, e)[lot] > 0 THEN {Match(lot, e, Share(c, e)[lot])} ELSE {})
           /\ Share(c, e)[lot] > 0 => Match(lot, e, Share(c, e)[lot]) \notin MatchesOf(c, lot.of)
<1> DEFINE x == lot.of
           t == Share(c, e)
           B == BookOf(c, e)
<1>1. /\ B \in SUBSET c.lots /\ c.lots \in SUBSET Lot(P) /\ c.matches \in SUBSET Pair(P) /\ e \notin P
      /\ \A l, m \in c.lots : l.of = m.of => l = m
      /\ \A l \in B : l \in Lot(P) /\ t[l] \in 0 .. l.quantity /\ l.quantity \in Nat \ {0} /\ l.of \in P
  <2>1. /\ B \in SUBSET c.lots
        /\ \A l \in B : t[l] \in 0 .. l.quantity /\ l.quantity \in Nat \ {0} /\ l.of \in P
    BY BookIs
  <2>2. /\ c.lots \in SUBSET Lot(P) /\ c.matches \in SUBSET Pair(P) /\ e \notin P
        /\ \A l, m \in c.lots : l.of = m.of => l = m
    BY DEF Due, Shape
  <2> HIDE DEF B, t
  <2> QED BY <2>1, <2>2
<1>2. \A l \in Parted(c, e) : l \in B /\ t[l] < l.quantity /\ Rest(l, t[l]).of = l.of
  <2> SUFFICES ASSUME NEW l \in Parted(c, e)
               PROVE  l \in B /\ t[l] < l.quantity /\ Rest(l, t[l]).of = l.of
    OBVIOUS
  <2>1. l \in B /\ t[l] < l.quantity
    BY DEF Parted
  <2>2. l \in Lot(P) /\ t[l] \in Nat
    BY <1>1, <2>1
  <2> HIDE DEF B, t
  <2> QED BY <2>1, <2>2, RestIs
<1>3. \A l \in Used(c, e) : /\ l \in B /\ t[l] > 0
                            /\ Match(l, e, t[l]).open = l.of /\ Match(l, e, t[l]).close = e
  BY DEF Used, Match
<1>4. \A m \in c.matches : m.close # e
  BY <1>1 DEF Pair
<1>5. /\ Close(c, e).lots = (c.lots \ B) \cup Remains(c, e)
      /\ Close(c, e).matches = c.matches \cup Made(c, e)
  BY CloseIs
<1>6. /\ \A r : r \in Remains(c, e) <=> \E l \in Parted(c, e) : r = Rest(l, t[l])
      /\ \A m : m \in Made(c, e) <=> \E l \in Used(c, e) : m = Match(l, e, t[l])
  BY DEF Remains, Made
<1>7. (lot \in Parted(c, e) <=> t[lot] < lot.quantity) /\ (lot \in Used(c, e) <=> t[lot] > 0)
  BY DEF Parted, Used
<1>8. lot \in B
  OBVIOUS
<1> HIDE DEF B, t
<1>9. LotsOf(c, x) = {lot}
  BY <1>1, <1>8 DEF LotsOf
<1>10. LotsOf(Close(c, e), x) = IF t[lot] < lot.quantity THEN {Rest(lot, t[lot])} ELSE {}
  <2>1. \A r : r \in LotsOf(Close(c, e), x) <=> r \in Remains(c, e) /\ r.of = x
    BY <1>1, <1>5, <1>8 DEF LotsOf
  <2>2. \A r : r \in Remains(c, e) /\ r.of = x <=> lot \in Parted(c, e) /\ r = Rest(lot, t[lot])
    BY <1>1, <1>2, <1>6, <1>8
  <2> QED BY <1>7, <2>1, <2>2
<1>11. MatchesOf(Close(c, e), x) = MatchesOf(c, x) \cup (IF t[lot] > 0 THEN {Match(lot, e, t[lot])} ELSE {})
  <2>1. \A m : m \in MatchesOf(Close(c, e), x) <=> m \in MatchesOf(c, x) \/ (m \in Made(c, e) /\ m.open = x)
    BY <1>5 DEF MatchesOf
  <2>2. \A m : m \in Made(c, e) /\ m.open = x <=> lot \in Used(c, e) /\ m = Match(lot, e, t[lot])
    BY <1>1, <1>3, <1>6, <1>8
  <2> QED BY <1>7, <2>1, <2>2
<1>12. t[lot] > 0 => Match(lot, e, t[lot]) \notin MatchesOf(c, x)
  BY <1>3, <1>4, <1>7 DEF MatchesOf
<1> QED BY <1>9, <1>10, <1>11, <1>12 DEF t

\* It leaves all else alone.
LEMMA CloseLeaves ==
    ASSUME NEW E, NEW P, NEW c, NEW e, Due(E, P, c, e), Closing(e), NEW x
    PROVE  /\ (\A lot \in BookOf(c, e) : lot.of # x) =>
                 /\ LotsOf(Close(c, e), x) = LotsOf(c, x)
                 /\ MatchesOf(Close(c, e), x) = MatchesOf(c, x)
           /\ x # e => /\ MatchesBy(Close(c, e), x) = MatchesBy(c, x)
                       /\ LackOf(Close(c, e), x) = LackOf(c, x)
           /\ MatchesBy(Close(c, e), e) = Made(c, e) /\ MatchesBy(c, e) = {}
           /\ LackOf(Close(c, e), e) = Lacking(c, e)
<1> DEFINE t == Share(c, e)
           B == BookOf(c, e)
<1>1. /\ c.lots \in SUBSET Lot(P) /\ c.matches \in SUBSET Pair(P) /\ c.missing \in SUBSET Lack(P) /\ e \notin P
      /\ \A l \in B : l \in Lot(P) /\ t[l] \in 0 .. l.quantity
  <2>1. /\ B \in SUBSET c.lots /\ \A l \in B : t[l] \in 0 .. l.quantity
    BY BookIs
  <2>2. c.lots \in SUBSET Lot(P) /\ c.matches \in SUBSET Pair(P) /\ c.missing \in SUBSET Lack(P) /\ e \notin P
    BY DEF Due, Shape
  <2> HIDE DEF B, t
  <2> QED BY <2>1, <2>2
<1>2. \A r \in Remains(c, e) : \E l \in B : r.of = l.of
  <2> SUFFICES ASSUME NEW l \in Parted(c, e) PROVE l \in B /\ Rest(l, t[l]).of = l.of
    BY DEF Remains
  <2>1. l \in B /\ t[l] < l.quantity
    BY DEF Parted
  <2>2. l \in Lot(P) /\ t[l] \in Nat
    BY <1>1, <2>1
  <2> HIDE DEF B, t
  <2> QED BY <2>1, <2>2, RestIs
<1>3. \A m \in Made(c, e) : m.close = e /\ \E l \in B : m.open = l.of
  BY DEF Made, Used, Match
<1>4. /\ Close(c, e).lots = (c.lots \ B) \cup Remains(c, e)
      /\ Close(c, e).matches = c.matches \cup Made(c, e)
      /\ Close(c, e).missing = c.missing \cup Lacking(c, e)
  BY CloseIs
<1>5. (\A m \in c.matches : m.close # e) /\ (\A u \in c.missing : u.of # e)
  BY <1>1 DEF Pair, Lack
<1>6. \A u \in Lacking(c, e) : u.of = e
  BY DEF Lacking
<1> HIDE DEF B, t
<1>8. ASSUME \A lot \in B : lot.of # x
      PROVE  LotsOf(Close(c, e), x) = LotsOf(c, x) /\ MatchesOf(Close(c, e), x) = MatchesOf(c, x)
  BY <1>2, <1>3, <1>4, <1>8 DEF LotsOf, MatchesOf
<1>9. ASSUME x # e
      PROVE  MatchesBy(Close(c, e), x) = MatchesBy(c, x) /\ LackOf(Close(c, e), x) = LackOf(c, x)
  BY <1>3, <1>4, <1>6, <1>9 DEF MatchesBy, LackOf
<1>10. MatchesBy(Close(c, e), e) = Made(c, e) /\ MatchesBy(c, e) = {} /\ LackOf(Close(c, e), e) = Lacking(c, e)
  BY <1>3, <1>4, <1>5, <1>6 DEF MatchesBy, LackOf
<1> QED BY <1>8, <1>9, <1>10 DEF B

\* The matches that a closing makes take what it closes, and its fee in proportion.
LEMMA MadeSums ==
    ASSUME NEW E, NEW P, NEW c, NEW e, Due(E, P, c, e), Closing(e)
    PROVE  /\ SumFunction(Share(c, e)) \in Int
           /\ IsFiniteSet(Made(c, e))
           /\ FieldSum(Made(c, e), "quantity") = SumFunction(Share(c, e))
           /\ FieldSum(Made(c, e), "closeFee") = (e.row.fee \div e.row.quantity) * SumFunction(Share(c, e))
<1> DEFINE t == Share(c, e)
           B == BookOf(c, e)
           U == Used(c, e)
           M == Made(c, e)
           h == [l \in U |-> Match(l, e, t[l])]
           k == e.row.fee \div e.row.quantity
           g == [l \in U |-> k * t[l]]
<1>1. /\ IsFiniteSet(B) /\ DOMAIN t = B
      /\ \A l \in B : t[l] \in Nat /\ l.of \in P /\ l.quantity \in Nat \ {0}
      /\ \A l, m \in B : l.of = m.of => l = m
      /\ e.row.fee \in Int /\ e.row.quantity \in Nat \ {0} /\ e.row.fee % e.row.quantity = 0
  <2>1. /\ Book(P, B) /\ DOMAIN t = B
        /\ \A l \in B : t[l] \in 0 .. l.quantity /\ l.of \in P /\ l.quantity \in Nat \ {0}
        /\ e.row.fee \in Int /\ e.row.quantity \in Nat \ {0} /\ e.row.fee % e.row.quantity = 0
    BY BookIs
  <2>2. IsFiniteSet(B) /\ \A l, m \in B : l.of = m.of => l = m
    BY <2>1 DEF Book
  <2> HIDE DEF B, t
  <2> QED BY <2>1, <2>2
<1>2. k \in Int /\ \A n \in Int : Portion(e.row.fee, n, e.row.quantity) = k * n /\ k * n \in Int
  <2>1. k \in Int /\ \A n \in Int : k * n \in Int
    BY <1>1
  <2>2. \A n \in Int : Portion(e.row.fee, n, e.row.quantity) = k * n
    BY <1>1, Portions
  <2> QED BY <2>1, <2>2
<1> HIDE DEF k
<1>3. U \in SUBSET B /\ IsFiniteSet(U) /\ \A l \in B : l \in U <=> t[l] > 0
  <2>1. U \in SUBSET B /\ \A l \in B : l \in U <=> t[l] > 0
    BY DEF Used
  <2> HIDE DEF B, U
  <2> QED BY <1>1, <2>1, FS_Subset
<1>4. h \in Bijection(U, M)
  <2>1. h \in [U -> M] /\ \A m \in M : \E l \in U : h[l] = m
    BY DEF Made
  <2>2. \A l \in U : h[l].open = l.of
    BY DEF Match
  <2> HIDE DEF h, M, U, B
  <2>3. \A l, m \in U : h[l] = h[m] => l = m
    BY <1>1, <1>3, <2>2
  <2> QED BY <2>1, <2>3 DEF Bijection, Injection, Surjection, IsInjective
<1>5. \A l \in U : t[l] \in Int /\ h[l]["quantity"] = t[l]
  <2>1. \A l \in U : h[l]["quantity"] = t[l]
    BY DEF Match
  <2> HIDE DEF h, U, B, t
  <2> QED BY <1>1, <1>3, <2>1
<1>6. \A l \in U : g[l] \in Int /\ h[l]["closeFee"] = g[l]
  <2>1. \A l \in U : h[l]["closeFee"] = Portion(e.row.fee, t[l], e.row.quantity) /\ g[l] = k * t[l]
    BY DEF Match
  <2> HIDE DEF h, U, B, t, g
  <2> QED BY <1>2, <1>5, <2>1
<1>7. \A l \in U : t[l] \in Int /\ g[l] = k * t[l]
  BY <1>5
<1> HIDE DEF h, U, B, t, M, g
<1>8. IsFiniteSet(M) /\ FieldSum(M, "quantity") = SumFunctionOnSet(t, U)
  BY <1>3, <1>4, <1>5, FieldImage
<1>9. FieldSum(M, "closeFee") = SumFunctionOnSet(g, U)
  BY <1>3, <1>4, <1>6, FieldImage
<1>10. SumFunctionOnSet(g, U) = k * SumFunctionOnSet(t, U)
  BY <1>2, <1>3, <1>7, SumTimes
<1>11. SumFunctionOnSet(t, U) = SumFunctionOnSet(t, B) /\ SumFunctionOnSet(t, B) \in Int
  <2>1. (\A l \in B : t[l] \in Int) /\ (\A l \in B \ U : t[l] = 0)
    BY <1>1, <1>3
  <2> QED BY <1>1, <1>3, <2>1, SumSkip, SumInt
<1>12. SumFunction(t) = SumFunctionOnSet(t, B)
  BY <1>1 DEF SumFunction
<1> QED BY <1>8, <1>9, <1>10, <1>11, <1>12 DEF M, t, k

\* What is kept has amounts.
LEMMA Amounts ==
    ASSUME NEW P, NEW c, Shape(P, c)
    PROVE  /\ \A S \in SUBSET c.lots :
                 IsFiniteSet(S) /\ FieldSum(S, "quantity") \in Int /\ FieldSum(S, "fee") \in Int
           /\ \A S \in SUBSET c.matches :
                 /\ IsFiniteSet(S)
                 /\ \A k \in {"quantity", "cost", "proceeds", "openFee", "closeFee"} :
                       FieldSum(S, k) \in Int /\ \A m \in S : m[k] \in Int
           /\ \A S \in SUBSET c.missing :
                 IsFiniteSet(S) /\ FieldSum(S, "quantity") \in Int /\ FieldSum(S, "fee") \in Int
<1>1. /\ IsFiniteSet(c.lots) /\ c.lots \in SUBSET Lot(P)
      /\ IsFiniteSet(c.matches) /\ c.matches \in SUBSET Pair(P)
      /\ IsFiniteSet(c.missing) /\ c.missing \in SUBSET Lack(P)
  BY DEF Shape
<1>2. ASSUME NEW S \in SUBSET c.lots
      PROVE  IsFiniteSet(S) /\ FieldSum(S, "quantity") \in Int /\ FieldSum(S, "fee") \in Int
  <2>1. IsFiniteSet(S) /\ \A l \in S : l["quantity"] \in Int /\ l["fee"] \in Int
    BY <1>1, FS_Subset DEF Lot
  <2> QED BY <2>1, FieldInt
<1>3. ASSUME NEW S \in SUBSET c.matches
      PROVE  /\ IsFiniteSet(S)
             /\ \A k \in {"quantity", "cost", "proceeds", "openFee", "closeFee"} :
                   FieldSum(S, k) \in Int /\ \A m \in S : m[k] \in Int
  <2>1. IsFiniteSet(S)
    BY <1>1, FS_Subset
  <2>2. \A m \in S : /\ m["quantity"] \in Int /\ m["cost"] \in Int /\ m["proceeds"] \in Int
                     /\ m["openFee"] \in Int /\ m["closeFee"] \in Int
    BY <1>1 DEF Pair
  <2>3. \A k \in {"quantity", "cost", "proceeds", "openFee", "closeFee"} : \A m \in S : m[k] \in Int
    BY <2>2
  <2> QED BY <2>1, <2>3, FieldInt
<1>4. ASSUME NEW S \in SUBSET c.missing
      PROVE  IsFiniteSet(S) /\ FieldSum(S, "quantity") \in Int /\ FieldSum(S, "fee") \in Int
  <2>1. IsFiniteSet(S) /\ \A u \in S : u["quantity"] \in Int /\ u["fee"] \in Int
    BY <1>1, FS_Subset DEF Lack
  <2> QED BY <2>1, FieldInt
<1> QED BY <1>2, <1>3, <1>4

\* The fee of an opening is with the matches that closed it and with its lot; the fee of a
\* closing is with the matches that it made and with what it lacked.
FeesTravel(P, c) ==
    /\ \A x \in P : Opening(x) =>
          x.row.fee = FieldSum(MatchesOf(c, x), "openFee") + FieldSum(LotsOf(c, x), "fee")
    /\ \A x \in P : Closing(x) =>
          x.row.fee = FieldSum(MatchesBy(c, x), "closeFee") + FieldSum(LackOf(c, x), "fee")

\* A lot is parted with its fee and its quantity.
LEMMA PartedSums ==
    ASSUME NEW E, NEW P, NEW c, NEW e, Due(E, P, c, e), Closing(e), NEW lot \in BookOf(c, e)
    PROVE  LET x == lot.of
               d == Close(c, e)
           IN  /\ FieldSum(MatchesOf(d, x), "openFee") + FieldSum(LotsOf(d, x), "fee")
                    = FieldSum(MatchesOf(c, x), "openFee") + FieldSum(LotsOf(c, x), "fee")
               /\ FieldSum(LotsOf(c, x), "quantity") = lot.quantity
               /\ FieldSum(LotsOf(d, x), "quantity") = lot.quantity - Share(c, e)[lot]
<1> DEFINE x == lot.of
           d == Close(c, e)
           n == Share(c, e)[lot]
           q == lot.quantity
           r == Rest(lot, n)
           m == Match(lot, e, n)
           M == MatchesOf(c, x)
<1>1. /\ n \in 0 .. q /\ q \in Nat \ {0} /\ lot.fee \in Int
      /\ lot \in Lot(P)
  <2>1. n \in 0 .. q /\ q \in Nat \ {0} /\ lot.fee \in Int /\ BookOf(c, e) \in SUBSET Lot(P)
    BY BookIs DEF Book
  <2> QED BY <2>1
<1>2. /\ LotsOf(c, x) = {lot}
      /\ LotsOf(d, x) = IF n < q THEN {r} ELSE {}
      /\ MatchesOf(d, x) = M \cup (IF n > 0 THEN {m} ELSE {})
      /\ n > 0 => m \notin M
  BY ClosePartsLot
<1>3. /\ IsFiniteSet(M) /\ FieldSum(M, "openFee") \in Int
      /\ \A y \in M : y["openFee"] \in Int
  <2>1. M \in SUBSET c.matches /\ Shape(P, c)
    BY DEF MatchesOf, Due
  <2> HIDE DEF M
  <2> QED BY <2>1, Amounts
<1> DEFINE p == Portion(lot.fee, n, q)
<1>4. p \in Int /\ (n = 0 => p = 0) /\ (n = q => p = lot.fee)
  <2>1. n \in Int
    BY <1>1
  <2> HIDE DEF n, q
  <2> QED BY <1>1, <2>1, Portions
<1>5. /\ FieldSum(LotsOf(c, x), "quantity") = q
      /\ FieldSum(LotsOf(c, x), "fee") = lot.fee
  <2>1. lot["quantity"] \in Int /\ lot["fee"] \in Int
    BY <1>1
  <2>2. FieldSum({lot}, "quantity") = lot["quantity"] /\ FieldSum({lot}, "fee") = lot["fee"]
    BY <2>1, FieldOne
  <2> HIDE DEF x
  <2> QED BY <1>2, <2>2
<1>6. /\ FieldSum(LotsOf(d, x), "quantity") = q - n
      /\ FieldSum(LotsOf(d, x), "fee") = lot.fee - p
  <2>1. CASE n < q
    <3>1. n \in Nat
      BY <1>1
    <3>2. r["quantity"] = q - n /\ r["fee"] = lot.fee - p
      BY <1>1, <2>1, <3>1, RestIs
    <3>3. q - n \in Int /\ lot.fee - p \in Int
      BY <1>1, <1>4
    <3> HIDE DEF r, q, n, p, x, d
    <3>4. FieldSum({r}, "quantity") = r["quantity"] /\ FieldSum({r}, "fee") = r["fee"]
      BY <3>2, <3>3, FieldOne
    <3> QED BY <1>2, <2>1, <3>2, <3>4
  <2>2. CASE ~(n < q)
    <3>1. n = q
      BY <1>1, <2>2
    <3>2. p = lot.fee /\ q - n = 0 /\ lot.fee - p = 0
      BY <1>1, <1>4, <3>1
    <3>3. LotsOf(d, x) = {}
      BY <1>2, <2>2
    <3> HIDE DEF r, q, n, p, x, d
    <3> QED BY <3>2, <3>3, FieldNone
  <2> QED BY <2>1, <2>2
<1>7. FieldSum(MatchesOf(d, x), "openFee") = FieldSum(M, "openFee") + p
  <2>1. CASE n > 0
    <3>1. m["openFee"] = p
      BY DEF Match
    <3> HIDE DEF m, M, n, p, x, d, q
    <3>2. IsFiniteSet({m}) /\ M \cap {m} = {} /\ \A y \in M \cup {m} : y["openFee"] \in Int
      BY <1>2, <1>3, <1>4, <2>1, <3>1, FS_Singleton
    <3>3. FieldSum(M \cup {m}, "openFee") = FieldSum(M, "openFee") + FieldSum({m}, "openFee")
      BY <1>3, <3>2, FieldUnion
    <3>4. FieldSum({m}, "openFee") = p
      BY <1>4, <3>1, FieldOne
    <3> QED BY <1>2, <2>1, <3>3, <3>4
  <2>2. CASE ~(n > 0)
    <3>1. n = 0
      BY <1>1, <2>2
    <3>2. p = 0 /\ MatchesOf(d, x) = M
      BY <1>2, <1>4, <3>1
    <3> HIDE DEF m, M, n, p, x, d, q
    <3> QED BY <1>3, <3>2
  <2> QED BY <2>1, <2>2
<1> HIDE DEF m, M, n, p, x, d, q, r
<1>8. FieldSum(MatchesOf(d, x), "openFee") + FieldSum(LotsOf(d, x), "fee")
        = FieldSum(M, "openFee") + FieldSum(LotsOf(c, x), "fee")
  BY <1>1, <1>3, <1>4, <1>5, <1>6, <1>7
<1> QED BY <1>5, <1>6, <1>8 DEF M, n, x, d, q

LEMMA CloseFees ==
    ASSUME NEW E, NEW P, NEW c, NEW e, Due(E, P, c, e), Closing(e), FeesTravel(P, c)
    PROVE  FeesTravel(P \cup {e}, Close(c, e))
<1> DEFINE d == Close(c, e)
<1>1. ASSUME NEW x \in P, Opening(x)
      PROVE  x.row.fee = FieldSum(MatchesOf(d, x), "openFee") + FieldSum(LotsOf(d, x), "fee")
  <2>1. x.row.fee = FieldSum(MatchesOf(c, x), "openFee") + FieldSum(LotsOf(c, x), "fee")
    BY <1>1 DEF FeesTravel
  <2>2. CASE \A lot \in BookOf(c, e) : lot.of # x
    <3>1. MatchesOf(d, x) = MatchesOf(c, x) /\ LotsOf(d, x) = LotsOf(c, x)
      BY <2>2, CloseLeaves
    <3> HIDE DEF d
    <3> QED BY <2>1, <3>1
  <2>3. ASSUME NEW lot \in BookOf(c, e), lot.of = x
        PROVE  x.row.fee = FieldSum(MatchesOf(d, x), "openFee") + FieldSum(LotsOf(d, x), "fee")
    <3>1. FieldSum(MatchesOf(d, lot.of), "openFee") + FieldSum(LotsOf(d, lot.of), "fee")
            = FieldSum(MatchesOf(c, lot.of), "openFee") + FieldSum(LotsOf(c, lot.of), "fee")
      BY PartedSums
    <3> HIDE DEF d
    <3> QED BY <2>1, <2>3, <3>1
  <2> QED BY <2>2, <2>3
<1>2. ASSUME NEW x \in P, Closing(x)
      PROVE  x.row.fee = FieldSum(MatchesBy(d, x), "closeFee") + FieldSum(LackOf(d, x), "fee")
  <2>1. x.row.fee = FieldSum(MatchesBy(c, x), "closeFee") + FieldSum(LackOf(c, x), "fee")
    BY <1>2 DEF FeesTravel
  <2>2. x # e
    BY DEF Due
  <2>3. MatchesBy(d, x) = MatchesBy(c, x) /\ LackOf(d, x) = LackOf(c, x)
    BY <2>2, CloseLeaves
  <2> HIDE DEF d
  <2> QED BY <2>1, <2>3
<1>3. e.row.fee = FieldSum(MatchesBy(d, e), "closeFee") + FieldSum(LackOf(d, e), "fee")
  <2> DEFINE s == SumFunction(Share(c, e))
             q == e.row.quantity
             k == e.row.fee \div q
             w == Wanting(c, e)
  <2>1. /\ MatchesBy(d, e) = Made(c, e) /\ LackOf(d, e) = Lacking(c, e)
    BY CloseLeaves
  <2>2. FieldSum(Made(c, e), "closeFee") = k * s /\ s \in Int
    BY MadeSums
  <2>3. q \in Nat \ {0} /\ e.row.fee \in Int /\ e.row.fee % q = 0 /\ w \in Nat
    BY BookIs
  <2>4. w = q - s
    BY DEF Wanting
  <2>5. /\ k \in Int /\ e.row.fee = k * q
        /\ \A n \in Int : Portion(e.row.fee, n, q) = k * n
    <3>1. \A n \in Int : Portion(e.row.fee, n, q) = k * n
      BY <2>3, Portions
    <3>2. k \in Int /\ e.row.fee = k * q
      BY <2>3
    <3> QED BY <3>1, <3>2
  <2> HIDE DEF s, q, k, w
  <2>6. FieldSum(Lacking(c, e), "fee") = k * w
    <3>1. CASE w = 0
      <4>1. Lacking(c, e) = {}
        BY <3>1 DEF Lacking, w
      <4>2. k * w = 0
        BY <2>5, <3>1
      <4> QED BY <4>1, <4>2, FieldNone
    <3>2. CASE w # 0
      <4> DEFINE u == [of |-> e, quantity |-> w, fee |-> Portion(e.row.fee, w, q)]
      <4>1. Lacking(c, e) = {u}
        BY <3>2 DEF Lacking, w, q
      <4>2. u["fee"] = k * w /\ k * w \in Int
        BY <2>3, <2>5
      <4> HIDE DEF u
      <4> QED BY <4>1, <4>2, FieldOne
    <3> QED BY <3>1, <3>2
  <2>7. k * s + k * w = k * q
    <3>1. \A a, b \in Int : k * a + k * b = k * (a + b)
      BY <2>5
    <3>2. s + w = q /\ w \in Int
      BY <2>2, <2>3, <2>4
    <3> QED BY <2>2, <3>1, <3>2
  <2> QED BY <2>1, <2>2, <2>5, <2>6, <2>7
<1>4. Closing(e) => ~Opening(e)
  BY DEF Closing, Opening
<1> HIDE DEF d
<1> QED BY <1>1, <1>2, <1>3, <1>4 DEF FeesTravel, d

-----------------------------------------------------------------------------
(***************************************************************************)
(* An opening adds its lot.                                                *)
(***************************************************************************)

NewLot(e) == [of |-> e, quantity |-> e.row.quantity, amount |-> e.row.amount, fee |-> e.row.fee]

LEMMA OpenIs ==
    ASSUME NEW E, NEW P, NEW c, NEW e, Due(E, P, c, e), Opening(e)
    PROVE  /\ Open(c, e).lots = c.lots \cup {NewLot(e)}
           /\ Open(c, e).matches = c.matches /\ Open(c, e).missing = c.missing
           /\ Open(c, e) = [lots |-> c.lots \cup {NewLot(e)}, matches |-> c.matches, missing |-> c.missing]
           /\ NewLot(e).of = e /\ NewLot(e).quantity = e.row.quantity /\ NewLot(e).fee = e.row.fee
           /\ e.row.quantity \in Nat \ {0} /\ e.row.fee \in Nat
           /\ \A l \in c.lots : l.of # e
           /\ (\A m \in c.matches : m.open # e /\ m.close # e) /\ (\A u \in c.missing : u.of # e)
<1> DEFINE lots == c.lots \cup {NewLot(e)}
<1>1. /\ c \in [lots : SUBSET Lot(P), matches : SUBSET Pair(P), missing : SUBSET Lack(P)]
      /\ e \notin P /\ Entry(e)
  BY DEF Due, Shape, Entries
<1>2. /\ \A l \in c.lots : l.of # e
      /\ (\A m \in c.matches : m.open # e /\ m.close # e) /\ (\A u \in c.missing : u.of # e)
  BY <1>1 DEF Lot, Pair, Lack
<1>3. e.row.quantity \in Nat \ {0} /\ e.row.amount \in Nat /\ e.row.fee \in Nat
  BY <1>1, RowIs DEF Opening
<1>4. NewLot(e).of = e /\ NewLot(e).quantity = e.row.quantity /\ NewLot(e).fee = e.row.fee
  BY DEF NewLot
<1>5. Open(c, e) = [c EXCEPT !.lots = lots]
  BY DEF Open, NewLot
<1> HIDE DEF lots
<1>6. /\ Open(c, e).lots = lots /\ Open(c, e).matches = c.matches /\ Open(c, e).missing = c.missing
      /\ Open(c, e) = [lots |-> lots, matches |-> c.matches, missing |-> c.missing]
  BY <1>1, <1>5
<1> QED BY <1>2, <1>3, <1>4, <1>6 DEF lots

LEMMA OpenShape ==
    ASSUME NEW E, NEW P, NEW c, NEW e, Due(E, P, c, e), Opening(e)
    PROVE  Shape(P \cup {e}, Open(c, e))
<1> DEFINE F == P \cup {e}
           new == NewLot(e)
           lots == c.lots \cup {new}
<1>1. /\ c \in [lots : SUBSET Lot(P), matches : SUBSET Pair(P), missing : SUBSET Lack(P)]
      /\ IsFiniteSet(c.lots) /\ IsFiniteSet(c.matches) /\ IsFiniteSet(c.missing)
      /\ \A l, m \in c.lots : l.of = m.of => l = m
      /\ \A m, n \in c.matches : m.open = n.open /\ m.close = n.close => m = n
      /\ \A u, v \in c.missing : u.of = v.of => u = v
      /\ \A m \in c.matches : SameBook(m.open, m.close) /\ Before(m.open, m.close)
  BY DEF Due, Shape
<1>2. c.lots \in SUBSET Lot(F) /\ c.matches \in SUBSET Pair(F) /\ c.missing \in SUBSET Lack(F)
  BY <1>1 DEF Lot, Pair, Lack
<1> HIDE DEF F
<1>3. /\ new.of = e
      /\ \A l \in c.lots : l.of # e
      /\ Open(c, e) = [lots |-> lots, matches |-> c.matches, missing |-> c.missing]
  BY OpenIs
<1>7. new \in Lot(F)
  <2>1. e.row.quantity \in Nat \ {0} /\ e.row.amount \in Nat /\ e.row.fee \in Nat
    BY RowIs DEF Due, Entries, Opening
  <2> QED BY <2>1 DEF NewLot, Lot, F
<1>4. IsFiniteSet(lots)
  BY <1>1, FS_AddElement
<1>5. lots \in SUBSET Lot(F) /\ \A l, m \in lots : l.of = m.of => l = m
  <2> HIDE DEF new
  <2> QED BY <1>1, <1>2, <1>3, <1>7
<1> HIDE DEF new, lots
<1>6. Shape(F, Open(c, e))
  BY <1>1, <1>2, <1>3, <1>4, <1>5 DEF Shape
<1> QED BY <1>6 DEF F

LEMMA OpenLots ==
    ASSUME NEW E, NEW P, NEW c, NEW e, Due(E, P, c, e), Opening(e), NEW x
    PROVE  /\ x # e => LotsOf(Open(c, e), x) = LotsOf(c, x)
           /\ MatchesOf(Open(c, e), x) = MatchesOf(c, x)
           /\ MatchesBy(Open(c, e), x) = MatchesBy(c, x)
           /\ LackOf(Open(c, e), x) = LackOf(c, x)
           /\ FieldSum(LotsOf(Open(c, e), e), "fee") = e.row.fee
           /\ FieldSum(LotsOf(Open(c, e), e), "quantity") = e.row.quantity
           /\ FieldSum(MatchesOf(Open(c, e), e), "openFee") = 0
<1>1. /\ Open(c, e).lots = c.lots \cup {NewLot(e)}
      /\ Open(c, e).matches = c.matches /\ Open(c, e).missing = c.missing
      /\ NewLot(e).of = e
      /\ \A l \in c.lots : l.of # e
      /\ \A m \in c.matches : m.open # e
  BY OpenIs
<1>2. x # e => LotsOf(Open(c, e), x) = LotsOf(c, x)
  BY <1>1 DEF LotsOf
<1>3. /\ MatchesOf(Open(c, e), x) = MatchesOf(c, x)
      /\ MatchesBy(Open(c, e), x) = MatchesBy(c, x)
      /\ LackOf(Open(c, e), x) = LackOf(c, x)
  BY <1>1 DEF MatchesOf, MatchesBy, LackOf
<1>4. LotsOf(Open(c, e), e) = {NewLot(e)} /\ MatchesOf(Open(c, e), e) = {}
  BY <1>1 DEF LotsOf, MatchesOf
<1>5. /\ NewLot(e)["fee"] = e.row.fee /\ NewLot(e)["quantity"] = e.row.quantity
      /\ e.row.fee \in Int /\ e.row.quantity \in Int
  BY OpenIs
<1>6. FieldSum({NewLot(e)}, "fee") = e.row.fee /\ FieldSum({NewLot(e)}, "quantity") = e.row.quantity
  BY <1>5, FieldOne
<1> QED BY <1>2, <1>3, <1>4, <1>6, FieldNone

LEMMA OpenFees ==
    ASSUME NEW E, NEW P, NEW c, NEW e, Due(E, P, c, e), Opening(e), FeesTravel(P, c)
    PROVE  FeesTravel(P \cup {e}, Open(c, e))
<1> DEFINE d == Open(c, e)
<1>1. ASSUME NEW x \in P, Opening(x)
      PROVE  x.row.fee = FieldSum(MatchesOf(d, x), "openFee") + FieldSum(LotsOf(d, x), "fee")
  <2>1. x # e
    BY DEF Due
  <2>2. MatchesOf(d, x) = MatchesOf(c, x) /\ LotsOf(d, x) = LotsOf(c, x)
    BY <2>1, OpenLots
  <2> HIDE DEF d
  <2> QED BY <1>1, <2>2 DEF FeesTravel
<1>2. ASSUME NEW x \in P, Closing(x)
      PROVE  x.row.fee = FieldSum(MatchesBy(d, x), "closeFee") + FieldSum(LackOf(d, x), "fee")
  <2>1. MatchesBy(d, x) = MatchesBy(c, x) /\ LackOf(d, x) = LackOf(c, x)
    BY OpenLots
  <2> HIDE DEF d
  <2> QED BY <1>2, <2>1 DEF FeesTravel
<1>3. e.row.fee = FieldSum(MatchesOf(d, e), "openFee") + FieldSum(LotsOf(d, e), "fee")
  <2>1. FieldSum(MatchesOf(d, e), "openFee") = 0 /\ FieldSum(LotsOf(d, e), "fee") = e.row.fee
    BY OpenLots
  <2>2. e.row.fee \in Int
    BY OpenIs
  <2> HIDE DEF d
  <2> QED BY <2>1, <2>2
<1>4. ~Closing(e)
  BY DEF Closing, Opening
<1> HIDE DEF d
<1> QED BY <1>1, <1>2, <1>3, <1>4 DEF FeesTravel, d

-----------------------------------------------------------------------------
(***************************************************************************)
(* First in, first out.                                                    *)
(***************************************************************************)

\* Sums of an amount that rows have.
RowSum(S, k) == SumFunction([e \in S |-> e.row[k]])

LEMMA RowSumIs ==
    ASSUME NEW S, IsFiniteSet(S), NEW k, NEW f, \A x \in S : f[x] = x.row[k]
    PROVE  RowSum(S, k) = SumFunctionOnSet(f, S)
<1> DEFINE g == [x \in S |-> x.row[k]]
<1>1. DOMAIN g = S /\ \A x \in S : g[x] = f[x]
  OBVIOUS
<1>2. RowSum(S, k) = SumFunction(g)
  BY DEF RowSum
<1> HIDE DEF g
<1> QED BY <1>1, <1>2, SumOf

\* The openings of a book, all of them and those before x.
Openings(P, x) == {f \in P : Opening(f) /\ SameBook(f, x)}
OpensBefore(P, x) == {f \in P : Opening(f) /\ SameBook(f, x) /\ Before(f, x)}

\* What was opened in a book, and what was closed.
InAll(P, x) == RowSum(Openings(P, x), "quantity")
Done(c, x) == FieldSum({m \in c.matches : SameBook(m.close, x)}, "quantity")

LEMMA OpenedIs == ASSUME NEW P, NEW x PROVE Opened(P, x) = RowSum(OpensBefore(P, x), "quantity")
<1>1. {f \in P : Trade(f) /\ Opens(f) /\ SameBook(f, x) /\ Before(f, x)} = OpensBefore(P, x)
  BY DEF OpensBefore, Opening
<1> QED BY <1>1, Zenon DEF Opened, SumOver, RowSum

LEMMA ClosedIs ==
    ASSUME NEW c, NEW x
    PROVE  Closed(c, x) = FieldSum({m \in c.matches : SameBook(m.close, x) /\ Before(m.close, x)}, "quantity")
BY DEF Closed, SumOver, FieldSum

\* The quantities of the entries, as a function.
Quantity(E) == [x \in E |-> x.row.quantity]

LEMMA OpenSums ==
    ASSUME NEW E, Entries(E), NEW P \in SUBSET E
    PROVE  \A S \in SUBSET P : (\A f \in S : Opening(f)) =>
              /\ IsFiniteSet(S)
              /\ \A f \in S : Quantity(E)[f] \in Nat \ {0} /\ Quantity(E)[f] = f.row.quantity
              /\ RowSum(S, "quantity") = SumFunctionOnSet(Quantity(E), S)
              /\ RowSum(S, "quantity") \in Int
<1> SUFFICES ASSUME NEW S \in SUBSET P, \A f \in S : Opening(f)
             PROVE  /\ IsFiniteSet(S)
                    /\ \A f \in S : Quantity(E)[f] \in Nat \ {0} /\ Quantity(E)[f] = f.row.quantity
                    /\ RowSum(S, "quantity") = SumFunctionOnSet(Quantity(E), S)
                    /\ RowSum(S, "quantity") \in Int
  OBVIOUS
<1>1. IsFiniteSet(S) /\ \A f \in S : Entry(f)
  BY FS_Subset DEF Entries
<1>2. \A f \in S : f.row.quantity \in Nat \ {0}
  BY <1>1, RowIs DEF Opening
<1>3. \A f \in S : Quantity(E)[f] \in Nat \ {0} /\ Quantity(E)[f] = f.row.quantity
  BY <1>2 DEF Quantity
<1>4. RowSum(S, "quantity") = SumFunctionOnSet(Quantity(E), S)
  BY <1>1, <1>3, RowSumIs
<1>5. SumFunctionOnSet(Quantity(E), S) \in Int
  BY <1>1, <1>3, SumInt
<1> QED BY <1>1, <1>3, <1>4, <1>5

\* What was opened before x, with an opening f of the book before x.
LEMMA OpenedGrows ==
    ASSUME NEW E, Entries(E), NEW P \in SUBSET E, NEW x \in E
    PROVE  /\ Opened(P, x) \in Int /\ Opened(P, x) >= 0
           /\ \A f \in OpensBefore(P, x) : Opened(P, f) + f.row.quantity <= Opened(P, x)
<1> DEFINE S == OpensBefore(P, x)
           q == Quantity(E)
<1>1. S \in SUBSET P /\ \A f \in S : Opening(f)
  BY DEF OpensBefore
<1>2. /\ IsFiniteSet(S) /\ \A f \in S : q[f] \in Nat \ {0} /\ q[f] = f.row.quantity
      /\ RowSum(S, "quantity") = SumFunctionOnSet(q, S) /\ RowSum(S, "quantity") \in Int
  <2> HIDE DEF S, q
  <2> QED BY <1>1, OpenSums DEF q
<1>3. Opened(P, x) = SumFunctionOnSet(q, S) /\ Opened(P, x) \in Int
  BY <1>2, OpenedIs
<1>4. Opened(P, x) >= 0
  <2>1. SumFunctionOnSet(q, {}) <= SumFunctionOnSet(q, S)
    <3> HIDE DEF S, q
    <3> QED BY <1>2, SumGrows
  <2>2. SumFunctionOnSet(q, {}) = 0
    BY SumEmpty
  <2> QED BY <1>3, <2>1, <2>2
<1>5. ASSUME NEW f \in S PROVE Opened(P, f) + f.row.quantity <= Opened(P, x)
  <2> DEFINE T == OpensBefore(P, f)
             U == T \cup {f}
  <2>1. f \in P /\ Opening(f) /\ SameBook(f, x) /\ Before(f, x)
    BY DEF OpensBefore
  <2>2. T \in SUBSET S /\ f \notin T
    BY <2>1, InOrder DEF OpensBefore, SameBook
  <2>3. /\ IsFiniteSet(T) /\ \A g \in T : q[g] \in Nat \ {0}
        /\ SumFunctionOnSet(q, T) = Opened(P, f)
    <3>1. T \in SUBSET P /\ \A g \in T : Opening(g)
      BY DEF OpensBefore
    <3>2. Opened(P, f) = RowSum(T, "quantity")
      BY OpenedIs
    <3> HIDE DEF T, q
    <3> QED BY <3>1, <3>2, OpenSums DEF q
  <2> HIDE DEF T, S, q
  <2>4. SumFunctionOnSet(q, U) = q[f] + SumFunctionOnSet(q, T)
    BY <1>2, <2>2, <2>3, SumInsert
  <2>5. SumFunctionOnSet(q, U) <= SumFunctionOnSet(q, S)
    <3>1. U \in SUBSET S
      BY <2>2
    <3> HIDE DEF U
    <3> QED BY <1>2, <3>1, SumGrows
  <2>6. q[f] = f.row.quantity /\ q[f] \in Int /\ Opened(P, f) \in Int
    BY <1>2, <2>3, SumInt
  <2> QED BY <1>3, <2>3, <2>4, <2>5, <2>6
<1> QED BY <1>3, <1>4, <1>5

\* A later entry does not change what was opened before.
LEMMA OpenedStays ==
    ASSUME NEW E, Entries(E), NEW P \in SUBSET E, NEW e \in E, NEW x \in E, ~Before(e, x)
    PROVE  Opened(P \cup {e}, x) = Opened(P, x)
<1>1. OpensBefore(P \cup {e}, x) = OpensBefore(P, x)
  BY DEF OpensBefore
<1> QED BY <1>1, OpenedIs

\* What was closed in a book is the same for all its trades.
LEMMA DoneIs ==
    ASSUME NEW P, NEW c, Shape(P, c), NEW x
    PROVE  /\ Done(c, x) \in Int /\ Done(c, x) >= 0
           /\ \A y : SameBook(x, y) => Done(c, y) = Done(c, x)
<1> DEFINE S == {m \in c.matches : SameBook(m.close, x)}
<1>1. S \in SUBSET c.matches
  OBVIOUS
<1>2. IsFiniteSet(S) /\ FieldSum(S, "quantity") \in Int /\ \A m \in S : m["quantity"] \in Int
  <2> HIDE DEF S
  <2> QED BY <1>1, Amounts
<1>3. FieldSum(S, "quantity") >= 0
  <2> DEFINE f == [m \in S |-> m["quantity"]]
  <2>1. \A m \in S : f[m] = m["quantity"] /\ f[m] \in Int /\ f[m] >= 0
    BY DEF Shape, Pair
  <2> HIDE DEF f, S
  <2>2. FieldSum(S, "quantity") = SumFunctionOnSet(f, S)
    BY <1>2, <2>1, FieldSumIs
  <2>3. SumFunctionOnSet(f, {}) <= SumFunctionOnSet(f, S)
    BY <1>2, <2>1, SumGrows
  <2> QED BY <1>2, <2>2, <2>3, SumEmpty
<1>4. ASSUME NEW y, SameBook(x, y) PROVE Done(c, y) = Done(c, x)
  <2>1. {m \in c.matches : SameBook(m.close, y)} = {m \in c.matches : SameBook(m.close, x)}
    BY <1>4 DEF SameBook
  <2> QED BY <2>1 DEF Done
<1> QED BY <1>2, <1>3, <1>4 DEF Done

\* What is left of n units that stand behind a others, when d have been closed.
Left(a, n, d) == Positive(a + n - d) - Positive(a - d)

\* The lot of an opening is what is left of it, when the units that were opened before are
\* closed first.
Unclosed(P, c) ==
    \A x \in P : Opening(x) =>
        FieldSum(LotsOf(c, x), "quantity") = Left(Opened(P, x), x.row.quantity, Done(c, x))

\* The lots of a book before x are what was opened there and not closed.
LEMMA BookStock ==
    ASSUME NEW E, Entries(E), NEW P \in SUBSET E, NEW c, Shape(P, c), Unclosed(P, c), NEW x \in E
    PROVE  FieldSum({l \in c.lots : SameBook(l.of, x) /\ Before(l.of, x)}, "quantity")
             = Positive(Opened(P, x) - Done(c, x))
<1> DEFINE S == OpensBefore(P, x)
           L == {l \in c.lots : SameBook(l.of, x) /\ Before(l.of, x)}
           R == Earlier(E)
           q == Quantity(E)
           D == Done(c, x)
           G == [k \in Int |-> Positive(k - D)]
           w == [f \in S |-> FieldSum(LotsOf(c, f), "quantity")]
           of == [l \in L |-> l.of]
           v == [l \in L |-> l["quantity"]]
<1>1. S \in SUBSET P /\ \A f \in S : f \in E /\ Opening(f) /\ SameBook(f, x) /\ Before(f, x)
  BY DEF OpensBefore
<1>2. /\ IsFiniteSet(S) /\ \A f \in S : q[f] \in Nat \ {0} /\ q[f] = f.row.quantity
      /\ RowSum(S, "quantity") = SumFunctionOnSet(q, S) /\ RowSum(S, "quantity") \in Int
  <2> HIDE DEF S, q
  <2> QED BY <1>1, OpenSums DEF q
<1>3. Linear(S, R)
  <2>1. Linear(E, R)
    BY InOrder
  <2> HIDE DEF S, R
  <2> QED BY <1>1, <2>1 DEF Linear
<1>4. D \in Int /\ D >= 0
  BY DoneIs
<1>5. ASSUME NEW f \in S PROVE SumBefore(q, S, R, f) = Opened(P, f) /\ Opened(P, f) \in Int
  <2>1. {y \in S : <<y, f>> \in R} = OpensBefore(P, f)
    <3>1. \A y \in S : <<y, f>> \in R <=> Before(y, f)
      BY <1>1, InOrder
    <3>2. \A y \in OpensBefore(P, f) : y \in S
      BY <1>1, InOrder DEF OpensBefore, SameBook
    <3>3. \A y \in S : SameBook(y, f)
      BY <1>1 DEF SameBook
    <3> HIDE DEF R
    <3> QED BY <1>1, <3>1, <3>2, <3>3 DEF OpensBefore
  <2>2. OpensBefore(P, f) \in SUBSET P /\ \A g \in OpensBefore(P, f) : Opening(g)
    BY DEF OpensBefore
  <2>3. RowSum(OpensBefore(P, f), "quantity") = SumFunctionOnSet(q, OpensBefore(P, f))
    <3> HIDE DEF q
    <3> QED BY <2>2, OpenSums DEF q
  <2>4. f \in E
    BY <1>1
  <2> HIDE DEF q, R, S
  <2> QED BY <2>1, <2>3, <2>4, OpenedIs, OpenedGrows DEF SumBefore
<1>6. ASSUME NEW f \in S PROVE w[f] = G[SumBefore(q, S, R, f) + q[f]] - G[SumBefore(q, S, R, f)]
  <2>1. Done(c, f) = D
    <3>1. SameBook(x, f)
      BY <1>1 DEF SameBook
    <3> QED BY <3>1, DoneIs
  <2>2. w[f] = Left(Opened(P, f), f.row.quantity, D)
    BY <1>1, <2>1 DEF Unclosed
  <2>3. q[f] = f.row.quantity /\ q[f] \in Int
    BY <1>2
  <2> DEFINE a == Opened(P, f)
  <2>4. a \in Int /\ SumBefore(q, S, R, f) = a
    BY <1>5
  <2>6. \A k \in Int : G[k] = Positive(k - D)
    OBVIOUS
  <2>7. a + q[f] \in Int
    BY <2>3, <2>4
  <2> HIDE DEF w, a, S, R, q, G, D
  <2>5. G[a + q[f]] = Positive(a + q[f] - D) /\ G[a] = Positive(a - D)
    BY <1>4, <2>3, <2>4, <2>6, <2>7
  <2> QED BY <2>2, <2>3, <2>4, <2>5 DEF Left, a
<1>7. /\ \A f \in S : q[f] \in Int
      /\ \A k \in Int : G[k] \in Int
      /\ G[0] = 0
  BY <1>2, <1>4 DEF Positive
<1>8. SumFunctionOnSet(w, S) = G[SumFunctionOnSet(q, S)] - G[0]
  <2> HIDE DEF w, G, S, R, q
  <2> QED BY <1>2, <1>3, <1>6, <1>7, Telescope
<1>9. FieldSum(L, "quantity") = SumFunctionOnSet(w, S)
  <2>1. L \in SUBSET c.lots
    OBVIOUS
  <2>2. IsFiniteSet(L)
    <3> HIDE DEF L
    <3> QED BY <2>1, Amounts
  <2>3. \A l \in L : l.of \in S /\ l["quantity"] \in Int
    BY DEF Shape, Lot, OpensBefore
  <2>4. /\ \A l \in L : v[l] = l["quantity"] /\ v[l] \in Int
        /\ of \in [L -> S]
    BY <2>3
  <2>5. ASSUME NEW f \in S PROVE w[f] = SumFunctionOnSet(v, Fibre(of, L, f))
    <3>1. Fibre(of, L, f) = LotsOf(c, f)
      BY <1>1 DEF LotsOf, Fibre
    <3>2. LotsOf(c, f) \in SUBSET L
      BY <1>1 DEF LotsOf
    <3>3. IsFiniteSet(LotsOf(c, f)) /\ \A l \in LotsOf(c, f) : v[l] = l["quantity"]
      BY <2>2, <2>4, <3>2, FS_Subset
    <3>4. w[f] = FieldSum(LotsOf(c, f), "quantity")
      OBVIOUS
    <3> HIDE DEF v, w, L, of, S
    <3>5. w[f] = SumFunctionOnSet(v, LotsOf(c, f))
      BY <3>3, <3>4, FieldSumIs
    <3> QED BY <3>1, <3>5
  <2> HIDE DEF v, w, L, of, S
  <2>6. SumFunctionOnSet(w, S) = SumFunctionOnSet(v, L)
    BY <1>2, <2>2, <2>4, <2>5, SumParts
  <2> QED BY <2>2, <2>4, <2>6, FieldSumIs
<1>10. G[SumFunctionOnSet(q, S)] = Positive(Opened(P, x) - D)
  <2>1. SumFunctionOnSet(q, S) = Opened(P, x) /\ SumFunctionOnSet(q, S) \in Int
    BY <1>2, OpenedIs
  <2> HIDE DEF q, S
  <2> QED BY <2>1
<1>11. G[SumFunctionOnSet(q, S)] \in Int
  <2>1. SumFunctionOnSet(q, S) \in Int
    BY <1>2
  <2> HIDE DEF q, S, G
  <2> QED BY <1>7, <2>1
<1> HIDE DEF G, L, D, S, w, q
<1> QED BY <1>7, <1>8, <1>9, <1>10, <1>11 DEF L, D

\* Nothing is closed that was not opened.
Covered(E, P, c) == \A x \in E : Done(c, x) <= InAll(P, x)

LEMMA TotalIs ==
    ASSUME NEW E, Entries(E), NEW P \in SUBSET E, NEW x
    PROVE  /\ InAll(P, x) \in Int
           /\ \A y : SameBook(x, y) => InAll(P, y) = InAll(P, x)
           /\ (\A f \in P : Before(f, x)) => InAll(P, x) = Opened(P, x)
<1>1. InAll(P, x) \in Int
  <2>1. Openings(P, x) \in SUBSET P /\ \A f \in Openings(P, x) : Opening(f)
    BY DEF Openings
  <2> QED BY <2>1, OpenSums DEF InAll
<1>2. ASSUME NEW y, SameBook(x, y) PROVE InAll(P, y) = InAll(P, x)
  <2>1. Openings(P, x) = Openings(P, y)
    BY <1>2 DEF Openings, SameBook
  <2> QED BY <2>1 DEF InAll
<1>3. ASSUME \A f \in P : Before(f, x) PROVE InAll(P, x) = Opened(P, x)
  <2>1. Openings(P, x) = OpensBefore(P, x)
    BY <1>3 DEF Openings, OpensBefore
  <2> QED BY <2>1, OpenedIs DEF InAll
<1> QED BY <1>1, <1>2, <1>3

\* One more entry, and what is opened in all.
LEMMA TotalGrows ==
    ASSUME NEW E, Entries(E), NEW P \in SUBSET E, NEW e \in E, NEW x
    PROVE  /\ InAll(P, x) <= InAll(P \cup {e}, x)
           /\ ~Opening(e) => InAll(P \cup {e}, x) = InAll(P, x)
<1> DEFINE S == Openings(P, x)
           T == Openings(P \cup {e}, x)
           q == Quantity(E)
<1>1. S \in SUBSET T /\ T \in SUBSET E /\ S \in SUBSET E /\ \A f \in T : Opening(f)
  BY DEF Openings
<1>2. /\ IsFiniteSet(T) /\ \A f \in T : q[f] \in Nat \ {0}
      /\ RowSum(T, "quantity") = SumFunctionOnSet(q, T)
      /\ RowSum(S, "quantity") = SumFunctionOnSet(q, S)
  <2>1. E \in SUBSET E /\ \A f \in S : Opening(f)
    BY <1>1
  <2> HIDE DEF S, T, q
  <2> QED BY <1>1, <2>1, OpenSums DEF q
<1>3. SumFunctionOnSet(q, S) <= SumFunctionOnSet(q, T)
  <2> HIDE DEF S, T, q
  <2> QED BY <1>1, <1>2, SumGrows
<1>4. ~Opening(e) => S = T
  BY DEF Openings
<1> HIDE DEF S, T, q
<1> QED BY <1>2, <1>3, <1>4 DEF InAll, S, T

\* What a closing finds: the stock of its book, and what stands before each of the lots.
LEMMA ClosingFinds ==
    ASSUME NEW E, NEW P, NEW c, NEW e, Due(E, P, c, e), Closing(e),
           Unclosed(P, c), Covered(E, P, c)
    PROVE  /\ Done(c, e) \in Int /\ Done(c, e) >= 0
           /\ Opened(P, e) \in Int /\ Done(c, e) <= Opened(P, e)
           /\ SumFunction(Share(c, e)) = Lesser(e.row.quantity, Opened(P, e) - Done(c, e))
           /\ \A lot \in BookOf(c, e) :
                 /\ Opened(P, lot.of) \in Int
                 /\ Opened(P, lot.of) + lot.of.row.quantity <= Opened(P, e)
                 /\ lot.of.row.quantity \in Nat \ {0}
                 /\ lot.quantity = Left(Opened(P, lot.of), lot.of.row.quantity, Done(c, e))
                 /\ Share(c, e)[lot]
                      = Lesser(lot.quantity,
                               Positive(e.row.quantity - Positive(Opened(P, lot.of) - Done(c, e))))
<1> DEFINE B == BookOf(c, e)
           D == Done(c, e)
           O == Opened(P, e)
           Q == e.row.quantity
<1>0. /\ Entries(E) /\ P \in SUBSET E /\ e \in E /\ \A f \in P : Before(f, e)
      /\ Shape(P, c)
  BY DEF Due
<1>1. D \in Int /\ D >= 0
  BY <1>0, DoneIs
<1>2. O \in Int /\ D <= O
  <2>1. InAll(P, e) = O
    BY <1>0, TotalIs
  <2>2. O \in Int
    BY <1>0, OpenedGrows
  <2> QED BY <1>0, <2>1, <2>2 DEF Covered
<1>3. /\ Book(E, B) /\ Q \in Nat /\ B \in SUBSET c.lots
      /\ \A lot \in B : lot.of \in P /\ Opening(lot.of) /\ SameBook(lot.of, e)
  BY BookIs
<1>4. FieldSum(B, "quantity") = Positive(O - D)
  <2>1. B = {l \in c.lots : SameBook(l.of, e) /\ Before(l.of, e)}
    BY <1>0, <1>3 DEF BookOf
  <2>2. FieldSum({l \in c.lots : SameBook(l.of, e) /\ Before(l.of, e)}, "quantity") = Positive(O - D)
    BY <1>0, BookStock
  <2> HIDE DEF B, O, D
  <2> QED BY <2>1, <2>2
<1>5. ASSUME NEW lot \in B PROVE Stock(B, lot.of) = Positive(Opened(P, lot.of) - D)
  <2> DEFINE x == lot.of
  <2>1. x \in E /\ SameBook(x, e)
    BY <1>0, <1>3
  <2>2. {l \in B : Before(l.of, x)} = {l \in c.lots : SameBook(l.of, x) /\ Before(l.of, x)}
    BY <2>1 DEF BookOf, SameBook
  <2>3. FieldSum({l \in c.lots : SameBook(l.of, x) /\ Before(l.of, x)}, "quantity")
          = Positive(Opened(P, x) - Done(c, x))
    BY <1>0, <2>1, BookStock
  <2>4. Done(c, x) = D
    <3>1. SameBook(e, x)
      BY <2>1 DEF SameBook
    <3> QED BY <1>0, <3>1, DoneIs
  <2> HIDE DEF B, D, x
  <2> QED BY <2>2, <2>3, <2>4 DEF Stock, x
<1>6. Share(c, e) = [lot \in B |-> Taken(B, lot, Q)]
  BY DEF Share
<1>7. SumFunction(Share(c, e)) = Lesser(Q, O - D)
  <2>1. SumFunction(Share(c, e)) = Lesser(Q, FieldSum(B, "quantity"))
    <3> HIDE DEF B, Q
    <3> QED BY <1>0, <1>3, <1>6, TakenIs
  <2>2. Positive(O - D) = O - D
    <3> HIDE DEF O, D
    <3> QED BY <1>1, <1>2 DEF Positive
  <2> QED BY <1>4, <2>1, <2>2
<1>8. ASSUME NEW lot \in B
      PROVE  /\ Opened(P, lot.of) \in Int
             /\ Opened(P, lot.of) + lot.of.row.quantity <= O
             /\ lot.of.row.quantity \in Nat \ {0}
             /\ lot.quantity = Left(Opened(P, lot.of), lot.of.row.quantity, D)
             /\ Share(c, e)[lot] = Lesser(lot.quantity, Positive(Q - Positive(Opened(P, lot.of) - D)))
  <2> DEFINE x == lot.of
  <2>1. x \in E /\ x \in P /\ Opening(x) /\ SameBook(x, e) /\ lot \in c.lots /\ Entry(x)
    BY <1>0, <1>3 DEF Entries
  <2>2. Opened(P, x) \in Int
    BY <1>0, <2>1, OpenedGrows
  <2>3. Opened(P, x) + x.row.quantity <= O
    <3>1. x \in OpensBefore(P, e)
      BY <1>0, <2>1 DEF OpensBefore
    <3> QED BY <1>0, <3>1, OpenedGrows
  <2>4. x.row.quantity \in Nat \ {0}
    BY <2>1, RowIs DEF Opening
  <2>5. lot.quantity = Left(Opened(P, x), x.row.quantity, D)
    <3>1. LotsOf(c, x) = {lot}
      BY ClosePartsLot
    <3>2. FieldSum(LotsOf(c, x), "quantity") = Left(Opened(P, x), x.row.quantity, Done(c, x))
      BY <2>1 DEF Unclosed
    <3>3. Done(c, x) = D
      <4>1. SameBook(e, x)
        BY <2>1 DEF SameBook
      <4> QED BY <1>0, <4>1, DoneIs
    <3>4. FieldSum(LotsOf(c, x), "quantity") = lot.quantity
      BY PartedSums
    <3> QED BY <3>2, <3>3, <3>4
  <2>6. Share(c, e)[lot] = Lesser(lot.quantity, Positive(Q - Stock(B, lot.of)))
    <3>1. Share(c, e)[lot] = Taken(B, lot, Q)
      BY <1>6
    <3>2. Taken(B, lot, Q) = Lesser(lot.quantity, Positive(Q - Stock(B, lot.of)))
      <4> HIDE DEF B, Q
      <4> QED BY <1>0, <1>3, TakenIs
    <3> QED BY <3>1, <3>2
  <2>7. Stock(B, lot.of) = Positive(Opened(P, lot.of) - D)
    BY <1>5
  <2> HIDE DEF B, D, O, Q
  <2> QED BY <2>2, <2>3, <2>4, <2>5, <2>6, <2>7
<1> QED BY <1>1, <1>2, <1>7, <1>8

\* What a closing adds to what is closed.
LEMMA ClosingDone ==
    ASSUME NEW E, NEW P, NEW c, NEW e, Due(E, P, c, e), Closing(e), NEW x
    PROVE  /\ SameBook(e, x) => Done(Close(c, e), x) = Done(c, e) + SumFunction(Share(c, e))
           /\ ~SameBook(e, x) => Done(Close(c, e), x) = Done(c, x)
           /\ Closed(Close(c, e), e) = Done(c, e)
<1> DEFINE d == Close(c, e)
           S == {m \in c.matches : SameBook(m.close, e)}
           T == {m \in d.matches : SameBook(m.close, e)}
           M == Made(c, e)
<1>0. Shape(P, c) /\ Shape(P \cup {e}, d) /\ e \notin P /\ (\A f \in P : Before(f, e)) /\ Entries(E) /\ e \in E
  BY CloseShape DEF Due
<1>1. d.matches = c.matches \cup M
  BY CloseIs
<1>2. \A m \in M : m.close = e
  BY DEF Made, Match
<1>3. \A m \in c.matches : m.close # e /\ Before(m.close, e)
  BY <1>0 DEF Shape, Pair
<1>4. T = S \cup M /\ S \cap M = {} /\ S \in SUBSET d.matches /\ M \in SUBSET d.matches
  <2>1. SameBook(e, e)
    BY DEF SameBook
  <2> HIDE DEF d, M
  <2> QED BY <1>1, <1>2, <1>3, <2>1
<1>5. FieldSum(T, "quantity") = FieldSum(S, "quantity") + FieldSum(M, "quantity")
  <2> HIDE DEF T, S, M, d
  <2>1. /\ IsFiniteSet(S) /\ IsFiniteSet(M)
        /\ (\A m \in S : m["quantity"] \in Int) /\ (\A m \in M : m["quantity"] \in Int)
    BY <1>0, <1>4, Amounts
  <2>2. \A m \in S \cup M : m["quantity"] \in Int
    BY <2>1
  <2> QED BY <1>4, <2>1, <2>2, FieldUnion
<1>6. FieldSum(M, "quantity") = SumFunction(Share(c, e))
  BY MadeSums
<1>7. Done(d, e) = Done(c, e) + SumFunction(Share(c, e))
  BY <1>5, <1>6 DEF Done
<1>8. SameBook(e, x) => Done(d, x) = Done(d, e)
  BY <1>0, DoneIs
<1>9. ASSUME ~SameBook(e, x) PROVE Done(d, x) = Done(c, x)
  <2>1. {m \in d.matches : SameBook(m.close, x)} = {m \in c.matches : SameBook(m.close, x)}
    <3> HIDE DEF d, M
    <3> QED BY <1>1, <1>2, <1>9
  <2> HIDE DEF d
  <2> QED BY <2>1 DEF Done
<1>10. Closed(d, e) = Done(c, e)
  <2>1. ~Before(e, e)
    BY <1>0, InOrder
  <2>2. {m \in d.matches : SameBook(m.close, e) /\ Before(m.close, e)} = S
    <3> HIDE DEF d, M
    <3> QED BY <1>1, <1>2, <1>3, <2>1
  <2> HIDE DEF d
  <2> QED BY <2>2, ClosedIs DEF Done
<1> HIDE DEF d
<1> QED BY <1>7, <1>8, <1>9, <1>10 DEF d

\* What is left of a lot is what is left of its opening, and no more is closed than that.
LEMMA CloseUnclosed ==
    ASSUME NEW E, NEW P, NEW c, NEW e, Due(E, P, c, e), Closing(e),
           Unclosed(P, c), Covered(E, P, c)
    PROVE  Unclosed(P \cup {e}, Close(c, e)) /\ Covered(E, P \cup {e}, Close(c, e))
<1> DEFINE d == Close(c, e)
           D == Done(c, e)
           O == Opened(P, e)
           Q == e.row.quantity
           s == SumFunction(Share(c, e))
           F == P \cup {e}
<1>0. /\ Entries(E) /\ P \in SUBSET E /\ e \in E /\ (\A f \in P : Before(f, e)) /\ e \notin P
      /\ Shape(P, c) /\ ~Opening(e)
  BY DEF Due, Opening, Closing
<1>1. /\ D \in Int /\ D >= 0 /\ O \in Int /\ D <= O /\ s = Lesser(Q, O - D)
      /\ Q \in Nat \ {0}
  BY ClosingFinds, BookIs
<1>2. ASSUME NEW x \in P, Opening(x)
      PROVE  FieldSum(LotsOf(d, x), "quantity") = Left(Opened(F, x), x.row.quantity, Done(d, x))
  <2>1. Opened(F, x) = Opened(P, x) /\ Opened(P, x) \in Int
    <3>1. x \in E /\ ~Before(e, x)
      BY <1>0, InOrder
    <3>2. Opened(P \cup {e}, x) = Opened(P, x)
      BY <1>0, <3>1, OpenedStays
    <3>3. Opened(P, x) \in Int
      BY <1>0, <3>1, OpenedGrows
    <3> QED BY <3>2, <3>3
  <2>2. FieldSum(LotsOf(c, x), "quantity") = Left(Opened(P, x), x.row.quantity, Done(c, x))
    BY <1>2 DEF Unclosed
  <2>3. x.row.quantity \in Nat \ {0}
    BY <1>0, <1>2, RowIs DEF Entries, Opening
  <2>4. CASE ~SameBook(e, x)
    <3>1. \A lot \in BookOf(c, e) : lot.of # x
      BY <2>4 DEF BookOf, SameBook
    <3>2. LotsOf(d, x) = LotsOf(c, x)
      BY <3>1, CloseLeaves
    <3>3. Done(d, x) = Done(c, x)
      BY <2>4, ClosingDone
    <3> HIDE DEF d, F
    <3> QED BY <2>1, <2>2, <3>2, <3>3
  <2>5. CASE SameBook(e, x)
    <3>1. Done(d, x) = D + s /\ Done(c, x) = D
      BY <1>0, <2>5, ClosingDone, DoneIs
    <3>2. ASSUME NEW lot \in BookOf(c, e), lot.of = x
          PROVE  FieldSum(LotsOf(d, x), "quantity") = Left(Opened(P, x), x.row.quantity, D + s)
      <4>1. FieldSum(LotsOf(d, lot.of), "quantity") = lot.quantity - Share(c, e)[lot]
        BY PartedSums
      <4>2. /\ Opened(P, lot.of) + lot.of.row.quantity <= O
            /\ lot.quantity = Left(Opened(P, lot.of), lot.of.row.quantity, D)
            /\ Share(c, e)[lot] = Lesser(lot.quantity, Positive(Q - Positive(Opened(P, lot.of) - D)))
        BY ClosingFinds
      <4> HIDE DEF d, D, O, Q, s, F
      <4>3. lot.quantity - Share(c, e)[lot] = Left(Opened(P, x), x.row.quantity, D + Lesser(Q, O - D))
        <5> DEFINE a == Opened(P, x)
                   n == x.row.quantity
                   l == lot.quantity
                   r == Share(c, e)[lot]
        <5>1. /\ a \in Int /\ n \in Nat \ {0} /\ a + n <= O /\ Q \in Nat
              /\ l = Left(a, n, D) /\ r = Lesser(l, Positive(Q - Positive(a - D)))
          BY <1>1, <2>1, <2>3, <3>2, <4>2
        <5> HIDE DEF a, n, l, r
        <5>2. l - r = Left(a, n, D + Lesser(Q, O - D))
          BY <1>1, <5>1 DEF Left, Lesser, Positive
        <5> QED BY <5>2 DEF a, n, l, r
      <4> QED BY <1>1, <3>2, <4>1, <4>3
    <3>3. ASSUME \A lot \in BookOf(c, e) : lot.of # x
          PROVE  FieldSum(LotsOf(d, x), "quantity") = Left(Opened(P, x), x.row.quantity, D + s)
      <4>1. LotsOf(d, x) = LotsOf(c, x)
        BY <3>3, CloseLeaves
      <4>2. LotsOf(c, x) = {}
        BY <2>5, <3>3 DEF LotsOf, BookOf, SameBook
      <4>3. Left(Opened(P, x), x.row.quantity, D) = 0
        BY <2>2, <3>1, <4>2, FieldNone
      <4> DEFINE a == Opened(P, x)
                 n == x.row.quantity
      <4>4. a \in Int /\ n \in Nat \ {0} /\ Left(a, n, D) = 0
        BY <2>1, <2>3, <4>3
      <4> HIDE DEF D, O, Q, s, a, n
      <4>5. s \in Int /\ s >= 0
        BY <1>1 DEF Lesser
      <4>6. Left(a, n, D + s) = 0
        BY <1>1, <4>4, <4>5 DEF Left, Positive
      <4> HIDE DEF d
      <4> QED BY <4>1, <4>2, <4>6, FieldNone DEF a, n
    <3> HIDE DEF d, D, s, F
    <3> QED BY <2>1, <3>1, <3>2, <3>3
  <2> QED BY <2>4, <2>5
<1>3. ASSUME NEW x \in E PROVE Done(d, x) <= InAll(F, x)
  <2>1. InAll(F, x) = InAll(P, x) /\ Done(c, x) <= InAll(P, x)
    BY <1>0, TotalGrows DEF Covered
  <2>2. CASE ~SameBook(e, x)
    <3>1. Done(d, x) = Done(c, x)
      BY <2>2, ClosingDone
    <3> HIDE DEF d, F
    <3> QED BY <2>1, <3>1
  <2>3. CASE SameBook(e, x)
    <3>1. Done(d, x) = D + s
      BY <2>3, ClosingDone
    <3>2. InAll(P, x) = O
      BY <1>0, <2>3, TotalIs
    <3> HIDE DEF d, F, D, s, O, Q
    <3>3. D + s <= O
      BY <1>1 DEF Lesser
    <3> QED BY <2>1, <3>1, <3>2, <3>3
  <2> QED BY <2>2, <2>3
<1> HIDE DEF d, F
<1>4. \A x \in F : Opening(x) => x \in P
  BY <1>0 DEF F
<1> QED BY <1>2, <1>3, <1>4 DEF Unclosed, Covered, d, F

\* The units that two runs of units have in common.
Shared(a, n, b, k) == Positive(Lesser(a + n, b + k) - (IF a < b THEN b ELSE a))

LEMMA SharedIs ==
    ASSUME NEW a \in Int, NEW n \in Nat, NEW b \in Int, NEW k \in Nat
    PROVE  Cardinality((a + 1 .. a + n) \cap (b + 1 .. b + k)) = Shared(a, n, b, k)
<1> DEFINE lo == IF a < b THEN b ELSE a
           hi == Lesser(a + n, b + k)
<1>1. lo \in Int /\ hi \in Int
  BY DEF Lesser
<1>2. (a + 1 .. a + n) \cap (b + 1 .. b + k) = lo + 1 .. hi
  BY DEF Lesser
<1>3. Cardinality(lo + 1 .. hi) = IF lo + 1 > hi THEN 0 ELSE hi - (lo + 1) + 1
  <2>1. lo + 1 \in Int
    BY <1>1
  <2> HIDE DEF lo, hi
  <2> QED BY <1>1, <2>1, FS_Interval
<1>4. Shared(a, n, b, k) = Positive(hi - lo)
  BY DEF Shared
<1>5. Positive(hi - lo) = IF lo + 1 > hi THEN 0 ELSE hi - (lo + 1) + 1
  <2> HIDE DEF lo, hi
  <2> QED BY <1>1 DEF Positive
<1> HIDE DEF lo, hi
<1> QED BY <1>2, <1>3, <1>4, <1>5

\* How many units a closing can close.
Matched(P, c, x) == Lesser(x.row.quantity, Opened(P, x) - Closed(c, x))

\* A closing has closed the units that were next in its book.
Served(P, c) ==
    \A x \in P : Closing(x) =>
        /\ Closed(c, x) \in Int /\ Closed(c, x) >= 0 /\ Closed(c, x) <= Opened(P, x)
        /\ FieldSum(MatchesBy(c, x), "quantity") = Matched(P, c, x)
        /\ \A m \in MatchesBy(c, x) :
              m.quantity = Shared(Closed(c, x), Matched(P, c, x), Opened(P, m.open), m.open.row.quantity)

\* Later entries leave it so.
LEMMA ServedStays ==
    ASSUME NEW E, NEW P, NEW c, NEW e, Due(E, P, c, e), Served(P, c),
           NEW F, F = P \cup {e}, NEW d, NEW x \in P, Closing(x),
           \A m \in d.matches : m \in c.matches \/ m.close = e,
           \A m \in c.matches : m \in d.matches
    PROVE  /\ Closed(d, x) \in Int /\ Closed(d, x) >= 0 /\ Closed(d, x) <= Opened(F, x)
           /\ FieldSum(MatchesBy(d, x), "quantity") = Matched(F, d, x)
           /\ \A m \in MatchesBy(d, x) :
                 m.quantity = Shared(Closed(d, x), Matched(F, d, x), Opened(F, m.open), m.open.row.quantity)
<1>0. /\ Entries(E) /\ P \in SUBSET E /\ e \in E /\ (\A f \in P : Before(f, e)) /\ e \notin P
      /\ Shape(P, c)
  BY DEF Due
<1>1. ASSUME NEW y \in P PROVE Opened(F, y) = Opened(P, y) /\ ~Before(e, y)
  <2>1. y \in E /\ ~Before(e, y)
    BY <1>0, InOrder
  <2>2. Opened(P \cup {e}, y) = Opened(P, y)
    BY <1>0, <2>1, OpenedStays
  <2> QED BY <2>1, <2>2
<1>2. Closed(d, x) = Closed(c, x)
  <2>1. {m \in d.matches : SameBook(m.close, x) /\ Before(m.close, x)}
          = {m \in c.matches : SameBook(m.close, x) /\ Before(m.close, x)}
    BY <1>1
  <2> QED BY <2>1, ClosedIs
<1>3. MatchesBy(d, x) = MatchesBy(c, x)
  BY <1>0 DEF MatchesBy
<1>4. \A m \in MatchesBy(c, x) : m.open \in P
  BY <1>0 DEF MatchesBy, Shape, Pair
<1>5. Matched(F, d, x) = Matched(P, c, x)
  <2> QED BY <1>1, <1>2 DEF Matched
<1>6. /\ Closed(c, x) \in Int /\ Closed(c, x) >= 0 /\ Closed(c, x) <= Opened(P, x)
      /\ FieldSum(MatchesBy(c, x), "quantity") = Matched(P, c, x)
      /\ \A m \in MatchesBy(c, x) :
            m.quantity = Shared(Closed(c, x), Matched(P, c, x), Opened(P, m.open), m.open.row.quantity)
  BY DEF Served
<1> QED BY <1>1, <1>2, <1>3, <1>4, <1>5, <1>6

LEMMA CloseServed ==
    ASSUME NEW E, NEW P, NEW c, NEW e, Due(E, P, c, e), Closing(e),
           Unclosed(P, c), Covered(E, P, c), Served(P, c)
    PROVE  Served(P \cup {e}, Close(c, e))
<1> DEFINE d == Close(c, e)
           D == Done(c, e)
           O == Opened(P, e)
           Q == e.row.quantity
           F == P \cup {e}
           t == Share(c, e)
<1>0. /\ Entries(E) /\ P \in SUBSET E /\ e \in E /\ (\A f \in P : Before(f, e)) /\ e \notin P
      /\ Shape(P, c)
  BY DEF Due
<1>1. /\ D \in Int /\ D >= 0 /\ O \in Int /\ D <= O /\ SumFunction(t) = Lesser(Q, O - D)
      /\ Q \in Nat \ {0}
  BY ClosingFinds, BookIs
<1>2. d.matches = c.matches \cup Made(c, e) /\ \A m \in Made(c, e) : m.close = e
  BY CloseIs DEF Made, Match
<1>3. ASSUME NEW x \in P, Closing(x)
      PROVE  /\ Closed(d, x) \in Int /\ Closed(d, x) >= 0 /\ Closed(d, x) <= Opened(F, x)
             /\ FieldSum(MatchesBy(d, x), "quantity") = Matched(F, d, x)
             /\ \A m \in MatchesBy(d, x) :
                   m.quantity = Shared(Closed(d, x), Matched(F, d, x), Opened(F, m.open), m.open.row.quantity)
  <2>1. (\A m \in d.matches : m \in c.matches \/ m.close = e) /\ \A m \in c.matches : m \in d.matches
    BY <1>2
  <2>2. F = P \cup {e}
    OBVIOUS
  <2> HIDE DEF d, F
  <2> QED BY <1>3, <2>1, <2>2, ServedStays
<1>4. ASSUME NEW y \in F PROVE Opened(F, y) = Opened(P, y)
  <2>1. y \in E /\ ~Before(e, y)
    BY <1>0, InOrder
  <2>2. Opened(P \cup {e}, y) = Opened(P, y)
    BY <1>0, <2>1, OpenedStays
  <2> QED BY <2>2
<1>5. Closed(d, e) = D
  BY ClosingDone
<1>6. Matched(F, d, e) = Lesser(Q, O - D)
  <2>1. Opened(F, e) = O
    BY <1>4
  <2> HIDE DEF d, F, D, O
  <2> QED BY <1>5, <2>1 DEF Matched
<1>7. FieldSum(MatchesBy(d, e), "quantity") = Lesser(Q, O - D)
  <2>1. MatchesBy(d, e) = Made(c, e) /\ FieldSum(Made(c, e), "quantity") = SumFunction(t)
    BY CloseLeaves, MadeSums
  <2> HIDE DEF d, D, O, Q, t
  <2> QED BY <1>1, <2>1
<1>8. ASSUME NEW m \in MatchesBy(d, e)
      PROVE  m.quantity = Shared(D, Lesser(Q, O - D), Opened(F, m.open), m.open.row.quantity)
  <2>1. MatchesBy(d, e) = Made(c, e)
    BY CloseLeaves
  <2>2. PICK lot \in Used(c, e) : m = Match(lot, e, t[lot])
    BY <2>1 DEF Made
  <2>3. lot \in BookOf(c, e) /\ t[lot] > 0 /\ m.open = lot.of /\ m.quantity = t[lot]
    BY <2>2 DEF Used, Match
  <2> DEFINE a == Opened(P, lot.of)
             n == lot.of.row.quantity
             l == lot.quantity
  <2>4. /\ a \in Int /\ n \in Nat \ {0} /\ a + n <= O
        /\ l = Left(a, n, D) /\ t[lot] = Lesser(l, Positive(Q - Positive(a - D)))
    BY <2>3, ClosingFinds
  <2>5. Opened(F, lot.of) = a
    <3>1. lot.of \in F
      BY <2>3, BookIs
    <3> QED BY <1>4, <3>1
  <2> DEFINE s == t[lot]
  <2>6. s > 0 /\ s = Lesser(l, Positive(Q - Positive(a - D)))
    BY <2>3, <2>4
  <2> HIDE DEF a, n, l, s, D, O, Q, d, F
  <2>7. s = Shared(D, Lesser(Q, O - D), a, n)
    BY <1>1, <2>4, <2>6 DEF Shared, Left, Lesser, Positive
  <2> QED BY <2>3, <2>5, <2>7 DEF s, n
<1> HIDE DEF d, F, O, Q, D
<1>9. Opened(F, e) = O
  BY <1>4 DEF F, O
<1>10. \A x \in F : x \in P \/ x = e
  BY DEF F
<1>11. Served(F, d)
  BY <1>1, <1>3, <1>5, <1>6, <1>7, <1>8, <1>9, <1>10 DEF Served
<1> QED BY <1>11 DEF F, d

LEMMA OpenUnclosed ==
    ASSUME NEW E, NEW P, NEW c, NEW e, Due(E, P, c, e), Opening(e), NEW F, F = P \cup {e},
           Unclosed(P, c), Covered(E, P, c), Served(P, c)
    PROVE  Unclosed(F, Open(c, e)) /\ Covered(E, F, Open(c, e)) /\ Served(F, Open(c, e))
<1> DEFINE d == Open(c, e)
<1>0. /\ Entries(E) /\ P \in SUBSET E /\ e \in E /\ (\A f \in P : Before(f, e)) /\ e \notin P
      /\ Shape(P, c) /\ ~Closing(e)
  BY DEF Due, Opening, Closing
<1>1. d.matches = c.matches
  BY OpenIs
<1>2. \A y : Done(d, y) = Done(c, y)
  BY <1>1 DEF Done
<1>3. ASSUME NEW y \in F PROVE Opened(F, y) = Opened(P, y) /\ Opened(P, y) \in Int
  <2>1. y \in E /\ ~Before(e, y)
    BY <1>0, InOrder
  <2>2. Opened(P \cup {e}, y) = Opened(P, y)
    BY <1>0, <2>1, OpenedStays
  <2>3. Opened(P, y) \in Int
    BY <1>0, <2>1, OpenedGrows
  <2> QED BY <2>2, <2>3
<1>4. ASSUME NEW x \in P, Opening(x)
      PROVE  FieldSum(LotsOf(d, x), "quantity") = Left(Opened(F, x), x.row.quantity, Done(d, x))
  <2>1. x # e /\ x \in F
    BY <1>0
  <2>2. LotsOf(d, x) = LotsOf(c, x)
    BY <2>1, OpenLots
  <2>3. Done(d, x) = Done(c, x)
    BY <1>2
  <2> HIDE DEF d
  <2> QED BY <1>3, <1>4, <2>1, <2>2, <2>3 DEF Unclosed
<1>5. FieldSum(LotsOf(d, e), "quantity") = Left(Opened(F, e), e.row.quantity, Done(d, e))
  <2>1. FieldSum(LotsOf(d, e), "quantity") = e.row.quantity
    BY OpenLots
  <2> DEFINE D == Done(c, e)
             O == Opened(P, e)
             q == e.row.quantity
  <2>2. D \in Int /\ O \in Int /\ D <= O
    <3>1. InAll(P, e) = O /\ Done(c, e) <= InAll(P, e)
      BY <1>0, TotalIs DEF Covered
    <3>2. Done(c, e) \in Int /\ Opened(P, e) \in Int
      BY <1>0, DoneIs, OpenedGrows
    <3> QED BY <3>1, <3>2
  <2>3. q \in Nat \ {0}
    BY OpenIs
  <2>4. Opened(F, e) = O /\ Done(d, e) = D
    BY <1>2, <1>3
  <2> HIDE DEF D, O, q, d
  <2>5. Left(O, q, D) = q
    BY <2>2, <2>3 DEF Left, Positive
  <2> QED BY <2>1, <2>4, <2>5 DEF q
<1>6. ASSUME NEW x \in E PROVE Done(d, x) <= InAll(F, x)
  <2>1. Done(c, x) <= InAll(P, x)
    BY DEF Covered
  <2>2. InAll(P, x) <= InAll(P \cup {e}, x)
    BY <1>0, TotalGrows
  <2>3. /\ Done(c, x) \in Int /\ InAll(P, x) \in Int /\ InAll(P \cup {e}, x) \in Int
        /\ Done(d, x) = Done(c, x)
    <3>1. P \cup {e} \in SUBSET E
      BY <1>0
    <3> QED BY <1>0, <1>2, <3>1, DoneIs, TotalIs
  <2> HIDE DEF d
  <2> QED BY <2>1, <2>2, <2>3
<1>7. \A x \in F : Closing(x) => x \in P
  BY <1>0
<1>8. ASSUME NEW x \in P, Closing(x)
      PROVE  /\ Closed(d, x) \in Int /\ Closed(d, x) >= 0 /\ Closed(d, x) <= Opened(F, x)
             /\ FieldSum(MatchesBy(d, x), "quantity") = Matched(F, d, x)
             /\ \A m \in MatchesBy(d, x) :
                   m.quantity = Shared(Closed(d, x), Matched(F, d, x), Opened(F, m.open), m.open.row.quantity)
  <2>1. (\A m \in d.matches : m \in c.matches \/ m.close = e) /\ \A m \in c.matches : m \in d.matches
    BY <1>1
  <2> HIDE DEF d
  <2> QED BY <1>8, <2>1, ServedStays
<1> HIDE DEF d
<1>9. Unclosed(F, d)
  BY <1>4, <1>5 DEF Unclosed
<1>10. Covered(E, F, d)
  BY <1>6 DEF Covered
<1>11. Served(F, d)
  BY <1>7, <1>8 DEF Served
<1> QED BY <1>9, <1>10, <1>11 DEF d

-----------------------------------------------------------------------------
(***************************************************************************)
(* The loop, row by row.                                                   *)
(***************************************************************************)

\* What is true of the loop when it has counted the entries P of E.
Good(E, P, c) ==
    /\ Shape(P, c)
    /\ FeesTravel(P, c)
    /\ Unclosed(P, c) /\ Covered(E, P, c) /\ Served(P, c)

\* A row that is no trade changes nothing.
LEMMA OtherRows ==
    ASSUME NEW E, NEW P, NEW c, NEW e, Due(E, P, c, e), ~Trade(e), NEW F, F = P \cup {e},
           Good(E, P, c)
    PROVE  Good(E, F, c)
<1>0. /\ Entries(E) /\ P \in SUBSET E /\ e \in E /\ (\A f \in P : Before(f, e)) /\ e \notin P
      /\ Shape(P, c) /\ FeesTravel(P, c) /\ Unclosed(P, c) /\ Covered(E, P, c) /\ Served(P, c)
      /\ ~Closing(e) /\ ~Opening(e)
  BY DEF Due, Opening, Closing, Good
<1>1. \A x \in F : Opening(x) \/ Closing(x) => x \in P
  BY <1>0
<1>2. ASSUME NEW y \in P PROVE Opened(F, y) = Opened(P, y)
  <2>1. y \in E /\ ~Before(e, y)
    BY <1>0, InOrder
  <2>2. Opened(P \cup {e}, y) = Opened(P, y)
    BY <1>0, <2>1, OpenedStays
  <2> QED BY <2>2
<1>3. Shape(F, c)
  <2>1. Lot(P) \in SUBSET Lot(F) /\ Pair(P) \in SUBSET Pair(F) /\ Lack(P) \in SUBSET Lack(F)
    BY DEF Lot, Pair, Lack
  <2> QED BY <1>0, <2>1 DEF Shape
<1>4. FeesTravel(F, c)
  BY <1>0, <1>1 DEF FeesTravel
<1>5. Unclosed(F, c)
  BY <1>0, <1>1, <1>2 DEF Unclosed
<1>6. Covered(E, F, c)
  <2>1. \A x : InAll(P \cup {e}, x) = InAll(P, x)
    BY <1>0, TotalGrows
  <2> QED BY <1>0, <2>1 DEF Covered
<1>7. Served(F, c)
  <2> SUFFICES ASSUME NEW x \in P, Closing(x)
               PROVE  /\ Closed(c, x) \in Int /\ Closed(c, x) >= 0 /\ Closed(c, x) <= Opened(F, x)
                      /\ FieldSum(MatchesBy(c, x), "quantity") = Matched(F, c, x)
                      /\ \A m \in MatchesBy(c, x) :
                            m.quantity = Shared(Closed(c, x), Matched(F, c, x),
                                                Opened(F, m.open), m.open.row.quantity)
    BY <1>1 DEF Served
  <2>1. (\A m \in c.matches : m \in c.matches \/ m.close = e) /\ \A m \in c.matches : m \in c.matches
    OBVIOUS
  <2> QED BY <1>0, <2>1, ServedStays
<1> QED BY <1>3, <1>4, <1>5, <1>6, <1>7 DEF Good

\* Counting one more row keeps it true.
LEMMA CountedIsGood ==
    ASSUME NEW E, NEW P, NEW c, NEW e, NEW F, F = P \cup {e},
           Entries(E), P \in SUBSET E, e \in E, e \notin P, \A f \in P : Before(f, e),
           Good(E, P, c)
    PROVE  Good(E, F, Counted(c, e))
<1>1. Due(E, P, c, e)
  BY DEF Due, Good
<1>2. CASE ~Trade(e)
  <2>1. Counted(c, e) = c
    BY <1>2 DEF Counted
  <2> QED BY <1>1, <1>2, <2>1, OtherRows
<1>3. CASE Opening(e)
  <2>1. Counted(c, e) = Open(c, e)
    BY <1>3 DEF Counted, Opening
  <2>2. Shape(F, Open(c, e))
    BY <1>1, <1>3, OpenShape
  <2>3. FeesTravel(F, Open(c, e))
    BY <1>1, <1>3, OpenFees DEF Good
  <2>4. Unclosed(F, Open(c, e)) /\ Covered(E, F, Open(c, e)) /\ Served(F, Open(c, e))
    BY <1>1, <1>3, OpenUnclosed DEF Good
  <2> QED BY <2>1, <2>2, <2>3, <2>4 DEF Good
<1>4. CASE Closing(e)
  <2>1. Counted(c, e) = Close(c, e)
    BY <1>4 DEF Counted, Closing
  <2>2. Shape(F, Close(c, e))
    BY <1>1, <1>4, CloseShape
  <2>3. FeesTravel(F, Close(c, e))
    BY <1>1, <1>4, CloseFees DEF Good
  <2>4. Unclosed(F, Close(c, e)) /\ Covered(E, F, Close(c, e))
    BY <1>1, <1>4, CloseUnclosed DEF Good
  <2>5. Served(F, Close(c, e))
    BY <1>1, <1>4, CloseServed DEF Good
  <2> QED BY <2>1, <2>2, <2>3, <2>4, <2>5 DEF Good
<1> QED BY <1>2, <1>3, <1>4 DEF Opening, Closing

LEMMA NothingIsGood == ASSUME NEW E, Entries(E) PROVE Good(E, {}, Start)
<1>1. /\ Start \in [lots : SUBSET Lot({}), matches : SUBSET Pair({}), missing : SUBSET Lack({})]
      /\ Start.lots = {} /\ Start.matches = {} /\ Start.missing = {}
  BY DEF Start
<1> HIDE DEF Start
<1>2. Shape({}, Start)
  BY <1>1, FS_EmptySet DEF Shape
<1>3. Covered(E, {}, Start)
  <2>1. ASSUME NEW x \in E PROVE Done(Start, x) <= InAll({}, x)
    <3>1. {m \in Start.matches : SameBook(m.close, x)} = {}
      BY <1>1
    <3>2. Done(Start, x) = 0
      BY <3>1, FieldNone DEF Done
    <3>3. Openings({}, x) = {}
      BY DEF Openings
    <3>4. RowSum({}, "quantity") = 0
      <4> DEFINE f == [y \in {} |-> y.row["quantity"]]
      <4>1. IsFiniteSet({}) /\ \A y \in {} : f[y] = y.row["quantity"]
        BY FS_EmptySet
      <4> HIDE DEF f
      <4> QED BY <4>1, RowSumIs, SumEmpty
    <3> QED BY <3>2, <3>3, <3>4 DEF InAll
  <2> QED BY <2>1 DEF Covered
<1> QED BY <1>2, <1>3 DEF Good, FeesTravel, Unclosed, Served

\* The entries that the loop has counted after n rows.
Sofar(E, n) == {Ordered(E)[k] : k \in 1 .. n}

LEMMA SofarIs ==
    ASSUME NEW E, Entries(E)
    PROVE  /\ Sofar(E, 0) = {} /\ Sofar(E, Cardinality(E)) = E
           /\ \A n \in 1 .. Cardinality(E) :
                 /\ Sofar(E, n) = Sofar(E, n - 1) \cup {Ordered(E)[n]}
                 /\ Sofar(E, n - 1) \in SUBSET E /\ Ordered(E)[n] \in E
                 /\ Ordered(E)[n] \notin Sofar(E, n - 1)
                 /\ \A f \in Sofar(E, n - 1) : Before(f, Ordered(E)[n])
<1> DEFINE N == Cardinality(E)
           s == Ordered(E)
<1>1. /\ N \in Nat
      /\ \A n \in 1 .. N : s[n] \in E
      /\ \A e \in E : \E n \in 1 .. N : s[n] = e
      /\ \A m, n \in 1 .. N : Before(s[m], s[n]) <=> m < n
  BY OrderedIs
<1> HIDE DEF N, s
<1>2. \A n : Sofar(E, n) = {s[k] : k \in 1 .. n}
  BY DEF Sofar, s
<1>3. Sofar(E, 0) = {}
  BY <1>2
<1>4. Sofar(E, N) = E
  BY <1>1, <1>2
<1>5. ASSUME NEW n \in 1 .. N
      PROVE  /\ Sofar(E, n) = Sofar(E, n - 1) \cup {s[n]}
             /\ Sofar(E, n - 1) \in SUBSET E /\ s[n] \in E
             /\ s[n] \notin Sofar(E, n - 1)
             /\ \A f \in Sofar(E, n - 1) : Before(f, s[n])
  <2>1. n \in 1 .. n /\ \A k \in 1 .. n : k \in 1 .. n - 1 \/ k = n
    OBVIOUS
  <2>2. \A k \in 1 .. n - 1 : k \in 1 .. n /\ k \in 1 .. N /\ k < n
    BY <1>1
  <2>3. Sofar(E, n) = Sofar(E, n - 1) \cup {s[n]}
    BY <1>2, <2>1, <2>2
  <2>4. \A f \in Sofar(E, n - 1) : \E k \in 1 .. n - 1 : f = s[k]
    BY <1>2
  <2>5. \A f \in Sofar(E, n - 1) : f \in E /\ Before(f, s[n])
    BY <1>1, <2>2, <2>4
  <2>6. s[n] \in E /\ ~Before(s[n], s[n])
    BY <1>1
  <2> QED BY <2>3, <2>5, <2>6
<1> QED BY <1>3, <1>4, <1>5 DEF N, s

\* The loop is good all along.
LEMMA ProgressIsGood ==
    ASSUME NEW E, Entries(E)
    PROVE  \A n \in 0 .. Cardinality(E) : Good(E, Sofar(E, n), Progress(E)[n])
<1> DEFINE N == Cardinality(E)
           M == {n \in Nat : n <= N => Good(E, Sofar(E, n), Progress(E)[n])}
<1>1. N \in Nat
  BY OrderedIs
<1>2. 0 \in M
  BY ProgressIs, SofarIs, NothingIsGood
<1>3. ASSUME NEW n \in M PROVE n + 1 \in M
  <2> SUFFICES ASSUME n + 1 <= N PROVE Good(E, Sofar(E, n + 1), Progress(E)[n + 1])
    OBVIOUS
  <2> DEFINE P == Sofar(E, n)
             e == Ordered(E)[n + 1]
             c == Progress(E)[n]
  <2>1. n + 1 \in 1 .. N /\ n + 1 - 1 = n /\ n <= N
    BY <1>1
  <2>2. Good(E, P, c)
    BY <2>1
  <2>3. /\ Sofar(E, n + 1) = P \cup {e} /\ P \in SUBSET E /\ e \in E /\ e \notin P
        /\ \A f \in P : Before(f, e)
    <3>1. \A k \in 1 .. N : /\ Sofar(E, k) = Sofar(E, k - 1) \cup {Ordered(E)[k]}
                            /\ Sofar(E, k - 1) \in SUBSET E /\ Ordered(E)[k] \in E
                            /\ Ordered(E)[k] \notin Sofar(E, k - 1)
                            /\ \A f \in Sofar(E, k - 1) : Before(f, Ordered(E)[k])
      BY SofarIs
    <3> HIDE DEF N
    <3> QED BY <2>1, <3>1
  <2>4. Progress(E)[n + 1] = Counted(c, e)
    <3>1. \A k \in 1 .. N : Progress(E)[k] = Counted(Progress(E)[k - 1], Ordered(E)[k])
      BY ProgressIs
    <3> HIDE DEF N
    <3> QED BY <2>1, <3>1
  <2> HIDE DEF P, e, c, M, N
  <2> QED BY <2>2, <2>3, <2>4, CountedIsGood
<1>4. \A n \in Nat : n \in M
  <2>1. M \in SUBSET Nat
    OBVIOUS
  <2> HIDE DEF M
  <2> QED BY <1>2, <1>3, <2>1, AllNumbers
<1> QED BY <1>1, <1>4

LEMMA CalculationIsGood == ASSUME NEW E, Entries(E) PROVE Good(E, E, Calculation(E))
<1>1. Cardinality(E) \in 0 .. Cardinality(E)
  BY OrderedIs
<1>2. Good(E, Sofar(E, Cardinality(E)), Progress(E)[Cardinality(E)])
  BY <1>1, ProgressIsGood
<1> QED BY <1>2, SofarIs DEF Calculation

-----------------------------------------------------------------------------
(***************************************************************************)
(* The rows up to a date: the loop has been there.                         *)
(***************************************************************************)

\* A part of the entries that comes before all others.
Initial(F, E) == F \in SUBSET E /\ \A f \in F, g \in E \ F : Before(f, g)

LEMMA PrefixOrdered ==
    ASSUME NEW E, Entries(E), NEW F, Initial(F, E)
    PROVE  /\ Entries(F)
           /\ Cardinality(F) \in Nat /\ Cardinality(E) \in Nat /\ Cardinality(F) <= Cardinality(E)
           /\ \A n \in 1 .. Cardinality(F) : Ordered(F)[n] = Ordered(E)[n]
<1> DEFINE N == Cardinality(E)
           K == Cardinality(F)
           R == Earlier(E)
<1>1. Entries(F) /\ F \in SUBSET E
  BY SomeEntries DEF Initial
<1>2. N \in Nat /\ K \in Nat /\ K <= N
  <2>1. N \in Nat /\ K \in Nat
    BY <1>1, OrderedIs
  <2>2. IsFiniteSet(E)
    BY DEF Entries
  <2> QED BY <1>1, <2>1, <2>2, FS_Subset
<1>3. ASSUME NEW e \in F PROVE Rank(F, Earlier(F), e) = Rank(E, R, e)
  <2>1. \A f \in E : Before(f, e) => f \in F
    <3> SUFFICES ASSUME NEW f \in E, Before(f, e), f \notin F PROVE FALSE
      OBVIOUS
    <3>1. Before(e, f)
      BY DEF Initial
    <3> QED BY <1>1, <3>1, InOrder
  <2>2. {y \in F : <<y, e>> \in Earlier(F)} = {y \in E : <<y, e>> \in R}
    <3>1. \A y \in F : <<y, e>> \in Earlier(F) <=> Before(y, e)
      BY DEF Earlier
    <3>2. \A y \in E : <<y, e>> \in R <=> Before(y, e)
      BY <1>1 DEF Earlier
    <3> HIDE DEF R
    <3> QED BY <1>1, <2>1, <3>1, <3>2
  <2> QED BY <2>2 DEF Rank
<1>4. \A x, y \in E : Rank(E, R, x) = Rank(E, R, y) => x = y
  <2>1. IsFiniteSet(E) /\ Linear(E, R)
    BY InOrder DEF Entries
  <2> HIDE DEF R
  <2> QED BY <2>1, RankIs
<1>5. ASSUME NEW n \in 1 .. K PROVE Ordered(F)[n] = Ordered(E)[n]
  <2>1. n \in 1 .. N
    BY <1>2
  <2>2. Ordered(F)[n] \in F /\ Rank(F, Earlier(F), Ordered(F)[n]) = n - 1
    BY <1>1, OrderedIs
  <2>3. Ordered(E)[n] \in E /\ Rank(E, R, Ordered(E)[n]) = n - 1
    BY <2>1, OrderedIs
  <2> QED BY <1>1, <1>3, <1>4, <2>2, <2>3
<1> QED BY <1>1, <1>2, <1>5

\* What the loop finds up to there is what it finds in those rows alone.
LEMMA PrefixCalculation ==
    ASSUME NEW E, Entries(E), NEW F, Initial(F, E)
    PROVE  Calculation(F) = Progress(E)[Cardinality(F)] /\ Sofar(E, Cardinality(F)) = F
<1> DEFINE N == Cardinality(E)
           K == Cardinality(F)
           M == {n \in Nat : n <= K => Progress(F)[n] = Progress(E)[n]}
<1>1. /\ Entries(F) /\ K \in Nat /\ N \in Nat /\ K <= N
      /\ \A n \in 1 .. K : Ordered(F)[n] = Ordered(E)[n]
  BY PrefixOrdered
<1>2. /\ Progress(F)[0] = Start /\ Progress(E)[0] = Start
      /\ \A n \in 1 .. K : Progress(F)[n] = Counted(Progress(F)[n - 1], Ordered(F)[n])
      /\ \A n \in 1 .. N : Progress(E)[n] = Counted(Progress(E)[n - 1], Ordered(E)[n])
  BY <1>1, ProgressIs
<1> HIDE DEF N, K
<1>3. 0 \in M
  BY <1>2
<1>4. ASSUME NEW n \in M PROVE n + 1 \in M
  <2> SUFFICES ASSUME n + 1 <= K PROVE Progress(F)[n + 1] = Progress(E)[n + 1]
    OBVIOUS
  <2>1. n + 1 \in 1 .. K /\ n + 1 \in 1 .. N /\ n + 1 - 1 = n /\ n <= K
    BY <1>1
  <2>2. Progress(F)[n] = Progress(E)[n]
    BY <2>1
  <2> QED BY <1>1, <1>2, <2>1, <2>2
<1>5. \A n \in Nat : n \in M
  <2>1. M \in SUBSET Nat
    OBVIOUS
  <2> HIDE DEF M
  <2> QED BY <1>3, <1>4, <2>1, AllNumbers
<1>6. Calculation(F) = Progress(E)[K]
  <2>1. Calculation(F) = Progress(F)[K]
    BY DEF Calculation, K
  <2> QED BY <1>1, <1>5, <2>1
<1>7. Sofar(E, K) = F
  <2>1. Sofar(F, K) = F
    BY <1>1, SofarIs DEF K
  <2>2. Sofar(E, K) = Sofar(F, K)
    BY <1>1 DEF Sofar
  <2> QED BY <2>1, <2>2
<1> QED BY <1>6, <1>7 DEF K

\* A row adds only matches that it makes, and lacks only what it closes.
LEMMA CountedAdds ==
    ASSUME NEW E, NEW P, NEW c, NEW e, Due(E, P, c, e)
    PROVE  /\ \A m \in c.matches : m \in Counted(c, e).matches
           /\ \A m \in Counted(c, e).matches : m \in c.matches \/ m.close = e
           /\ \A u \in c.missing : u \in Counted(c, e).missing
           /\ \A u \in Counted(c, e).missing : u \in c.missing \/ u.of = e
<1>1. CASE ~Trade(e)
  BY <1>1 DEF Counted
<1>2. CASE Opening(e)
  <2>1. Counted(c, e) = Open(c, e)
    BY <1>2 DEF Counted, Opening
  <2>2. Open(c, e).matches = c.matches /\ Open(c, e).missing = c.missing
    BY <1>2, OpenIs
  <2> QED BY <2>1, <2>2
<1>3. CASE Closing(e)
  <2>1. Counted(c, e) = Close(c, e)
    BY <1>3 DEF Counted, Closing
  <2>2. /\ Close(c, e).matches = c.matches \cup Made(c, e)
        /\ Close(c, e).missing = c.missing \cup Lacking(c, e)
    BY CloseIs
  <2>3. (\A m \in Made(c, e) : m.close = e) /\ \A u \in Lacking(c, e) : u.of = e
    BY DEF Made, Match, Lacking
  <2> QED BY <2>1, <2>2, <2>3
<1> QED BY <1>1, <1>2, <1>3 DEF Opening, Closing

\* Later rows leave the matches of the earlier ones as they are.
LEMMA PrefixMatches ==
    ASSUME NEW E, Entries(E), NEW F, Initial(F, E)
    PROVE  /\ {m \in Calculation(E).matches : m.close \in F} = Calculation(F).matches
           /\ {u \in Calculation(E).missing : u.of \in F} = Calculation(F).missing
<1> DEFINE N == Cardinality(E)
           K == Cardinality(F)
           old == Calculation(F)
           Same(n) == /\ {m \in Progress(E)[n].matches : m.close \in F} = old.matches
                      /\ {u \in Progress(E)[n].missing : u.of \in F} = old.missing
           M == {j \in Nat : K + j <= N => Same(K + j)}
<1>1. K \in Nat /\ N \in Nat /\ K <= N /\ Entries(F)
  BY PrefixOrdered
<1>2. old = Progress(E)[K] /\ Sofar(E, K) = F
  BY PrefixCalculation
<1>3. 0 \in M
  <2>1. Shape(F, old)
    BY <1>1, CalculationIsGood DEF Good
  <2>2. (\A m \in old.matches : m.close \in F) /\ \A u \in old.missing : u.of \in F
    BY <2>1 DEF Shape, Pair, Lack
  <2>3. K + 0 = K
    BY <1>1
  <2> HIDE DEF old, K
  <2>4. Same(K)
    BY <1>2, <2>2
  <2> HIDE DEF Same
  <2> QED BY <2>3, <2>4
<1>4. ASSUME NEW j \in M PROVE j + 1 \in M
  <2> SUFFICES ASSUME K + (j + 1) <= N PROVE Same(K + (j + 1))
    OBVIOUS
  <2> DEFINE n == K + j
             e == Ordered(E)[n + 1]
             c == Progress(E)[n]
             P == Sofar(E, n)
  <2>1. n \in 0 .. N /\ n + 1 \in 1 .. N /\ n + 1 - 1 = n /\ K + (j + 1) = n + 1 /\ K <= n /\ K + j <= N
    BY <1>1
  <2>2. Same(n)
    <3> HIDE DEF Same
    <3> QED BY <2>1
  <2> HIDE DEF n, N, K
  <2>3. /\ P \in SUBSET E /\ e \in E /\ e \notin P /\ (\A f \in P : Before(f, e))
        /\ Progress(E)[n + 1] = Counted(c, e)
    <3>1. /\ Sofar(E, n + 1 - 1) \in SUBSET E /\ Ordered(E)[n + 1] \in E
          /\ Ordered(E)[n + 1] \notin Sofar(E, n + 1 - 1)
          /\ \A f \in Sofar(E, n + 1 - 1) : Before(f, Ordered(E)[n + 1])
      BY <2>1, SofarIs DEF N
    <3>2. Progress(E)[n + 1] = Counted(Progress(E)[n + 1 - 1], Ordered(E)[n + 1])
      BY <2>1, ProgressIs DEF N
    <3> QED BY <2>1, <3>1, <3>2
  <2>4. Due(E, P, c, e)
    <3>1. Shape(P, c)
      BY <2>1, ProgressIsGood DEF Good, N
    <3> HIDE DEF P, c, e
    <3> QED BY <2>3, <3>1 DEF Due
  <2>5. e \notin F
    <3>1. F \in SUBSET P
      <4>1. \A k \in 1 .. K : k \in 1 .. n
        BY <1>1, <2>1
      <4> QED BY <1>2, <4>1 DEF Sofar
    <3> HIDE DEF P
    <3> QED BY <2>3, <3>1
  <2> HIDE DEF e, c, P
  <2>6. /\ \A m \in c.matches : m \in Counted(c, e).matches
        /\ \A m \in Counted(c, e).matches : m \in c.matches \/ m.close = e
        /\ \A u \in c.missing : u \in Counted(c, e).missing
        /\ \A u \in Counted(c, e).missing : u \in c.missing \/ u.of = e
    BY <2>4, CountedAdds
  <2>7. /\ {m \in Counted(c, e).matches : m.close \in F} = {m \in c.matches : m.close \in F}
        /\ {u \in Counted(c, e).missing : u.of \in F} = {u \in c.missing : u.of \in F}
    BY <2>5, <2>6
  <2>8. Same(n + 1)
    <3> HIDE DEF old
    <3> QED BY <2>2, <2>3, <2>7 DEF c
  <2> HIDE DEF Same
  <2> QED BY <2>1, <2>8
<1>5. Same(N)
  <2>1. \A j \in Nat : j \in M
    <3>1. M \in SUBSET Nat
      OBVIOUS
    <3> HIDE DEF M
    <3> QED BY <1>3, <1>4, <3>1, AllNumbers
  <2>2. N - K \in Nat /\ K + (N - K) = N
    BY <1>1
  <2> HIDE DEF Same, N, K
  <2> QED BY <1>1, <2>1, <2>2
<1> QED BY <1>5 DEF Calculation
-----------------------------------------------------------------------------
(***************************************************************************)
(* Fees of many rows, and of the lots and matches that they travel with.   *)
(***************************************************************************)

\* The fees of some openings are with the matches that closed them, and with their lots.
LEMMA FeesOfOpenings ==
    ASSUME NEW P, Entries(P), NEW c, Shape(P, c), FeesTravel(P, c),
           NEW O \in SUBSET {x \in P : Opening(x)}
    PROVE  /\ RowSum(O, "fee") = FieldSum({m \in c.matches : m.open \in O}, "openFee")
                                   + FieldSum({l \in c.lots : l.of \in O}, "fee")
           /\ RowSum(O, "fee") \in Int
<1> DEFINE M == {m \in c.matches : m.open \in O}
           L == {l \in c.lots : l.of \in O}
           gm == [x \in O |-> FieldSum(MatchesOf(c, x), "openFee")]
           gl == [x \in O |-> FieldSum(LotsOf(c, x), "fee")]
           fee == [x \in O |-> x.row.fee]
<1>1. IsFiniteSet(O)
  BY FS_Subset DEF Entries
<1>2. ASSUME NEW x \in O PROVE gm[x] \in Int /\ gl[x] \in Int /\ fee[x] = gm[x] + gl[x]
  <2>1. MatchesOf(c, x) \in SUBSET c.matches /\ LotsOf(c, x) \in SUBSET c.lots
    BY DEF MatchesOf, LotsOf
  <2>2. gm[x] \in Int /\ gl[x] \in Int
    BY <2>1, Amounts
  <2> QED
    BY <2>2 DEF FeesTravel
<1>3. SumFunctionOnSet(gm, O) = FieldSum(M, "openFee")
  <2> DEFINE h == [m \in M |-> m.open]
  <2>1. IsFiniteSet(M) /\ \A m \in M : m["openFee"] \in Int
    BY FS_Subset DEF Shape, Pair
  <2>2. h \in [M -> O]
    OBVIOUS
  <2>3. ASSUME NEW x \in O PROVE gm[x] = FieldSum(Fibre(h, M, x), "openFee")
    <3>1. Fibre(h, M, x) = MatchesOf(c, x)
      BY DEF Fibre, MatchesOf
    <3> QED
      BY <3>1
  <2> HIDE DEF h, gm, M
  <2> QED
    BY <1>1, <2>1, <2>2, <2>3, FieldParts
<1>4. SumFunctionOnSet(gl, O) = FieldSum(L, "fee")
  <2> DEFINE h == [l \in L |-> l.of]
  <2>1. IsFiniteSet(L) /\ \A l \in L : l["fee"] \in Int
    BY FS_Subset DEF Shape, Lot
  <2>2. h \in [L -> O]
    OBVIOUS
  <2>3. ASSUME NEW x \in O PROVE gl[x] = FieldSum(Fibre(h, L, x), "fee")
    <3>1. Fibre(h, L, x) = LotsOf(c, x)
      BY DEF Fibre, LotsOf
    <3> QED
      BY <3>1
  <2> HIDE DEF h, gl, L
  <2> QED
    BY <1>1, <2>1, <2>2, <2>3, FieldParts
<1>5. RowSum(O, "fee") = SumFunctionOnSet(fee, O)
  <2>1. \A x \in O : fee[x] = x.row["fee"]
    OBVIOUS
  <2> QED
    BY <1>1, <2>1, RowSumIs
<1>6. SumFunctionOnSet(fee, O) = SumFunctionOnSet(gm, O) + SumFunctionOnSet(gl, O)
  <2> HIDE DEF gm, gl, fee
  <2> QED
    BY <1>1, <1>2, SumPlus
<1>7. SumFunctionOnSet(fee, O) \in Int
  <2> HIDE DEF fee, gm, gl
  <2>1. \A x \in O : fee[x] \in Int
    BY <1>2
  <2> QED
    BY <1>1, <2>1, SumInt
<1> QED
  BY <1>3, <1>4, <1>5, <1>6, <1>7

\* The fees of some closings are with the matches that they made, and with what they lacked.
LEMMA FeesOfClosings ==
    ASSUME NEW P, Entries(P), NEW c, Shape(P, c), FeesTravel(P, c),
           NEW O \in SUBSET {x \in P : Closing(x)}
    PROVE  /\ RowSum(O, "fee") = FieldSum({m \in c.matches : m.close \in O}, "closeFee")
                                   + FieldSum({l \in c.missing : l.of \in O}, "fee")
           /\ RowSum(O, "fee") \in Int
<1> DEFINE M == {m \in c.matches : m.close \in O}
           L == {l \in c.missing : l.of \in O}
           gm == [x \in O |-> FieldSum(MatchesBy(c, x), "closeFee")]
           gl == [x \in O |-> FieldSum(LackOf(c, x), "fee")]
           fee == [x \in O |-> x.row.fee]
<1>1. IsFiniteSet(O)
  BY FS_Subset DEF Entries
<1>2. ASSUME NEW x \in O PROVE gm[x] \in Int /\ gl[x] \in Int /\ fee[x] = gm[x] + gl[x]
  <2>1. MatchesBy(c, x) \in SUBSET c.matches /\ LackOf(c, x) \in SUBSET c.missing
    BY DEF MatchesBy, LackOf
  <2>2. gm[x] \in Int /\ gl[x] \in Int
    BY <2>1, Amounts
  <2> QED
    BY <2>2 DEF FeesTravel
<1>3. SumFunctionOnSet(gm, O) = FieldSum(M, "closeFee")
  <2> DEFINE h == [m \in M |-> m.close]
  <2>1. IsFiniteSet(M) /\ \A m \in M : m["closeFee"] \in Int
    BY FS_Subset DEF Shape, Pair
  <2>2. h \in [M -> O]
    OBVIOUS
  <2>3. ASSUME NEW x \in O PROVE gm[x] = FieldSum(Fibre(h, M, x), "closeFee")
    <3>1. Fibre(h, M, x) = MatchesBy(c, x)
      BY DEF Fibre, MatchesBy
    <3> QED
      BY <3>1
  <2> HIDE DEF h, gm, M
  <2> QED
    BY <1>1, <2>1, <2>2, <2>3, FieldParts
<1>4. SumFunctionOnSet(gl, O) = FieldSum(L, "fee")
  <2> DEFINE h == [l \in L |-> l.of]
  <2>1. IsFiniteSet(L) /\ \A l \in L : l["fee"] \in Int
    BY FS_Subset DEF Shape, Lack
  <2>2. h \in [L -> O]
    OBVIOUS
  <2>3. ASSUME NEW x \in O PROVE gl[x] = FieldSum(Fibre(h, L, x), "fee")
    <3>1. Fibre(h, L, x) = LackOf(c, x)
      BY DEF Fibre, LackOf
    <3> QED
      BY <3>1
  <2> HIDE DEF h, gl, L
  <2> QED
    BY <1>1, <2>1, <2>2, <2>3, FieldParts
<1>5. RowSum(O, "fee") = SumFunctionOnSet(fee, O)
  <2>1. \A x \in O : fee[x] = x.row["fee"]
    OBVIOUS
  <2> QED
    BY <1>1, <2>1, RowSumIs
<1>6. SumFunctionOnSet(fee, O) = SumFunctionOnSet(gm, O) + SumFunctionOnSet(gl, O)
  <2> HIDE DEF gm, gl, fee
  <2> QED
    BY <1>1, <1>2, SumPlus
<1>7. SumFunctionOnSet(fee, O) \in Int
  <2> HIDE DEF fee, gm, gl
  <2>1. \A x \in O : fee[x] \in Int
    BY <1>2
  <2> QED
    BY <1>1, <2>1, SumInt
<1> QED
  BY <1>3, <1>4, <1>5, <1>6, <1>7

-----------------------------------------------------------------------------
(***************************************************************************)
(* The fees that are deferred at a date are those of the lots open then.   *)
(***************************************************************************)

\* The last day of the year of a date is not before it.
LEMMA EndIs ==
    ASSUME NEW to \in Dates, NEW filter, filter.to = to
    PROVE  End(filter, YearOf(to)) = to
<1> DEFINE S == {d \in Dates : YearOf(d) = YearOf(to)}
<1>1. S \in SUBSET Int /\ to \in S /\ to \in Nat
  <2>1. Dates \in SUBSET Nat
    BY CalendarAssumption
  <2>2. S \in SUBSET Dates /\ to \in S
    OBVIOUS
  <2> HIDE DEF S
  <2> QED
    BY <2>1, <2>2
<1>2. IsFiniteSet(S)
  BY CalendarAssumption, FS_Subset
<1>3. Max(S) \in S /\ \A x \in S : x <= Max(S)
  BY <1>1, <1>2, MaxIs
<1>4. Max(S) \in Int /\ to <= Max(S)
  BY <1>1, <1>3
<1> QED
  BY <1>1, <1>4 DEF End, Lesser

\* The rows up to a date.
UpTo(E, to) == {e \in E : e.row.date <= to}

\* What Calculate has matched up to there it finds in those rows alone.
LEMMA UpToIs ==
    ASSUME NEW E, Entries(E), NEW to \in Dates
    PROVE  LET F == UpTo(E, to)
               b == Calculation(F)
               c == Calculation(E)
           IN  /\ F \in SUBSET E /\ Entries(F)
               /\ Shape(E, c) /\ Shape(F, b) /\ FeesTravel(F, b)
               /\ \A m : m \in b.matches <=> m \in c.matches /\ m.close \in F
               /\ \A u : u \in b.missing <=> u \in c.missing /\ u.of \in F
<1> DEFINE F == UpTo(E, to)
<1>1. Initial(F, E)
  <2>1. to \in Nat
    BY CalendarAssumption
  <2>2. \A e \in E : e.row.date \in Nat
    BY RowIs DEF Entries
  <2> QED
    BY <2>1, <2>2 DEF Initial, UpTo, Before
<1>2. F \in SUBSET E /\ Entries(F)
  BY <1>1, SomeEntries DEF Initial
<1>3. Good(E, E, Calculation(E)) /\ Good(F, F, Calculation(F))
  BY <1>2, CalculationIsGood
<1>4. /\ {m \in Calculation(E).matches : m.close \in F} = Calculation(F).matches
      /\ {u \in Calculation(E).missing : u.of \in F} = Calculation(F).missing
  BY <1>1, PrefixMatches
<1> HIDE DEF F
<1> QED
  BY <1>2, <1>3, <1>4 DEF Good, F

LEMMA DeferredIs ==
    ASSUME NEW E, Entries(E), NEW to \in Dates, NEW currency, NEW filter, filter.to = to
    PROVE  Deferred(E, Calculation(E), filter, YearOf(to), currency)
             = FieldSum({l \in Calculation(UpTo(E, to)).lots :
                            l.of.row.currency = currency /\ filter.account \in {Anyone, l.of.row.account}}, "fee")
<1> DEFINE F == UpTo(E, to)
           b == Calculation(F)
           c == Calculation(E)
           O == {e \in E : /\ Trade(e) /\ Opens(e)
                           /\ e.row.currency = currency /\ e.row.date <= to
                           /\ filter.account \in {Anyone, e.row.account}}
           M == {m \in c.matches : /\ m.close.row.currency = currency /\ m.close.row.date <= to
                                   /\ Belongs(filter, m)}
           L == {l \in b.lots : l.of.row.currency = currency /\ filter.account \in {Anyone, l.of.row.account}}
<1>1. /\ F \in SUBSET E /\ Entries(F)
      /\ Shape(E, c) /\ Shape(F, b) /\ FeesTravel(F, b)
      /\ \A m : m \in b.matches <=> m \in c.matches /\ m.close \in F
  BY UpToIs
<1>2. O \in SUBSET {x \in F : Opening(x)}
  BY DEF UpTo, Opening
<1>3. M = {m \in b.matches : m.open \in O}
  <2>1. ASSUME NEW m \in c.matches, m.close \in F
        PROVE  /\ m.open \in F /\ Opening(m.open) /\ m.close \in F /\ Closing(m.close)
               /\ m.open.row.currency = m.close.row.currency
               /\ m.open.row.date <= to /\ m.close.row.date <= to
    <3>1. m \in b.matches
      BY <1>1, <2>1
    <3>2. m \in Pair(F) /\ SameBook(m.open, m.close)
      BY <1>1, <3>1 DEF Shape
    <3>3. m.open \in F /\ Opening(m.open) /\ m.close \in F /\ Closing(m.close)
      BY <3>2 DEF Pair
    <3>4. Entry(m.open) /\ Entry(m.close)
      BY <1>1, <3>3 DEF Entries
    <3> QED
      BY <3>2, <3>3, <3>4, BookCurrency DEF Opening, Closing, UpTo
  <2>2. ASSUME NEW m \in M PROVE m \in b.matches /\ m.open \in O
    <3>1. m \in c.matches /\ m.close \in E
      BY <1>1 DEF Shape, Pair
    <3>2. m.close \in F
      BY <3>1 DEF UpTo
    <3> QED
      BY <1>1, <2>1, <3>1, <3>2 DEF Belongs, Opening
  <2>3. ASSUME NEW m \in b.matches, m.open \in O PROVE m \in M
    <3>1. m \in c.matches /\ m.close \in F
      BY <1>1
    <3> QED
      BY <2>1, <2>3, <3>1 DEF Belongs
  <2> QED
    BY <2>2, <2>3
<1>4. L = {l \in b.lots : l.of \in O}
  <2>1. \A l \in b.lots : l.of \in F /\ Opening(l.of)
    BY <1>1 DEF Shape, Lot
  <2> QED
    BY <1>1, <2>1 DEF UpTo, Opening
<1>5. /\ RowSum(O, "fee") = FieldSum(M, "openFee") + FieldSum(L, "fee")
      /\ FieldSum(M, "openFee") \in Int /\ FieldSum(L, "fee") \in Int
  <2>1. /\ RowSum(O, "fee") = FieldSum({m \in b.matches : m.open \in O}, "openFee")
                               + FieldSum({l \in b.lots : l.of \in O}, "fee")
    <3> HIDE DEF O, b, F
    <3> QED
      BY <1>1, <1>2, FeesOfOpenings
  <2>2. /\ FieldSum({m \in b.matches : m.open \in O}, "openFee") \in Int
        /\ FieldSum({l \in b.lots : l.of \in O}, "fee") \in Int
    <3> HIDE DEF O, b, F
    <3> QED
      BY <1>1, Amounts
  <2> QED
    BY <1>3, <1>4, <2>1, <2>2
<1>6. Deferred(E, c, filter, YearOf(to), currency) = RowSum(O, "fee") - FieldSum(M, "openFee")
  <2>1. End(filter, YearOf(to)) = to
    BY EndIs
  <2> QED
    BY <2>1 DEF Deferred, SumOver, RowSum, FieldSum
<1> QED
  BY <1>5, <1>6


-----------------------------------------------------------------------------
(***************************************************************************)
(* The rows of a report.                                                   *)
(***************************************************************************)

\* The filter that admits everything up to a date starts with the first date.
LEMMA FirstDate == \A d \in Dates : Min(Dates) <= d
<1> SUFFICES ASSUME NEW d \in Dates PROVE Min(Dates) <= d
  OBVIOUS
<1> DEFINE R == {p \in Dates \X Dates : p[2] <= p[1]}
<1>1. Dates \in SUBSET Nat /\ IsFiniteSet(Dates)
  BY CalendarAssumption
<1>2. \A x, y \in Dates : <<x, y>> \in R <=> y <= x
  OBVIOUS
<1>3. \E m \in Dates : \A x \in Dates : <<x, m>> \in R
  <2> HIDE DEF R
  <2>1. ASSUME NEW x \in Dates, NEW y \in Dates PROVE <<x, y>> \in R \/ <<y, x>> \in R
    <3>1. x <= y \/ y <= x
      BY <1>1
    <3> QED
      BY <1>2, <3>1
  <2>2. \A x, y, z \in Dates : <<x, y>> \in R /\ <<y, z>> \in R => <<x, z>> \in R
    BY <1>1, <1>2
  <2> QED
    BY <1>1, <2>1, <2>2, GreatestOf
<1> QED
  BY <1>2, <1>3 DEF Min

\* The rows that a summary is about, and what Calculate has made of them.
Here(E, filter, year, currency) == {e \in E : Includes(filter, e) /\ In(year, currency, e)}
MatchesIn(c, H) == {m \in c.matches : m.close \in H}
LacksIn(c, H) == {u \in c.missing : u.of \in H}
Trades(H) == {e \in H : Trade(e)}

LEMMA SummaryIs ==
    ASSUME NEW E, NEW c, NEW filter, NEW year, NEW currency,
           NEW H, H = Here(E, filter, year, currency)
    PROVE  LET r == Summary(E, c, filter, year, currency)
           IN  /\ r.year = year
               /\ r.incurred = RowSum(Trades(H), "fee")
               /\ r.openFees = FieldSum(MatchesIn(c, H), "openFee")
               /\ r.closeFees = FieldSum(MatchesIn(c, H), "closeFee")
               /\ r.unmatched = FieldSum(LacksIn(c, H), "fee")
  BY DEF Summary, Here, MatchesIn, LacksIn, Trades, SumOver, FieldSum, RowSum

\* Summaries of different years are different.
LEMMA SummariesOf ==
    ASSUME NEW E, NEW c, NEW filter, NEW currency, NEW Z
    PROVE  [y \in Z |-> Summary(E, c, filter, y, currency)]
             \in Bijection(Z, {Summary(E, c, filter, y, currency) : y \in Z})
<1> DEFINE h == [y \in Z |-> Summary(E, c, filter, y, currency)]
           T == {Summary(E, c, filter, y, currency) : y \in Z}
<1>1. \A y \in Z : h[y].year = y
  BY DEF Summary
<1>2. h \in [Z -> T] /\ \A s \in T : \E y \in Z : h[y] = s
  OBVIOUS
<1>3. \A y, z \in Z : h[y] = h[z] => y = z
  BY <1>1
<1> HIDE DEF h, T
<1>4. h \in Injection(Z, T) /\ h \in Surjection(Z, T)
  BY <1>2, <1>3 DEF Injection, IsInjective, Surjection
<1>5. h \in Bijection(Z, T)
  BY <1>4 DEF Bijection
<1> QED
  BY <1>5 DEF h, T


\* The trades of a currency up to a date, and the lots of a currency.
TradesUpTo(E, to, currency) == {e \in UpTo(E, to) : Trade(e) /\ e.row.currency = currency}
LotsIn(c, currency) == {l \in c.lots : l.of.row.currency = currency}

\* The years up to a date.
YearsUpTo(to) == {z \in Years : z <= YearOf(to)}

\* What Calculate makes of the trades up to a date, year by year.
LEMMA FeesOfYears ==
    ASSUME NEW E, Entries(E), NEW to \in Dates, NEW currency,
           NEW c, c = Calculation(E), NEW b, b = Calculation(UpTo(E, to)),
           NEW T, T = TradesUpTo(E, to, currency), NEW H,
           \A y \in YearsUpTo(to) : H[y] = Here(E, Everything(to), y, currency),
           NEW gi, \A y \in YearsUpTo(to) : gi[y] = RowSum(Trades(H[y]), "fee"),
           NEW go, \A y \in YearsUpTo(to) : go[y] = FieldSum(MatchesIn(c, H[y]), "openFee"),
           NEW gc, \A y \in YearsUpTo(to) : gc[y] = FieldSum(MatchesIn(c, H[y]), "closeFee"),
           NEW gu, \A y \in YearsUpTo(to) : gu[y] = FieldSum(LacksIn(c, H[y]), "fee")
    PROVE  /\ IsFiniteSet(YearsUpTo(to))
           /\ SumFunctionOnSet(gi, YearsUpTo(to)) = RowSum(T, "fee")
           /\ SumFunctionOnSet(go, YearsUpTo(to)) = FieldSum(MatchesIn(b, T), "openFee")
           /\ SumFunctionOnSet(gc, YearsUpTo(to)) = FieldSum(MatchesIn(b, T), "closeFee")
           /\ SumFunctionOnSet(gu, YearsUpTo(to)) = FieldSum(LacksIn(b, T), "fee")
<1> DEFINE Z == YearsUpTo(to)
           F == UpTo(E, to)
           M == MatchesIn(b, T)
           U == LacksIn(b, T)
           hT == [e \in T |-> YearOf(e.row.date)]
           hM == [m \in M |-> YearOf(m.close.row.date)]
           hU == [u \in U |-> YearOf(u.of.row.date)]
<1>1. IsFiniteSet(Z)
  <2>1. IsFiniteSet(Dates)
    BY CalendarAssumption
  <2>2. IsFiniteSet({YearOf(d) : d \in Dates})
    <3>1. [d \in Dates |-> YearOf(d)] \in Surjection(Dates, {YearOf(d) : d \in Dates})
      BY DEF Surjection
    <3> QED
      BY <2>1, <3>1, FS_Surjection
  <2> QED
    BY <2>2, FS_Subset DEF Years, YearsUpTo
<1>2. /\ F \in SUBSET E /\ Entries(F)
      /\ Shape(E, c) /\ Shape(F, b)
      /\ \A m : m \in b.matches <=> m \in c.matches /\ m.close \in F
      /\ \A u : u \in b.missing <=> u \in c.missing /\ u.of \in F
  BY UpToIs
<1>3. /\ \A e \in F : YearOf(e.row.date) \in Z
      /\ \A e \in E : Includes(Everything(to), e) <=> e \in F
  <2>1. \A e \in E : e.row.date \in Dates /\ e.row.date \in Nat
    BY RowIs DEF Entries
  <2>2. Everything(to).to = to /\ Everything(to).from = Min(Dates) /\ Everything(to).account = Anyone
    BY DEF Everything
  <2>3. \A e \in E : Includes(Everything(to), e) <=> e \in F
    BY <2>1, <2>2, FirstDate DEF Includes, UpTo
  <2>4. ASSUME NEW e \in F PROVE YearOf(e.row.date) \in Z
    <3>1. e.row.date \in Dates /\ e.row.date <= to
      BY <1>2, <2>1 DEF UpTo
    <3>2. YearOf(e.row.date) <= YearOf(to)
      BY <3>1, CalendarAssumption
    <3> QED
      BY <3>1, <3>2 DEF Years, YearsUpTo
  <2> QED
    BY <2>3, <2>4
<1>4. \A y \in Z : H[y] = {e \in F : YearOf(e.row.date) = y /\ e.row.currency = currency}
  BY <1>2, <1>3 DEF Here, In
<1>5. \A y \in Z : /\ Fibre(hT, T, y) = Trades(H[y])
                   /\ Fibre(hM, M, y) = MatchesIn(c, H[y])
                   /\ Fibre(hU, U, y) = LacksIn(c, H[y])
  <2> TAKE y \in Z
  <2>1. Fibre(hT, T, y) = Trades(H[y])
    BY <1>4 DEF Fibre, Trades, TradesUpTo
  <2>2. Fibre(hM, M, y) = MatchesIn(c, H[y])
    <3>1. \A m \in b.matches : Trade(m.close) /\ m.close \in F
      BY <1>2 DEF Shape, Pair, Closing
    <3> QED
      BY <1>2, <1>4, <3>1 DEF Fibre, TradesUpTo, MatchesIn
  <2>3. Fibre(hU, U, y) = LacksIn(c, H[y])
    <3>1. \A u \in b.missing : Trade(u.of) /\ u.of \in F
      BY <1>2 DEF Shape, Lack, Closing
    <3> QED
      BY <1>2, <1>4, <3>1 DEF Fibre, TradesUpTo, LacksIn
  <2> QED
    BY <2>1, <2>2, <2>3
<1>6. hT \in [T -> Z] /\ hM \in [M -> Z] /\ hU \in [U -> Z]
  BY <1>3 DEF TradesUpTo, MatchesIn, LacksIn
<1>7. /\ IsFiniteSet(T) /\ IsFiniteSet(M) /\ IsFiniteSet(U)
      /\ \A e \in T : e.row.fee \in Int
      /\ \A m \in M : m["openFee"] \in Int /\ m["closeFee"] \in Int
      /\ \A u \in U : u["fee"] \in Int
  <2>1. IsFiniteSet(T) /\ \A e \in T : e.row.fee \in Int
    BY <1>2, FS_Subset, RowIs DEF Entries, TradesUpTo
  <2>2. IsFiniteSet(M) /\ \A m \in M : m["openFee"] \in Int /\ m["closeFee"] \in Int
    BY <1>2, FS_Subset DEF Shape, Pair, MatchesIn
  <2>3. IsFiniteSet(U) /\ \A u \in U : u["fee"] \in Int
    BY <1>2, FS_Subset DEF Shape, Lack, LacksIn
  <2> QED
    BY <2>1, <2>2, <2>3
<1>8. SumFunctionOnSet(gi, Z) = RowSum(T, "fee")
  <2> DEFINE f == [e \in T |-> e.row.fee]
  <2>1. \A e \in T : f[e] \in Int /\ f[e] = e.row["fee"]
    BY <1>7
  <2>2. ASSUME NEW y \in Z PROVE gi[y] = SumFunctionOnSet(f, Fibre(hT, T, y))
    <3>1. IsFiniteSet(Fibre(hT, T, y)) /\ \A e \in Fibre(hT, T, y) : f[e] = e.row["fee"]
      BY <1>7, FS_Subset DEF Fibre
    <3>2. RowSum(Fibre(hT, T, y), "fee") = SumFunctionOnSet(f, Fibre(hT, T, y))
      <4> HIDE DEF f, hT
      <4> QED
        BY <3>1, RowSumIs
    <3> QED
      BY <1>5, <3>2
  <2>3. RowSum(T, "fee") = SumFunctionOnSet(f, T)
    <3> HIDE DEF f
    <3> QED
      BY <1>7, <2>1, RowSumIs
  <2> HIDE DEF f, hT
  <2> QED
    BY <1>1, <1>6, <1>7, <2>1, <2>2, <2>3, SumParts
<1>9. SumFunctionOnSet(go, Z) = FieldSum(M, "openFee")
  <2>1. \A y \in Z : go[y] = FieldSum(Fibre(hM, M, y), "openFee")
    BY <1>5
  <2> HIDE DEF hM, M, Z
  <2> QED
    BY <1>1, <1>6, <1>7, <2>1, FieldParts
<1>10. SumFunctionOnSet(gc, Z) = FieldSum(M, "closeFee")
  <2>1. \A y \in Z : gc[y] = FieldSum(Fibre(hM, M, y), "closeFee")
    BY <1>5
  <2> HIDE DEF hM, M, Z
  <2> QED
    BY <1>1, <1>6, <1>7, <2>1, FieldParts
<1>11. SumFunctionOnSet(gu, Z) = FieldSum(U, "fee")
  <2>1. \A y \in Z : gu[y] = FieldSum(Fibre(hU, U, y), "fee")
    BY <1>5
  <2> HIDE DEF hU, U, Z
  <2> QED
    BY <1>1, <1>6, <1>7, <2>1, FieldParts
<1> QED
  BY <1>1, <1>8, <1>9, <1>10, <1>11

\* The fees of the trades of a currency up to a date are with the matches, with what the
\* closings lacked, and with the lots that are open.
LEMMA FeesOfTrades ==
    ASSUME NEW E, Entries(E), NEW to \in Dates, NEW currency,
           NEW b, b = Calculation(UpTo(E, to)), NEW T, T = TradesUpTo(E, to, currency)
    PROVE  /\ RowSum(T, "fee") = FieldSum(MatchesIn(b, T), "openFee") + FieldSum(MatchesIn(b, T), "closeFee")
                                   + FieldSum(LacksIn(b, T), "fee") + FieldSum(LotsIn(b, currency), "fee")
           /\ FieldSum(MatchesIn(b, T), "openFee") \in Int /\ FieldSum(MatchesIn(b, T), "closeFee") \in Int
           /\ FieldSum(LacksIn(b, T), "fee") \in Int /\ FieldSum(LotsIn(b, currency), "fee") \in Int
<1> DEFINE F == UpTo(E, to)
           O == {e \in T : Opens(e)}
           C == {e \in T : ~Opens(e)}
           M == MatchesIn(b, T)
           U == LacksIn(b, T)
           L == LotsIn(b, currency)
           fee == [e \in T |-> e.row.fee]
<1>1. Entries(F) /\ Shape(F, b) /\ FeesTravel(F, b)
  BY UpToIs
<1>2. O \in SUBSET {x \in F : Opening(x)} /\ C \in SUBSET {x \in F : Closing(x)}
  BY DEF Opening, Closing, TradesUpTo
<1>3. M = {m \in b.matches : m.open \in O} /\ M = {m \in b.matches : m.close \in C}
  <2>1. ASSUME NEW m \in b.matches
        PROVE  /\ m.open \in F /\ Opening(m.open) /\ m.close \in F /\ Closing(m.close)
               /\ m.open.row.currency = m.close.row.currency
    <3>1. m \in Pair(F) /\ SameBook(m.open, m.close)
      BY <1>1 DEF Shape
    <3>2. m.open \in F /\ Opening(m.open) /\ m.close \in F /\ Closing(m.close)
      BY <3>1 DEF Pair
    <3>3. Entry(m.open) /\ Entry(m.close)
      BY <1>1, <3>2 DEF Entries
    <3> QED
      BY <3>1, <3>2, <3>3, BookCurrency DEF Opening, Closing
  <2> HIDE DEF F
  <2> QED
    BY <2>1 DEF Opening, Closing, MatchesIn, TradesUpTo, F
<1>4. U = {u \in b.missing : u.of \in C}
  <2>1. \A u \in b.missing : Closing(u.of)
    BY <1>1 DEF Shape, Lack
  <2> HIDE DEF F
  <2> QED
    BY <2>1 DEF Closing, LacksIn
<1>5. L = {l \in b.lots : l.of \in O}
  <2>1. \A l \in b.lots : l.of \in F /\ Opening(l.of)
    BY <1>1 DEF Shape, Lot
  <2> HIDE DEF F
  <2> QED
    BY <2>1 DEF Opening, LotsIn, TradesUpTo, F
<1>6. /\ RowSum(O, "fee") = FieldSum(M, "openFee") + FieldSum(L, "fee")
      /\ RowSum(C, "fee") = FieldSum(M, "closeFee") + FieldSum(U, "fee")
  <2>1. RowSum(O, "fee") = FieldSum({m \in b.matches : m.open \in O}, "openFee")
                             + FieldSum({l \in b.lots : l.of \in O}, "fee")
    <3> HIDE DEF O, F
    <3> QED
      BY <1>1, <1>2, FeesOfOpenings
  <2>2. RowSum(C, "fee") = FieldSum({m \in b.matches : m.close \in C}, "closeFee")
                             + FieldSum({u \in b.missing : u.of \in C}, "fee")
    <3> HIDE DEF C, F
    <3> QED
      BY <1>1, <1>2, FeesOfClosings
  <2> HIDE DEF O, C, M, L, U, F
  <2> QED
    BY <1>3, <1>4, <1>5, <2>1, <2>2
<1>7. /\ FieldSum(M, "openFee") \in Int /\ FieldSum(M, "closeFee") \in Int
      /\ FieldSum(U, "fee") \in Int /\ FieldSum(L, "fee") \in Int
  <2>1. M \in SUBSET b.matches /\ U \in SUBSET b.missing /\ L \in SUBSET b.lots
    BY DEF MatchesIn, LacksIn, LotsIn
  <2> HIDE DEF M, U, L, F
  <2> QED
    BY <1>1, <2>1, Amounts
<1>8. RowSum(T, "fee") = RowSum(O, "fee") + RowSum(C, "fee")
  <2>1. IsFiniteSet(T) /\ IsFiniteSet(O) /\ IsFiniteSet(C)
    BY <1>1, FS_Subset DEF Entries, TradesUpTo
  <2>2. \A e \in T : fee[e] \in Int /\ fee[e] = e.row["fee"]
    BY <1>1, RowIs DEF Entries, TradesUpTo
  <2>3. O \cup C = T /\ O \cap C = {}
    OBVIOUS
  <2> HIDE DEF fee, O, C
  <2>4. RowSum(T, "fee") = SumFunctionOnSet(fee, T)
    BY <2>1, <2>2, RowSumIs
  <2>5. RowSum(O, "fee") = SumFunctionOnSet(fee, O)
    BY <2>1, <2>2, <2>3, RowSumIs
  <2>6. RowSum(C, "fee") = SumFunctionOnSet(fee, C)
    BY <2>1, <2>2, <2>3, RowSumIs
  <2>7. SumFunctionOnSet(fee, O \cup C) = SumFunctionOnSet(fee, O) + SumFunctionOnSet(fee, C)
    BY <2>1, <2>2, <2>3, SumUnion
  <2> QED
    BY <2>3, <2>4, <2>5, <2>6, <2>7
<1> HIDE DEF M, U, L, O, C
<1> QED
  BY <1>6, <1>7, <1>8 DEF M, U, L


-----------------------------------------------------------------------------
(***************************************************************************)
(* The details of a report.                                                *)
(***************************************************************************)

\* The detail of a row, and the rows of a summary that have one.
DetailOf(c, e) ==
    LET fees == SumFunction([m \in MatchesBy(c, e) |-> m.openFee + m.closeFee])
    IN  [of        |-> e,
         fees      |-> IF OtherFee(e) THEN -e.row.change ELSE fees,
         profit    |-> IF OtherFee(e) THEN e.row.change
                       ELSE SumFunction([m \in MatchesBy(c, e) |-> Profit(m)]) - fees,
         dividends |-> IF Dividend(e) THEN e.row.change ELSE 0]
Detailed(H) == {e \in H : Trade(e) \/ Dividend(e) \/ OtherFee(e)}

LEMMA DetailsOf ==
    ASSUME NEW E, NEW c, NEW filter, NEW year, NEW currency,
           NEW X, X = Detailed(Here(E, filter, year, currency)),
           NEW D, D = {d \in Details(E, c, filter) : In(year, currency, d.of)}
    PROVE  [e \in X |-> DetailOf(c, e)] \in Bijection(X, D)
<1> DEFINE h == [e \in X |-> DetailOf(c, e)]
           I == {f \in E : Includes(filter, f) /\ (Trade(f) \/ Dividend(f) \/ OtherFee(f))}
<1>1. Details(E, c, filter) = {DetailOf(c, e) : e \in I}
  BY DEF Details, DetailOf, MatchesBy, SumOver
<1>2. \A e : DetailOf(c, e).of = e
  BY DEF DetailOf
<1>3. X = {e \in I : In(year, currency, e)}
  BY DEF Detailed, Here
<1>4. D = {DetailOf(c, e) : e \in X}
  <2> HIDE DEF I
  <2> QED
    BY <1>1, <1>2, <1>3
<1>5. h \in [X -> D] /\ \A d \in D : \E e \in X : h[e] = d
  BY <1>4
<1>6. \A e, f \in X : h[e] = h[f] => e = f
  BY <1>2
<1> HIDE DEF h
<1>7. h \in Injection(X, D) /\ h \in Surjection(X, D)
  BY <1>5, <1>6 DEF Injection, IsInjective, Surjection
<1>8. h \in Bijection(X, D)
  BY <1>7 DEF Bijection
<1> QED
  BY <1>8 DEF h

\* The fees and the profit of the matches, one by one.
FeesBy(c) == [m \in c.matches |-> m.openFee + m.closeFee]
ProfitBy(c) == [m \in c.matches |-> Profit(m)]

\* The matches of a kind.
KindIn(M, kind, short) == {m \in M : m.close.row.kind = kind /\ Short(m.close) = short}

\* What matches cost in fees, and what is left of their gain after fees.
TradeFees(M) == SumFunction([m \in M |-> m.openFee + m.closeFee])
NetOf(M, fees) ==
    FieldSum(KindIn(M, "security", FALSE), "proceeds") - FieldSum(KindIn(M, "security", FALSE), "cost")
      + FieldSum(KindIn(M, "security", TRUE), "cost") - FieldSum(KindIn(M, "security", TRUE), "proceeds")
      + FieldSum(KindIn(M, "fund", FALSE), "proceeds") - FieldSum(KindIn(M, "fund", FALSE), "cost") - fees

\* The changes of an account that are other fees or dividends.
OthersIn(H) == {e \in H : OtherFee(e)}
DividendsIn(H) == {e \in H : Dividend(e)}

LEMMA SummaryMakes ==
    ASSUME NEW E, NEW c, NEW filter, NEW year, NEW currency,
           NEW H, H = Here(E, filter, year, currency), NEW M, M = MatchesIn(c, H)
    PROVE  LET r == Summary(E, c, filter, year, currency)
               other == -RowSum(OthersIn(H), "change")
           IN  /\ r.fees = TradeFees(M) + other
               /\ r.net = NetOf(M, TradeFees(M) + other)
               /\ r.dividends = RowSum(DividendsIn(H), "change")
<1>1. {m \in c.matches : m.close \in {e \in E : Includes(filter, e) /\ In(year, currency, e)}} = M
  BY DEF MatchesIn, Here
<1>2. {e \in E : Includes(filter, e) /\ In(year, currency, e)} = H
  BY DEF Here
<1> QED
  BY <1>1, <1>2 DEF Summary, KindIn, OthersIn, DividendsIn, SumOver, FieldSum, RowSum,
                    TradeFees, NetOf

\* What a kind of matches gains.
LEMMA KindGains ==
    ASSUME NEW P, NEW c, Shape(P, c), NEW M \in SUBSET c.matches,
           NEW kind, NEW short, NEW K, K = KindIn(M, kind, short)
    PROVE  /\ IsFiniteSet(K) /\ K \in SUBSET c.matches
           /\ FieldSum(K, "proceeds") \in Int /\ FieldSum(K, "cost") \in Int
           /\ short = FALSE =>
                SumFunctionOnSet(ProfitBy(c), K) = FieldSum(K, "proceeds") - FieldSum(K, "cost")
           /\ short = TRUE =>
                SumFunctionOnSet(ProfitBy(c), K) = FieldSum(K, "cost") - FieldSum(K, "proceeds")
<1> DEFINE fp == [m \in K |-> m.proceeds]
           fc == [m \in K |-> m.cost]
           g == ProfitBy(c)
<1>1. K \in SUBSET c.matches
  BY DEF KindIn
<1>2. IsFiniteSet(K) /\ FieldSum(K, "proceeds") \in Int /\ FieldSum(K, "cost") \in Int
  BY <1>1, Amounts
<1>3. \A m \in K : fp[m] \in Int /\ fp[m] = m["proceeds"] /\ fc[m] \in Int /\ fc[m] = m["cost"]
  BY <1>1 DEF Shape, Pair
<1>4. FieldSum(K, "proceeds") = SumFunctionOnSet(fp, K) /\ FieldSum(K, "cost") = SumFunctionOnSet(fc, K)
  <2> HIDE DEF fp, fc
  <2> QED
    BY <1>2, <1>3, FieldSumIs
<1>5. \A m \in K : g[m] = IF short THEN fc[m] - fp[m] ELSE fp[m] - fc[m]
  BY <1>1 DEF ProfitBy, Profit, KindIn
<1> HIDE DEF fp, fc, g
<1>6. ASSUME \A m \in K : g[m] = fp[m] - fc[m]
      PROVE  SumFunctionOnSet(g, K) = SumFunctionOnSet(fp, K) - SumFunctionOnSet(fc, K)
  BY <1>2, <1>3, <1>6, SumMinus
<1>7. ASSUME \A m \in K : g[m] = fc[m] - fp[m]
      PROVE  SumFunctionOnSet(g, K) = SumFunctionOnSet(fc, K) - SumFunctionOnSet(fp, K)
  BY <1>2, <1>3, <1>7, SumMinus
<1>8. short = FALSE => SumFunctionOnSet(g, K) = SumFunctionOnSet(fp, K) - SumFunctionOnSet(fc, K)
  BY <1>5, <1>6
<1>9. short = TRUE => SumFunctionOnSet(g, K) = SumFunctionOnSet(fc, K) - SumFunctionOnSet(fp, K)
  BY <1>5, <1>7
<1> QED
  BY <1>1, <1>2, <1>4, <1>8, <1>9 DEF g

\* The profit of matches is what securities, long and short, and funds gain; a fund is
\* never short.
LEMMA Gains ==
    ASSUME NEW P, Entries(P), NEW c, Shape(P, c), NEW M \in SUBSET c.matches
    PROVE  \A fees \in Int : NetOf(M, fees) = SumFunctionOnSet(ProfitBy(c), M) - fees
<1> DEFINE L == KindIn(M, "security", FALSE)
           S == KindIn(M, "security", TRUE)
           F == KindIn(M, "fund", FALSE)
           g == ProfitBy(c)
<1>1. M = (L \cup S) \cup F /\ L \cap S = {} /\ (L \cup S) \cap F = {}
  <2>1. ASSUME NEW m \in M
        PROVE  /\ m.close.row.kind \in {"security", "fund"} /\ Short(m.close) \in BOOLEAN
               /\ m.close.row.kind = "fund" => ~Short(m.close)
    <3>1. m.close \in P /\ Closing(m.close)
      BY DEF Shape, Pair
    <3>2. Entry(m.close) /\ Trade(m.close)
      BY <3>1 DEF Entries, Closing
    <3> QED
      BY <3>2, RowIs DEF Trade, Short
  <2> QED
    BY <2>1 DEF KindIn
<1>2. /\ IsFiniteSet(L) /\ L \in SUBSET c.matches
      /\ FieldSum(L, "proceeds") \in Int /\ FieldSum(L, "cost") \in Int
      /\ SumFunctionOnSet(g, L) = FieldSum(L, "proceeds") - FieldSum(L, "cost")
  BY KindGains
<1>3. /\ IsFiniteSet(S) /\ S \in SUBSET c.matches
      /\ FieldSum(S, "proceeds") \in Int /\ FieldSum(S, "cost") \in Int
      /\ SumFunctionOnSet(g, S) = FieldSum(S, "cost") - FieldSum(S, "proceeds")
  BY KindGains
<1>4. /\ IsFiniteSet(F) /\ F \in SUBSET c.matches
      /\ FieldSum(F, "proceeds") \in Int /\ FieldSum(F, "cost") \in Int
      /\ SumFunctionOnSet(g, F) = FieldSum(F, "proceeds") - FieldSum(F, "cost")
  BY KindGains
<1>5. \A m \in c.matches : g[m] \in Int
  BY DEF ProfitBy, Profit, Shape, Pair
<1> HIDE DEF g, L, S, F
<1>6. /\ IsFiniteSet(L \cup S)
      /\ SumFunctionOnSet(g, L \cup S) = SumFunctionOnSet(g, L) + SumFunctionOnSet(g, S)
  <2>1. \A m \in L \cup S : g[m] \in Int
    BY <1>2, <1>3, <1>5
  <2> QED
    BY <1>1, <1>2, <1>3, <2>1, SumUnion
<1>7. SumFunctionOnSet(g, (L \cup S) \cup F) = SumFunctionOnSet(g, L \cup S) + SumFunctionOnSet(g, F)
  <2>1. \A m \in (L \cup S) \cup F : g[m] \in Int
    BY <1>2, <1>3, <1>4, <1>5
  <2> QED
    BY <1>1, <1>4, <1>6, <2>1, SumUnion
<1>8. \A fees \in Int :
        FieldSum(L, "proceeds") - FieldSum(L, "cost") + FieldSum(S, "cost")
          - FieldSum(S, "proceeds") + FieldSum(F, "proceeds") - FieldSum(F, "cost") - fees
        = SumFunctionOnSet(g, M) - fees
  BY <1>1, <1>2, <1>3, <1>4, <1>6, <1>7
<1> QED
  BY <1>8 DEF NetOf, g, L, S, F


\* The rows of a summary, and the details that they have.
LEMMA DetailSums ==
    ASSUME NEW E, Entries(E), NEW c, Shape(E, c), NEW filter, NEW year, NEW currency,
           NEW H, H = Here(E, filter, year, currency), NEW M, M = MatchesIn(c, H),
           NEW X, X = Detailed(H), NEW D, D = {d \in Details(E, c, filter) : In(year, currency, d.of)}
    PROVE  /\ FieldSum(D, "fees") = SumFunctionOnSet(FeesBy(c), M) - RowSum(OthersIn(H), "change")
           /\ FieldSum(D, "profit") = SumFunctionOnSet(ProfitBy(c), M) - SumFunctionOnSet(FeesBy(c), M)
                                        + RowSum(OthersIn(H), "change")
           /\ FieldSum(D, "dividends") = RowSum(DividendsIn(H), "change")
           /\ SumFunctionOnSet(FeesBy(c), M) \in Int /\ SumFunctionOnSet(ProfitBy(c), M) \in Int
           /\ RowSum(OthersIn(H), "change") \in Int
<1> DEFINE w == FeesBy(c)
           p == ProfitBy(c)
           h == [m \in M |-> m.close]
           gw == [e \in X |-> SumFunctionOnSet(w, MatchesBy(c, e))]
           gp == [e \in X |-> SumFunctionOnSet(p, MatchesBy(c, e))]
           go == [e \in X |-> IF OtherFee(e) THEN e.row.change ELSE 0]
           gd == [e \in X |-> IF Dividend(e) THEN e.row.change ELSE 0]
           gf == [e \in X |-> gw[e] - go[e]]
           gg == [e \in X |-> gp[e] - gw[e]]
           gr == [e \in X |-> gg[e] + go[e]]
           r == [e \in X |-> DetailOf(c, e)]
<1>1. IsFiniteSet(X) /\ X \in SUBSET H /\ \A e \in X : Entry(e)
  BY FS_Subset DEF Entries, Detailed, Here
<1>2. /\ M \in SUBSET c.matches /\ IsFiniteSet(M)
      /\ \A m \in M : m.close \in X
      /\ \A m \in c.matches : w[m] \in Int /\ p[m] \in Int
  <2>1. M \in SUBSET c.matches /\ IsFiniteSet(M)
    BY FS_Subset DEF MatchesIn, Shape
  <2>2. \A m \in c.matches : Trade(m.close)
    BY DEF Shape, Pair, Closing
  <2>3. \A m \in M : m.close \in X
    BY <2>1, <2>2 DEF MatchesIn, Detailed
  <2>4. \A m \in c.matches : w[m] \in Int /\ p[m] \in Int
    BY DEF FeesBy, ProfitBy, Profit, Shape, Pair
  <2> QED
    BY <2>1, <2>3, <2>4
<1>3. ASSUME NEW e \in X
      PROVE  /\ MatchesBy(c, e) = Fibre(h, M, e)
             /\ IsFiniteSet(MatchesBy(c, e)) /\ MatchesBy(c, e) \in SUBSET c.matches
             /\ OtherFee(e) => MatchesBy(c, e) = {}
             /\ go[e] \in Int /\ gd[e] \in Int
  <2>1. MatchesBy(c, e) = Fibre(h, M, e)
    BY <1>1 DEF MatchesBy, MatchesIn, Fibre
  <2>2. MatchesBy(c, e) \in SUBSET c.matches
    BY DEF MatchesBy
  <2>3. IsFiniteSet(MatchesBy(c, e))
    BY <2>2, FS_Subset DEF Shape
  <2>4. OtherFee(e) => MatchesBy(c, e) = {}
    <3>1. \A m \in c.matches : Trade(m.close)
      BY DEF Shape, Pair, Closing
    <3>2. OtherFee(e) => ~Trade(e)
      BY <1>1, RowIs
    <3> QED
      BY <3>1, <3>2 DEF MatchesBy
  <2>5. go[e] \in Int /\ gd[e] \in Int
    BY <1>1, RowIs
  <2> QED
    BY <2>1, <2>2, <2>3, <2>4, <2>5
<1>4. ASSUME NEW e \in X
      PROVE  /\ gw[e] \in Int /\ gp[e] \in Int
             /\ OtherFee(e) => gw[e] = 0 /\ gp[e] = 0
             /\ SumFunction([m \in MatchesBy(c, e) |-> m.openFee + m.closeFee]) = gw[e]
             /\ SumFunction([m \in MatchesBy(c, e) |-> Profit(m)]) = gp[e]
  <2> DEFINE B == MatchesBy(c, e)
             f1 == [m \in B |-> m.openFee + m.closeFee]
             f2 == [m \in B |-> Profit(m)]
  <2>1. \A m \in B : w[m] = f1[m] /\ p[m] = f2[m] /\ w[m] \in Int /\ p[m] \in Int
    BY <1>2, <1>3 DEF FeesBy, ProfitBy
  <2>2. IsFiniteSet(B) /\ DOMAIN f1 = B /\ DOMAIN f2 = B
    BY <1>3
  <2>3. SumFunctionOnSet(w, B) \in Int /\ SumFunctionOnSet(p, B) \in Int
    <3> HIDE DEF w, p, B, f1, f2
    <3> QED
      BY <2>1, <2>2, SumInt
  <2>4. SumFunction(f1) = SumFunctionOnSet(w, B) /\ SumFunction(f2) = SumFunctionOnSet(p, B)
    <3> HIDE DEF w, p, B, f1, f2
    <3> QED
      BY <2>1, <2>2, SumOf
  <2>5. OtherFee(e) => SumFunctionOnSet(w, B) = 0 /\ SumFunctionOnSet(p, B) = 0
    BY <1>3, SumEmpty
  <2> QED
    BY <2>3, <2>4, <2>5
<1>5. ASSUME NEW e \in X
      PROVE  /\ gf[e] \in Int /\ gg[e] \in Int /\ gr[e] \in Int
             /\ r[e]["fees"] = gf[e] /\ r[e]["profit"] = gr[e] /\ r[e]["dividends"] = gd[e]
  <2> DEFINE sw == SumFunction([m \in MatchesBy(c, e) |-> m.openFee + m.closeFee])
             sp == SumFunction([m \in MatchesBy(c, e) |-> Profit(m)])
  <2>1. /\ r[e].fees = IF OtherFee(e) THEN -e.row.change ELSE sw
        /\ r[e].profit = IF OtherFee(e) THEN e.row.change ELSE sp - sw
        /\ r[e].dividends = IF Dividend(e) THEN e.row.change ELSE 0
    BY DEF DetailOf
  <2>2. sw = gw[e] /\ sp = gp[e] /\ gw[e] \in Int /\ gp[e] \in Int
    BY <1>4
  <2>3. OtherFee(e) => gw[e] = 0 /\ gp[e] = 0 /\ e.row.change \in Int
    BY <1>1, <1>4, RowIs
  <2>4. /\ gf[e] = gw[e] - go[e] /\ gg[e] = gp[e] - gw[e] /\ gr[e] = gg[e] + go[e]
        /\ go[e] = (IF OtherFee(e) THEN e.row.change ELSE 0)
        /\ gd[e] = (IF Dividend(e) THEN e.row.change ELSE 0) /\ go[e] \in Int
    BY <1>3
  <2> HIDE DEF gw, gp, go, gd, gf, gg, gr, r, sw, sp
  <2> QED
    BY <2>1, <2>2, <2>3, <2>4
<1>6. SumFunctionOnSet(gw, X) = SumFunctionOnSet(w, M) /\ SumFunctionOnSet(gp, X) = SumFunctionOnSet(p, M)
  <2>1. h \in [M -> X]
    BY <1>2
  <2>2. \A e \in X : /\ gw[e] = SumFunctionOnSet(w, Fibre(h, M, e))
                     /\ gp[e] = SumFunctionOnSet(p, Fibre(h, M, e))
    BY <1>3
  <2>3. \A m \in M : w[m] \in Int /\ p[m] \in Int
    BY <1>2
  <2> HIDE DEF w, p, h, gw, gp
  <2>4. SumFunctionOnSet(gw, X) = SumFunctionOnSet(w, M)
    BY <1>1, <1>2, <2>1, <2>2, <2>3, SumParts
  <2>5. SumFunctionOnSet(gp, X) = SumFunctionOnSet(p, M)
    BY <1>1, <1>2, <2>1, <2>2, <2>3, SumParts
  <2> QED
    BY <2>4, <2>5
<1>7. RowSum(OthersIn(H), "change") = SumFunctionOnSet(go, X)
  <2> DEFINE S == OthersIn(H)
  <2>1. S \in SUBSET X /\ IsFiniteSet(S)
    BY <1>1, FS_Subset DEF OthersIn, Detailed
  <2>2. (\A e \in S : go[e] = e.row["change"]) /\ \A e \in X \ S : go[e] = 0
    BY <1>1 DEF OthersIn, Detailed
  <2>3. \A e \in X : go[e] \in Int
    BY <1>3
  <2> HIDE DEF go, S
  <2>4. RowSum(S, "change") = SumFunctionOnSet(go, S)
    BY <2>1, <2>2, RowSumIs
  <2>5. SumFunctionOnSet(go, S) = SumFunctionOnSet(go, X)
    BY <1>1, <2>1, <2>2, <2>3, SumSkip
  <2> QED
    BY <2>4, <2>5 DEF S
<1>8. RowSum(DividendsIn(H), "change") = SumFunctionOnSet(gd, X)
  <2> DEFINE S == DividendsIn(H)
  <2>1. S \in SUBSET X /\ IsFiniteSet(S)
    BY <1>1, FS_Subset DEF DividendsIn, Detailed
  <2>2. (\A e \in S : gd[e] = e.row["change"]) /\ \A e \in X \ S : gd[e] = 0
    BY <1>1 DEF DividendsIn, Detailed
  <2>3. \A e \in X : gd[e] \in Int
    BY <1>3
  <2> HIDE DEF gd, S
  <2>4. RowSum(S, "change") = SumFunctionOnSet(gd, S)
    BY <2>1, <2>2, RowSumIs
  <2>5. SumFunctionOnSet(gd, S) = SumFunctionOnSet(gd, X)
    BY <1>1, <2>1, <2>2, <2>3, SumSkip
  <2> QED
    BY <2>4, <2>5 DEF S
<1>9. r \in Bijection(X, D)
  BY DetailsOf
<1>10. \A e \in X : /\ gw[e] \in Int /\ gp[e] \in Int /\ go[e] \in Int /\ gd[e] \in Int
                    /\ gf[e] \in Int /\ gg[e] \in Int /\ gr[e] \in Int
                    /\ gf[e] = gw[e] - go[e] /\ gg[e] = gp[e] - gw[e] /\ gr[e] = gg[e] + go[e]
                    /\ r[e]["fees"] = gf[e] /\ r[e]["profit"] = gr[e] /\ r[e]["dividends"] = gd[e]
  <2> TAKE e \in X
  <2>1. gf[e] = gw[e] - go[e] /\ gg[e] = gp[e] - gw[e] /\ gr[e] = gg[e] + go[e]
    OBVIOUS
  <2> HIDE DEF w, p, gw, gp, go, gd, gf, gg, gr, r
  <2> QED
    BY <1>3, <1>4, <1>5, <2>1
<1> HIDE DEF w, p, h, gw, gp, go, gd, gf, gg, gr, r
<1>11. /\ FieldSum(D, "fees") = SumFunctionOnSet(gf, X)
       /\ FieldSum(D, "profit") = SumFunctionOnSet(gr, X)
       /\ FieldSum(D, "dividends") = SumFunctionOnSet(gd, X)
  <2>1. FieldSum(D, "fees") = SumFunctionOnSet(gf, X)
    BY <1>1, <1>9, <1>10, FieldImage
  <2>2. FieldSum(D, "profit") = SumFunctionOnSet(gr, X)
    BY <1>1, <1>9, <1>10, FieldImage
  <2>3. FieldSum(D, "dividends") = SumFunctionOnSet(gd, X)
    BY <1>1, <1>9, <1>10, FieldImage
  <2> QED
    BY <2>1, <2>2, <2>3
<1>12. SumFunctionOnSet(gf, X) = SumFunctionOnSet(gw, X) - SumFunctionOnSet(go, X)
  BY <1>1, <1>10, SumMinus
<1>13. SumFunctionOnSet(gg, X) = SumFunctionOnSet(gp, X) - SumFunctionOnSet(gw, X)
  BY <1>1, <1>10, SumMinus
<1>14. SumFunctionOnSet(gr, X) = SumFunctionOnSet(gg, X) + SumFunctionOnSet(go, X)
  BY <1>1, <1>10, SumPlus
<1>15. SumFunctionOnSet(gw, X) \in Int /\ SumFunctionOnSet(gp, X) \in Int /\ SumFunctionOnSet(go, X) \in Int
  BY <1>1, <1>10, SumInt
<1> QED
  BY <1>6, <1>7, <1>8, <1>11, <1>12, <1>13, <1>14, <1>15 DEF w, p


-----------------------------------------------------------------------------
(***************************************************************************)
(* The theorems.                                                           *)
(***************************************************************************)

\* The statements of a space are among those that can be imported, after any imports and
\* deletions.
THEOREM TypeCorrect == Spec => []TypeOK
<1>1. Init => TypeOK
  BY DEF Init, TypeOK
<1>2. TypeOK /\ [Next]_vars => TypeOK'
  <2> SUFFICES ASSUME TypeOK, [Next]_vars PROVE TypeOK'
    OBVIOUS
  <2>1. CASE UNCHANGED vars
    BY <2>1 DEF TypeOK, vars
  <2>2. ASSUME NEW file \in Files, Import(file) PROVE TypeOK'
    BY <2>2 DEF TypeOK, Import
  <2>3. ASSUME NEW n \in 1 .. Len(imports), Delete(n) PROVE TypeOK'
    <3>1. SubSeq(imports, 1, n - 1) \in Seq(Files) /\ SubSeq(imports, n + 1, Len(imports)) \in Seq(Files)
      BY SMT DEF TypeOK
    <3> QED
      BY <2>3, <3>1 DEF TypeOK, Delete, RemoveAt
  <2> QED
    BY <2>1, <2>2, <2>3 DEF Next
<1> QED
  BY <1>1, <1>2, PTL DEF Spec

\* What a closing has closed, in the report of all the rows.
LEMMA UnitByUnit == ASSUME TypeOK PROVE FirstInFirstOut
<1> DEFINE E == Merged
           c == Calculation(E)
<1>1. Entries(E) /\ Good(E, E, c)
  BY MergedIs, CalculationIsGood
<1>2. Shape(E, c) /\ Served(E, c)
  BY <1>1 DEF Good
<1>3. ASSUME NEW x \in {e \in {e \in E : Trade(e)} : ~Opens(e)}
      PROVE  LET done == Lesser(x.row.quantity, Opened(E, x) - Closed(c, x))
                 of == {m \in c.matches : m.close = x}
             IN  /\ SumOver(of, LAMBDA m : m.quantity) = done
                 /\ \A m \in of : m.quantity = Cardinality(
                        (Closed(c, x) + 1 .. Closed(c, x) + done)
                          \cap (Opened(E, m.open) + 1 .. Opened(E, m.open) + m.open.row.quantity))
  <2> DEFINE done == Lesser(x.row.quantity, Opened(E, x) - Closed(c, x))
             of == {m \in c.matches : m.close = x}
  <2>1. x \in E /\ Closing(x)
    BY DEF Closing
  <2>2. of = MatchesBy(c, x) /\ done = Matched(E, c, x)
    BY DEF MatchesBy, Matched
  <2>3. /\ Closed(c, x) \in Int /\ Closed(c, x) >= 0 /\ Closed(c, x) <= Opened(E, x)
        /\ FieldSum(MatchesBy(c, x), "quantity") = Matched(E, c, x)
        /\ \A m \in MatchesBy(c, x) :
              m.quantity = Shared(Closed(c, x), Matched(E, c, x), Opened(E, m.open), m.open.row.quantity)
    BY <1>2, <2>1 DEF Served
  <2>4. SumOver(of, LAMBDA m : m.quantity) = done
    BY <2>2, <2>3 DEF SumOver, FieldSum
  <2>5. Opened(E, x) \in Int /\ x.row.quantity \in Nat
    BY <1>1, <2>1, OpenedGrows, RowIs DEF Entries, Closing
  <2>6. done \in Nat
    BY <2>3, <2>5 DEF Lesser
  <2>7. ASSUME NEW m \in of
        PROVE  m.quantity = Cardinality(
                   (Closed(c, x) + 1 .. Closed(c, x) + done)
                     \cap (Opened(E, m.open) + 1 .. Opened(E, m.open) + m.open.row.quantity))
    <3>1. m \in Pair(E)
      BY <1>2 DEF Shape
    <3>2. m.open \in E /\ Opening(m.open)
      BY <3>1 DEF Pair
    <3>3. Opened(E, m.open) \in Int /\ m.open.row.quantity \in Nat
      BY <1>1, <3>2, OpenedGrows, RowIs DEF Entries, Opening
    <3>4. m.quantity = Shared(Closed(c, x), done, Opened(E, m.open), m.open.row.quantity)
      BY <2>2, <2>3
    <3> HIDE DEF done
    <3> QED
      BY <2>3, <2>6, <3>3, <3>4, SharedIs
  <2> QED
    BY <2>4, <2>7
<1> QED
  BY <1>3 DEF FirstInFirstOut

\* First in, first out, unit by unit: whatever statements were imported and deleted, the
\* n-th unit that is closed in a book of Calculate is the n-th that was opened there.
THEOREM FirstIn == Spec => []FirstInFirstOut
  BY TypeCorrect, UnitByUnit, PTL


LEMMA BalanceOfAccounts == ASSUME TypeOK PROVE DeferredIsCarried
<1>1. ASSUME NEW to \in Dates, NEW account \in Accounts \cup {Anyone}, NEW currency \in Currencies
      PROVE  Deferred(Merged, Calculation(Merged),
                      [from |-> Min(Dates), to |-> to, account |-> account], YearOf(to), currency)
               = Carried(to, currency, LAMBDA owner : account \in {Anyone, owner})
  <2> DEFINE filter == [from |-> Min(Dates), to |-> to, account |-> account]
  <2>1. filter.to = to /\ filter.account = account
    OBVIOUS
  <2>2. Entries(Merged)
    BY MergedIs
  <2> HIDE DEF filter
  <2>3. Deferred(Merged, Calculation(Merged), filter, YearOf(to), currency)
          = FieldSum({l \in Calculation(UpTo(Merged, to)).lots :
                         l.of.row.currency = currency /\ filter.account \in {Anyone, l.of.row.account}}, "fee")
    BY <2>1, <2>2, DeferredIs
  <2>4. Deferred(Merged, Calculation(Merged), filter, YearOf(to), currency)
          = FieldSum({l \in Calculation(UpTo(Merged, to)).lots :
                         l.of.row.currency = currency /\ account \in {Anyone, l.of.row.account}}, "fee")
    BY <2>1, <2>3
  <2>5. Carried(to, currency, LAMBDA owner : account \in {Anyone, owner})
          = FieldSum({l \in Calculation(UpTo(Merged, to)).lots :
                         l.of.row.currency = currency /\ account \in {Anyone, l.of.row.account}}, "fee")
    BY DEF Carried, SumOver, FieldSum, UpTo
  <2> QED
    BY <2>4, <2>5 DEF filter
<1> QED
  BY <1>1 DEF DeferredIsCarried

\* At every date, the balance of fees that applyDeferredFees gives an account, or all of
\* them, is what the lots that the account opened still carry.
THEOREM FeesAreDeferred == Spec => []DeferredIsCarried
  BY TypeCorrect, BalanceOfAccounts, PTL


LEMMA FeesBalance == ASSUME TypeOK PROVE FeesAddUp
<1> DEFINE E == Merged
           c == Calculation(E)
<1>1. Entries(E)
  BY MergedIs
<1>2. ASSUME NEW to \in Dates, NEW currency \in Currencies
      PROVE  LET rows == {Summary(E, c, Everything(to), y, currency) : y \in {z \in Years : z <= YearOf(to)}}
             IN  SumOver(rows, LAMBDA r : r.incurred)
                   = SumOver(rows, LAMBDA r : r.openFees + r.closeFees + r.unmatched)
                       + Carried(to, currency, LAMBDA account : TRUE)
  <2> DEFINE Z == YearsUpTo(to)
             S(y) == Summary(E, c, Everything(to), y, currency)
             rows == {S(y) : y \in Z}
             h == [y \in Z |-> S(y)]
             b == Calculation(UpTo(E, to))
             H == [y \in Z |-> Here(E, Everything(to), y, currency)]
             T == TradesUpTo(E, to, currency)
             M == MatchesIn(b, T)
             U == LacksIn(b, T)
             L == LotsIn(b, currency)
             gi == [y \in Z |-> S(y).incurred]
             go == [y \in Z |-> S(y).openFees]
             gc == [y \in Z |-> S(y).closeFees]
             gu == [y \in Z |-> S(y).unmatched]
             gf == [y \in Z |-> S(y).openFees + S(y).closeFees]
             gs == [y \in Z |-> S(y).openFees + S(y).closeFees + S(y).unmatched]
             ri == [r \in rows |-> r.incurred]
             rs == [r \in rows |-> r.openFees + r.closeFees + r.unmatched]
  <2>1. ASSUME NEW y \in Z
        PROVE  /\ gi[y] = RowSum(Trades(H[y]), "fee") /\ gi[y] \in Int
               /\ go[y] = FieldSum(MatchesIn(c, H[y]), "openFee") /\ go[y] \in Int
               /\ gc[y] = FieldSum(MatchesIn(c, H[y]), "closeFee") /\ gc[y] \in Int
               /\ gu[y] = FieldSum(LacksIn(c, H[y]), "fee") /\ gu[y] \in Int
    <3>1. /\ S(y).incurred = RowSum(Trades(H[y]), "fee")
          /\ S(y).openFees = FieldSum(MatchesIn(c, H[y]), "openFee")
          /\ S(y).closeFees = FieldSum(MatchesIn(c, H[y]), "closeFee")
          /\ S(y).unmatched = FieldSum(LacksIn(c, H[y]), "fee")
      BY SummaryIs
    <3>2. Shape(E, c)
      BY <1>1, CalculationIsGood DEF Good
    <3>3. MatchesIn(c, H[y]) \in SUBSET c.matches /\ LacksIn(c, H[y]) \in SUBSET c.missing
      BY DEF MatchesIn, LacksIn
    <3>4. /\ FieldSum(MatchesIn(c, H[y]), "openFee") \in Int
          /\ FieldSum(MatchesIn(c, H[y]), "closeFee") \in Int
          /\ FieldSum(LacksIn(c, H[y]), "fee") \in Int
      <4> HIDE DEF c, H
      <4> QED
        BY <3>2, <3>3, Amounts
    <3>5. RowSum(Trades(H[y]), "fee") \in Int
      <4> DEFINE Q == Trades(H[y])
                 f == [e \in Q |-> e.row.fee]
      <4>1. IsFiniteSet(Q) /\ \A e \in Q : f[e] \in Int /\ f[e] = e.row["fee"]
        BY <1>1, FS_Subset, RowIs DEF Entries, Here, Trades
      <4> HIDE DEF f, Q
      <4>2. RowSum(Q, "fee") = SumFunctionOnSet(f, Q)
        BY <4>1, RowSumIs
      <4> QED
        BY <4>1, <4>2, SumInt DEF Q
    <3> HIDE DEF H, c
    <3> QED
      BY <3>1, <3>4, <3>5
  <2>2. h \in Bijection(Z, rows)
    BY SummariesOf
  <2>3. \A y \in Z : /\ ri[h[y]] = gi[y]
                     /\ rs[h[y]] = gs[y]
                     /\ gf[y] = go[y] + gc[y]
                     /\ gs[y] = gf[y] + gu[y]
    OBVIOUS
  <2>4. SumOver(rows, LAMBDA r : r.incurred) = SumFunctionOnSet(ri, rows)
    BY DEF SumOver, SumFunction
  <2>5. SumOver(rows, LAMBDA r : r.openFees + r.closeFees + r.unmatched) = SumFunctionOnSet(rs, rows)
    BY DEF SumOver, SumFunction
  <2>6. Carried(to, currency, LAMBDA account : TRUE) = FieldSum(L, "fee")
    BY DEF Carried, SumOver, FieldSum, UpTo, LotsIn
  <2>7. /\ RowSum(T, "fee") = FieldSum(M, "openFee") + FieldSum(M, "closeFee")
                                + FieldSum(U, "fee") + FieldSum(L, "fee")
        /\ FieldSum(M, "openFee") \in Int /\ FieldSum(M, "closeFee") \in Int
        /\ FieldSum(U, "fee") \in Int /\ FieldSum(L, "fee") \in Int
    <3> HIDE DEF E, T, b
    <3> QED
      BY <1>1, FeesOfTrades DEF T, b
  <2>8. /\ IsFiniteSet(Z)
        /\ SumFunctionOnSet(gi, Z) = RowSum(T, "fee")
        /\ SumFunctionOnSet(go, Z) = FieldSum(M, "openFee")
        /\ SumFunctionOnSet(gc, Z) = FieldSum(M, "closeFee")
        /\ SumFunctionOnSet(gu, Z) = FieldSum(U, "fee")
    <3>1. \A y \in Z : H[y] = Here(E, Everything(to), y, currency)
      OBVIOUS
    <3>2. c = Calculation(E) /\ b = Calculation(UpTo(E, to)) /\ T = TradesUpTo(E, to, currency)
      OBVIOUS
    <3> HIDE DEF E, T, b, c, H, gi, go, gc, gu
    <3> QED
      BY <1>1, <2>1, <3>1, <3>2, FeesOfYears
  <2> HIDE DEF gi, go, gc, gu, gf, gs, ri, rs, h, rows, S, M, U, L, T, H, Z, b, c, E
  <2>9. \A y \in Z : gi[y] \in Int /\ go[y] \in Int /\ gc[y] \in Int /\ gu[y] \in Int
    BY <2>1
  <2>10. \A y \in Z : gf[y] \in Int /\ gs[y] \in Int
    BY <2>3, <2>9
  <2>11. SumFunctionOnSet(ri, rows) = SumFunctionOnSet(gi, Z)
    BY <2>8, <2>2, <2>3, <2>9, SumImage
  <2>12. SumFunctionOnSet(rs, rows) = SumFunctionOnSet(gs, Z)
    BY <2>8, <2>10, <2>2, <2>3, SumImage
  <2>13. SumFunctionOnSet(gf, Z) = SumFunctionOnSet(go, Z) + SumFunctionOnSet(gc, Z)
    BY <2>8, <2>3, <2>9, <2>10, SumPlus
  <2>14. SumFunctionOnSet(gs, Z) = SumFunctionOnSet(gf, Z) + SumFunctionOnSet(gu, Z)
    BY <2>8, <2>3, <2>9, <2>10, SumPlus
  <2>15. SumOver(rows, LAMBDA r : r.incurred)
           = SumOver(rows, LAMBDA r : r.openFees + r.closeFees + r.unmatched)
               + Carried(to, currency, LAMBDA account : TRUE)
    BY <2>8, <2>4, <2>5, <2>6, <2>7, <2>11, <2>12, <2>13, <2>14
  <2> QED
    BY <2>15 DEF rows, Z, S, c, E, YearsUpTo
<1> QED
  BY <1>2 DEF FeesAddUp

\* At every date, whatever was imported and deleted, each fee that was ever paid is in one
\* place: recognised by a summary, unmatched, or carried by a lot that Calculate has open.
THEOREM FeesAreKept == Spec => []FeesAddUp
  BY TypeCorrect, FeesBalance, PTL


LEMMA DetailsBalance == ASSUME TypeOK PROVE DetailsAddUp
<1> DEFINE E == Merged
           c == Calculation(E)
<1>1. Entries(E) /\ Shape(E, c)
  BY MergedIs, CalculationIsGood DEF Good
<1>2. ASSUME NEW filter, NEW year \in Years, NEW currency \in Currencies
      PROVE  LET r == Summary(E, c, filter, year, currency)
                 mine == {d \in Details(E, c, filter) : In(year, currency, d.of)}
             IN  /\ r.fees = SumOver(mine, LAMBDA d : d.fees)
                 /\ r.net = SumOver(mine, LAMBDA d : d.profit)
                 /\ r.dividends = SumOver(mine, LAMBDA d : d.dividends)
  <2> DEFINE r == Summary(E, c, filter, year, currency)
             mine == {d \in Details(E, c, filter) : In(year, currency, d.of)}
             H == Here(E, filter, year, currency)
             M == MatchesIn(c, H)
             X == Detailed(H)
             f == [m \in M |-> m.openFee + m.closeFee]
             trade == TradeFees(M)
             other == -RowSum(OthersIn(H), "change")
  <2>1. /\ r.fees = trade + other
        /\ r.net = NetOf(M, trade + other)
        /\ r.dividends = RowSum(DividendsIn(H), "change")
    <3> HIDE DEF E, c
    <3> QED
      BY SummaryMakes
  <2>2. M \in SUBSET c.matches /\ IsFiniteSet(M)
    BY <1>1, FS_Subset DEF MatchesIn, Shape
  <2>3. trade = SumFunctionOnSet(FeesBy(c), M)
    <3>1. DOMAIN f = M /\ \A m \in M : f[m] = FeesBy(c)[m]
      BY <2>2 DEF FeesBy
    <3>2. SumFunction(f) = SumFunctionOnSet(FeesBy(c), M)
      <4> HIDE DEF f, M, c
      <4> QED
        BY <2>2, <3>1, SumOf
    <3> QED
      BY <3>2 DEF TradeFees
  <2>4. \A fees \in Int : NetOf(M, fees) = SumFunctionOnSet(ProfitBy(c), M) - fees
    <3> HIDE DEF M, c, E
    <3> QED
      BY <1>1, <2>2, Gains
  <2>5. /\ FieldSum(mine, "fees") = SumFunctionOnSet(FeesBy(c), M) - RowSum(OthersIn(H), "change")
        /\ FieldSum(mine, "profit") = SumFunctionOnSet(ProfitBy(c), M) - SumFunctionOnSet(FeesBy(c), M)
                                        + RowSum(OthersIn(H), "change")
        /\ FieldSum(mine, "dividends") = RowSum(DividendsIn(H), "change")
        /\ SumFunctionOnSet(FeesBy(c), M) \in Int /\ SumFunctionOnSet(ProfitBy(c), M) \in Int
        /\ RowSum(OthersIn(H), "change") \in Int
    <3>1. H = Here(E, filter, year, currency) /\ M = MatchesIn(c, H) /\ X = Detailed(H)
      OBVIOUS
    <3>2. mine = {d \in Details(E, c, filter) : In(year, currency, d.of)}
      OBVIOUS
    <3> HIDE DEF H, M, X, mine, c, E
    <3> QED
      BY <1>1, <3>1, <3>2, DetailSums
  <2>6. /\ SumOver(mine, LAMBDA d : d.fees) = FieldSum(mine, "fees")
        /\ SumOver(mine, LAMBDA d : d.profit) = FieldSum(mine, "profit")
        /\ SumOver(mine, LAMBDA d : d.dividends) = FieldSum(mine, "dividends")
    BY DEF SumOver, FieldSum
  <2>7. r.fees = FieldSum(mine, "fees") /\ r.net = FieldSum(mine, "profit")
    <3> HIDE DEF r, mine, H, M, c, E, trade
    <3>1. trade + other \in Int
      BY <2>3, <2>5
    <3>2. r.net = SumFunctionOnSet(ProfitBy(c), M) - (trade + other)
      BY <2>1, <2>4, <3>1
    <3> QED
      BY <2>1, <2>3, <2>5, <3>2
  <2>8. /\ r.fees = SumOver(mine, LAMBDA d : d.fees)
        /\ r.net = SumOver(mine, LAMBDA d : d.profit)
        /\ r.dividends = SumOver(mine, LAMBDA d : d.dividends)
    <3> HIDE DEF r, H, M, c, E
    <3> QED
      BY <2>1, <2>5, <2>6, <2>7
  <2> QED
    BY <2>8
<1> QED
  BY <1>2 DEF DetailsAddUp

\* Whatever was imported, and whichever dates and accounts a report selects, the details that
\* Calculate shows beneath a row add up to it: fees, profit and dividends.
THEOREM DetailsAreComplete == Spec => []DetailsAddUp
  BY TypeCorrect, DetailsBalance, PTL

=============================================================================
