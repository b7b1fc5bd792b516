---------------------------- MODULE SumTheorems ----------------------------
(***************************************************************************)
(* Sums over finite sets, and induction over their subsets: the facts that *)
(* the proofs about amounts of money, fees and units share.  Nothing here  *)
(* is about a model.                                                        *)
(***************************************************************************)
EXTENDS Integers, FiniteSets, FiniteSetsExt, Functions, FiniteSetTheorems,
        WellFoundedInduction, TLAPS

(***************************************************************************)
(* Induction on the size of a set.                                         *)
(***************************************************************************)

\* The order of the natural numbers.
Smaller == {ss \in Nat \X Nat : ss[1] < ss[2]}

\* The natural numbers are well-ordered.
LEMMA SmallerWellFounded == IsWellFoundedOn(Smaller, Nat)
  BY NatLessThanWellFounded, Zenon DEF OpToRel, Smaller

\* A set of numbers with 0 and every successor holds all of them.
LEMMA AllNumbers ==
    ASSUME NEW S \in SUBSET Nat, 0 \in S, \A n \in S : n + 1 \in S
    PROVE  \A n \in Nat : n \in S
<1> DEFINE T == Nat \ S
<1> SUFFICES ASSUME T # {} PROVE FALSE
  OBVIOUS
<1>1. PICK n \in T : \A k \in T : <<k, n>> \notin Smaller
  BY SmallerWellFounded, WFMin
<1>2. n - 1 \in Nat /\ <<n - 1, n>> \in Smaller
  BY <1>1 DEF Smaller
<1>3. n - 1 \in S
  BY <1>1, <1>2
<1> QED BY <1>1, <1>3

\* Taking an element out.
LEMMA Removed ==
    ASSUME NEW S, IsFiniteSet(S), NEW x \in S
    PROVE  /\ IsFiniteSet(S \ {x})
           /\ Cardinality(S) \in Nat \ {0}
           /\ Cardinality(S \ {x}) = Cardinality(S) - 1
<1>1. Cardinality(S) \in Nat /\ Cardinality(S) # 0
  BY FS_CardinalityType, FS_EmptySet
<1> QED BY <1>1, FS_RemoveElement

\* Induction over the subsets of a finite set, for a set of subsets that has {} and
\* every set that it has without one element, whichever.
LEMMA SubsetInduction ==
    ASSUME NEW S, IsFiniteSet(S), NEW P, {} \in P,
           \A s \in SUBSET S : s # {} /\ (\A x \in s : s \ {x} \in P) => s \in P
    PROVE  S \in P
<1> DEFINE N == {n \in Nat : \A s \in SUBSET S : Cardinality(s) <= n => s \in P}
<1>1. \A s \in SUBSET S : IsFiniteSet(s) /\ Cardinality(s) \in Nat /\ (Cardinality(s) = 0 <=> s = {})
  BY FS_Subset, FS_CardinalityType, FS_EmptySet
<1>2. 0 \in N
  <2>1. ASSUME NEW s \in SUBSET S, Cardinality(s) <= 0 PROVE s = {}
    BY <1>1, <2>1
  <2> QED BY <2>1
<1>3. ASSUME NEW n \in N PROVE n + 1 \in N
  <2>1. ASSUME NEW s \in SUBSET S, Cardinality(s) <= n + 1, NEW x \in s
        PROVE  s \ {x} \in P
    <3>1. Cardinality(s \ {x}) = Cardinality(s) - 1 /\ Cardinality(s) \in Nat
      BY <1>1, Removed
    <3> QED BY <2>1, <3>1
  <2>2. \A s \in SUBSET S : Cardinality(s) <= n + 1 => s \in P
    BY <2>1
  <2> QED BY <2>2
<1>4. Cardinality(S) \in N
  <2> HIDE DEF N
  <2>1. N \in SUBSET Nat
    BY DEF N
  <2> QED BY <1>1, <1>2, <1>3, <2>1, AllNumbers
<1> QED BY <1>1, <1>4

-----------------------------------------------------------------------------
(***************************************************************************)
(* Sums over finite sets: the recursion behind SumFunctionOnSet takes out  *)
(* one chosen element after the other.                                     *)
(***************************************************************************)

First(s) == CHOOSE x \in s : TRUE

SumUnfold(f, g, s) == IF s = {} THEN 0 ELSE f[First(s)] + g[s \ {First(s)}]

SumRuns(f, g, S) == g = [s \in SUBSET S |-> SumUnfold(f, g, s)]

\* The sum is the value of such a recursion.
LEMMA SumIsRun ==
    ASSUME NEW f, NEW S
    PROVE  SumFunctionOnSet(f, S) = (CHOOSE g : SumRuns(f, g, S))[S]
BY DEF SumFunctionOnSet, FoldFunctionOnSet, MapThenFoldSet, SumRuns, SumUnfold, First

\* The chosen element is one of the set.
LEMMA FirstIsIn == ASSUME NEW s, s # {} PROVE First(s) \in s
BY DEF First

\* The recursion has a solution.
LEMMA SumRunExists ==
    ASSUME NEW f, NEW S, IsFiniteSet(S)
    PROVE  \E g : SumRuns(f, g, S)
<1> DEFINE Upto(n, g) == \A s \in SUBSET S : Cardinality(s) <= n => g[s] = SumUnfold(f, g, s)
           N == {n \in Nat : \E g : Upto(n, g)}
<1>1. \A s \in SUBSET S : IsFiniteSet(s) /\ Cardinality(s) \in Nat /\ (Cardinality(s) = 0 <=> s = {})
  BY FS_Subset, FS_CardinalityType, FS_EmptySet
<1>2. 0 \in N
  <2>1. Upto(0, [s \in SUBSET S |-> 0])
    BY <1>1 DEF SumUnfold
  <2> QED BY <2>1
<1>3. ASSUME NEW n \in N PROVE n + 1 \in N
  <2>1. PICK g : Upto(n, g)
    OBVIOUS
  <2> DEFINE h == [s \in SUBSET S |-> IF Cardinality(s) <= n THEN g[s] ELSE SumUnfold(f, g, s)]
  <2>2. ASSUME NEW s \in SUBSET S, Cardinality(s) <= n + 1 PROVE h[s] = SumUnfold(f, h, s)
    <3>1. CASE s = {}
      BY <1>1, <2>1, <3>1 DEF SumUnfold
    <3>2. CASE s # {}
      <4> DEFINE t == s \ {First(s)}
      <4>1. t \in SUBSET S /\ Cardinality(t) <= n
        <5>1. First(s) \in s
          BY <3>2, FirstIsIn
        <5>2. Cardinality(t) = Cardinality(s) - 1 /\ Cardinality(s) \in Nat
          BY <1>1, <5>1, Removed
        <5> QED BY <2>2, <5>2
      <4>2. h[t] = g[t]
        BY <4>1
      <4>3. SumUnfold(f, h, s) = SumUnfold(f, g, s)
        BY <3>2, <4>2 DEF SumUnfold
      <4>4. h[s] = SumUnfold(f, g, s)
        BY <2>1
      <4> QED BY <4>3, <4>4
    <3> QED BY <3>1, <3>2
  <2>3. Upto(n + 1, h)
    BY <2>2
  <2>4. \E x : Upto(n + 1, x)
    <3> HIDE DEF h
    <3> QED BY <2>3
  <2> QED BY <2>4
<1>4. Cardinality(S) \in N
  <2> HIDE DEF N
  <2>1. N \in SUBSET Nat
    BY DEF N
  <2> QED BY <1>1, <1>2, <1>3, <2>1, AllNumbers
<1>5. PICK g : Upto(Cardinality(S), g)
  BY <1>4
<1>6. \A s \in SUBSET S : g[s] = SumUnfold(f, g, s)
  BY <1>5, FS_Subset
<1> DEFINE r == [s \in SUBSET S |-> g[s]]
<1>7. ASSUME NEW s \in SUBSET S PROVE r[s] = SumUnfold(f, r, s)
  BY <1>6 DEF SumUnfold
<1>8. SumRuns(f, r, S)
  BY <1>7 DEF SumRuns
<1> QED BY <1>8

\* And only one, on the subsets of a smaller set as on those of a larger.
LEMMA SumRunUnique ==
    ASSUME NEW f, NEW g, NEW h, NEW T, IsFiniteSet(T), NEW S \in SUBSET T,
           SumRuns(f, g, S), SumRuns(f, h, T)
    PROVE  g[S] = h[S]
<1> DEFINE P == {s \in SUBSET S : g[s] = h[s]}
<1>1. \A s \in SUBSET S : g[s] = SumUnfold(f, g, s) /\ h[s] = SumUnfold(f, h, s)
  BY DEF SumRuns
<1>2. {} \in P
  BY <1>1 DEF SumUnfold
<1>3. ASSUME NEW s \in SUBSET S, s # {}, \A x \in s : s \ {x} \in P
      PROVE  s \in P
  BY <1>1, <1>3, FirstIsIn DEF SumUnfold
<1>4. IsFiniteSet(S)
  BY FS_Subset
<1>5. S \in P
  <2> HIDE DEF P
  <2> QED BY <1>2, <1>3, <1>4, SubsetInduction
<1> QED BY <1>5

\* A sum takes its chosen element and the sum of the rest.
LEMMA SumStep ==
    ASSUME NEW f, NEW S, IsFiniteSet(S)
    PROVE  /\ SumFunctionOnSet(f, {}) = 0
           /\ S # {} => SumFunctionOnSet(f, S)
                          = f[First(S)] + SumFunctionOnSet(f, S \ {First(S)})
<1>1. ASSUME NEW T, IsFiniteSet(T)
      PROVE  \E g : SumRuns(f, g, T) /\ SumFunctionOnSet(f, T) = g[T]
  BY <1>1, SumRunExists, SumIsRun
<1>2. SumFunctionOnSet(f, {}) = 0
  <2>1. IsFiniteSet({})
    BY FS_EmptySet
  <2>2. PICK g : SumRuns(f, g, {}) /\ SumFunctionOnSet(f, {}) = g[{}]
    BY <1>1, <2>1
  <2> QED BY <2>2 DEF SumRuns, SumUnfold
<1>3. ASSUME S # {}
      PROVE  SumFunctionOnSet(f, S) = f[First(S)] + SumFunctionOnSet(f, S \ {First(S)})
  <2> DEFINE T == S \ {First(S)}
  <2>1. IsFiniteSet(T) /\ T \in SUBSET S
    BY <1>3, FirstIsIn, Removed
  <2>2. PICK g : SumRuns(f, g, S) /\ SumFunctionOnSet(f, S) = g[S]
    BY <1>1
  <2>3. PICK h : SumRuns(f, h, T) /\ SumFunctionOnSet(f, T) = h[T]
    BY <1>1, <2>1
  <2>4. h[T] = g[T]
    BY <2>1, <2>2, <2>3, SumRunUnique
  <2>5. g[S] = f[First(S)] + g[T]
    BY <1>3, <2>2 DEF SumRuns, SumUnfold
  <2> QED BY <2>2, <2>3, <2>4, <2>5
<1> QED BY <1>2, <1>3

\* A sum of numbers is a number.
LEMMA SumInt ==
    ASSUME NEW f, NEW S, IsFiniteSet(S), \A i \in S : f[i] \in Int
    PROVE  SumFunctionOnSet(f, S) \in Int
<1> DEFINE P == {s \in SUBSET S : SumFunctionOnSet(f, s) \in Int}
<1>1. {} \in P
  <2>1. SumFunctionOnSet(f, {}) = 0
    BY SumStep
  <2> QED BY <2>1
<1>2. ASSUME NEW s \in SUBSET S, s # {}, \A x \in s : s \ {x} \in P
      PROVE  s \in P
  <2>1. First(s) \in s /\ IsFiniteSet(s)
    BY <1>2, FirstIsIn, FS_Subset
  <2>2. SumFunctionOnSet(f, s) = f[First(s)] + SumFunctionOnSet(f, s \ {First(s)})
    BY <1>2, <2>1, SumStep
  <2> QED BY <1>2, <2>1, <2>2
<1>3. S \in P
  <2> HIDE DEF P
  <2> QED BY <1>1, <1>2, SubsetInduction
<1> QED BY <1>3

\* Any element may be taken first.
LEMMA SumAdd ==
    ASSUME NEW f, NEW S, IsFiniteSet(S), \A i \in S : f[i] \in Int, NEW x \in S
    PROVE  SumFunctionOnSet(f, S) = f[x] + SumFunctionOnSet(f, S \ {x})
<1> DEFINE P == {s \in SUBSET S : \A y \in s :
                    SumFunctionOnSet(f, s) = f[y] + SumFunctionOnSet(f, s \ {y})}
<1>1. {} \in P
  OBVIOUS
<1>2. ASSUME NEW s \in SUBSET S, s # {}, \A y \in s : s \ {y} \in P
      PROVE  s \in P
  <2> SUFFICES ASSUME NEW y \in s
               PROVE  SumFunctionOnSet(f, s) = f[y] + SumFunctionOnSet(f, s \ {y})
    OBVIOUS
  <2> DEFINE z == First(s)
             u == s \ {z}
             v == s \ {y}
             w == s \ {y, z}
  <2>1. z \in s /\ SumFunctionOnSet(f, s) = f[z] + SumFunctionOnSet(f, u)
    BY <1>2, FirstIsIn, FS_Subset, SumStep
  <2>2. CASE y = z
    BY <2>1, <2>2
  <2>3. CASE y # z
    <3>1. SumFunctionOnSet(f, u) = f[y] + SumFunctionOnSet(f, w)
      <4>1. u \in P /\ y \in u /\ u \ {y} = w
        BY <1>2, <2>1, <2>3
      <4> QED BY <4>1
    <3>2. SumFunctionOnSet(f, v) = f[z] + SumFunctionOnSet(f, w)
      <4>1. v \in P /\ z \in v /\ v \ {z} = w
        BY <1>2, <2>1, <2>3
      <4> QED BY <4>1
    <3>3. SumFunctionOnSet(f, w) \in Int /\ f[y] \in Int /\ f[z] \in Int
      <4>1. w \in SUBSET S
        OBVIOUS
      <4> QED BY <2>1, <4>1, SumInt, FS_Subset
    <3> HIDE DEF u, v, w, z
    <3> QED BY <2>1, <3>1, <3>2, <3>3 DEF v
  <2> QED BY <2>2, <2>3
<1>3. S \in P
  <2> HIDE DEF P
  <2> QED BY <1>1, <1>2, SubsetInduction
<1> QED BY <1>3

\* Sums of equal numbers are equal.
LEMMA SumSame ==
    ASSUME NEW f, NEW g, NEW S, IsFiniteSet(S), \A i \in S : f[i] = g[i]
    PROVE  SumFunctionOnSet(f, S) = SumFunctionOnSet(g, S)
<1> DEFINE P == {s \in SUBSET S : SumFunctionOnSet(f, s) = SumFunctionOnSet(g, s)}
<1>1. {} \in P
  <2>1. SumFunctionOnSet(f, {}) = 0 /\ SumFunctionOnSet(g, {}) = 0
    BY SumStep
  <2> QED BY <2>1
<1>2. ASSUME NEW s \in SUBSET S, s # {}, \A x \in s : s \ {x} \in P
      PROVE  s \in P
  <2>1. First(s) \in s /\ IsFiniteSet(s)
    BY <1>2, FirstIsIn, FS_Subset
  <2>2. /\ SumFunctionOnSet(f, s) = f[First(s)] + SumFunctionOnSet(f, s \ {First(s)})
        /\ SumFunctionOnSet(g, s) = g[First(s)] + SumFunctionOnSet(g, s \ {First(s)})
    BY <1>2, <2>1, SumStep
  <2> QED BY <1>2, <2>1, <2>2
<1>3. S \in P
  <2> HIDE DEF P
  <2> QED BY <1>1, <1>2, SubsetInduction
<1> QED BY <1>3

\* A sum does not shrink when what is added is not negative.
LEMMA SumGrows ==
    ASSUME NEW f, NEW T, IsFiniteSet(T), \A i \in T : f[i] \in Int,
           NEW S \in SUBSET T, \A i \in T \ S : f[i] >= 0
    PROVE  SumFunctionOnSet(f, S) <= SumFunctionOnSet(f, T)
<1> DEFINE Q == {t \in SUBSET (T \ S) : SumFunctionOnSet(f, S) <= SumFunctionOnSet(f, S \cup t)}
<1>1. \A s \in SUBSET T : IsFiniteSet(s) /\ SumFunctionOnSet(f, s) \in Int
  BY SumInt, FS_Subset
<1>2. {} \in Q
  <2>1. S \cup {} = S
    OBVIOUS
  <2> QED BY <1>1, <2>1
<1>3. ASSUME NEW t \in SUBSET (T \ S), t # {}, \A x \in t : t \ {x} \in Q
      PROVE  t \in Q
  <2>1. PICK x : x \in t
    BY <1>3
  <2> DEFINE u == t \ {x}
  <2>2. SumFunctionOnSet(f, S) <= SumFunctionOnSet(f, S \cup u)
    BY <1>3, <2>1
  <2>3. /\ S \cup t \in SUBSET T /\ x \in S \cup t /\ (S \cup t) \ {x} = S \cup u
        /\ S \cup u \in SUBSET T
    BY <2>1
  <2>4. SumFunctionOnSet(f, S \cup t) = f[x] + SumFunctionOnSet(f, S \cup u)
    <3>1. IsFiniteSet(S \cup t) /\ \A i \in S \cup t : f[i] \in Int
      BY <1>1, <2>3
    <3>2. SumFunctionOnSet(f, S \cup t) = f[x] + SumFunctionOnSet(f, (S \cup t) \ {x})
      BY <2>3, <3>1, SumAdd
    <3> QED BY <2>3, <3>2
  <2>5. f[x] \in Int /\ f[x] >= 0
    BY <2>1
  <2>6. SumFunctionOnSet(f, S \cup u) \in Int /\ SumFunctionOnSet(f, S) \in Int
    BY <1>1, <2>3
  <2>7. SumFunctionOnSet(f, S) <= SumFunctionOnSet(f, S \cup t)
    <3> HIDE DEF u
    <3> QED BY <2>2, <2>4, <2>5, <2>6
  <2> QED BY <2>7
<1>4. T \ S \in Q
  <2> HIDE DEF Q
  <2>1. IsFiniteSet(T \ S)
    BY <1>1
  <2> QED BY <1>2, <1>3, <2>1, SubsetInduction
<1>5. S \cup (T \ S) = T
  OBVIOUS
<1> QED BY <1>4, <1>5

\* A finite set that is not empty has a greatest element in a total preorder.
LEMMA GreatestOf ==
    ASSUME NEW S, IsFiniteSet(S), S # {}, NEW R,
           \A x, y \in S : <<x, y>> \in R \/ <<y, x>> \in R,
           \A x, y, z \in S : <<x, y>> \in R /\ <<y, z>> \in R => <<x, z>> \in R
    PROVE  \E m \in S : \A x \in S : <<x, m>> \in R
<1> DEFINE P == {s \in SUBSET S : s # {} => \E m \in s : \A x \in s : <<x, m>> \in R}
<1>1. {} \in P
  OBVIOUS
<1>2. ASSUME NEW s \in SUBSET S, s # {}, \A x \in s : s \ {x} \in P
      PROVE  s \in P
  <2>1. PICK y : y \in s
    BY <1>2
  <2> DEFINE t == s \ {y}
  <2>2. <<y, y>> \in R
    BY <2>1
  <2>3. CASE t = {}
    BY <2>1, <2>2, <2>3
  <2>4. CASE t # {}
    <3>1. PICK m \in t : \A x \in t : <<x, m>> \in R
      BY <1>2, <2>1, <2>4
    <3>2. CASE <<y, m>> \in R
      BY <3>1, <3>2
    <3>3. CASE <<m, y>> \in R
      <4>1. \A x \in t : <<x, y>> \in R
        BY <2>1, <3>1, <3>3
      <4> QED BY <2>1, <2>2, <4>1
    <3> QED BY <2>1, <3>1, <3>2, <3>3
  <2> QED BY <2>3, <2>4
<1>3. S \in P
  <2> HIDE DEF P
  <2> QED BY <1>1, <1>2, SubsetInduction
<1> QED BY <1>3

\* A finite set of numbers that is not empty has a maximum.
LEMMA MaxIs ==
    ASSUME NEW S \in SUBSET Int, IsFiniteSet(S), S # {}
    PROVE  Max(S) \in S /\ \A x \in S : x <= Max(S)
<1> DEFINE R == {xy \in S \X S : xy[1] <= xy[2]}
<1>1. \A x, y \in S : <<x, y>> \in R <=> x <= y
  OBVIOUS
<1>2. /\ \A x, y \in S : <<x, y>> \in R \/ <<y, x>> \in R
      /\ \A x, y, z \in S : <<x, y>> \in R /\ <<y, z>> \in R => <<x, z>> \in R
  BY <1>1
<1>3. \E m \in S : \A x \in S : <<x, m>> \in R
  <2> HIDE DEF R
  <2> QED BY <1>2, GreatestOf
<1>4. \E m \in S : \A x \in S : m >= x
  BY <1>1, <1>3
<1> QED BY <1>4 DEF Max

\* Elements that add nothing may be left out.
LEMMA SumSkip ==
    ASSUME NEW f, NEW T, IsFiniteSet(T), \A i \in T : f[i] \in Int,
           NEW S \in SUBSET T, \A i \in T \ S : f[i] = 0
    PROVE  SumFunctionOnSet(f, S) = SumFunctionOnSet(f, T)
<1> DEFINE Q == {t \in SUBSET (T \ S) : SumFunctionOnSet(f, S) = SumFunctionOnSet(f, S \cup t)}
<1>1. \A s \in SUBSET T : IsFiniteSet(s) /\ SumFunctionOnSet(f, s) \in Int
  BY SumInt, FS_Subset
<1>2. {} \in Q
  <2>1. S \cup {} = S
    OBVIOUS
  <2> QED BY <2>1
<1>3. ASSUME NEW t \in SUBSET (T \ S), t # {}, \A x \in t : t \ {x} \in Q
      PROVE  t \in Q
  <2>1. PICK x : x \in t
    BY <1>3
  <2> DEFINE u == t \ {x}
  <2>2. SumFunctionOnSet(f, S) = SumFunctionOnSet(f, S \cup u)
    BY <1>3, <2>1
  <2>3. /\ S \cup t \in SUBSET T /\ x \in S \cup t /\ (S \cup t) \ {x} = S \cup u
        /\ S \cup u \in SUBSET T
    BY <2>1
  <2>4. SumFunctionOnSet(f, S \cup t) = f[x] + SumFunctionOnSet(f, S \cup u)
    <3>1. IsFiniteSet(S \cup t) /\ \A i \in S \cup t : f[i] \in Int
      BY <1>1, <2>3
    <3>2. SumFunctionOnSet(f, S \cup t) = f[x] + SumFunctionOnSet(f, (S \cup t) \ {x})
      BY <2>3, <3>1, SumAdd
    <3> QED BY <2>3, <3>2
  <2>5. f[x] = 0 /\ SumFunctionOnSet(f, S \cup u) \in Int
    BY <1>1, <2>1, <2>3
  <2>6. SumFunctionOnSet(f, S) = SumFunctionOnSet(f, S \cup t)
    <3> HIDE DEF u
    <3> QED BY <2>2, <2>4, <2>5
  <2> QED BY <2>6
<1>4. T \ S \in Q
  <2> HIDE DEF Q
  <2>1. IsFiniteSet(T \ S)
    BY <1>1
  <2> QED BY <1>2, <1>3, <2>1, SubsetInduction
<1>5. S \cup (T \ S) = T
  OBVIOUS
<1> QED BY <1>4, <1>5

\* The sum of a function is that over its domain, and only the values count.
LEMMA SumOf ==
    ASSUME NEW f, NEW g, NEW S, IsFiniteSet(S), DOMAIN f = S, \A i \in S : f[i] = g[i]
    PROVE  SumFunction(f) = SumFunctionOnSet(g, S)
<1>1. SumFunction(f) = SumFunctionOnSet(f, S)
  BY DEF SumFunction
<1> QED BY <1>1, SumSame

\* Nothing adds up to nothing.
LEMMA SumEmpty ==
    ASSUME NEW f
    PROVE  SumFunctionOnSet(f, {}) = 0
BY FS_EmptySet, SumStep

\* One more element.
LEMMA SumInsert ==
    ASSUME NEW f, NEW S, IsFiniteSet(S), \A i \in S : f[i] \in Int,
           NEW x, x \notin S, f[x] \in Int
    PROVE  SumFunctionOnSet(f, S \cup {x}) = f[x] + SumFunctionOnSet(f, S)
<1> DEFINE T == S \cup {x}
<1>1. IsFiniteSet(T) /\ x \in T /\ T \ {x} = S /\ \A i \in T : f[i] \in Int
  BY FS_AddElement
<1> HIDE DEF T
<1>2. SumFunctionOnSet(f, T) = f[x] + SumFunctionOnSet(f, T \ {x})
  BY <1>1, SumAdd
<1> QED BY <1>1, <1>2 DEF T

\* The sum over one element.
LEMMA SumOne ==
    ASSUME NEW f, NEW x, f[x] \in Int
    PROVE  SumFunctionOnSet(f, {x}) = f[x]
<1>1. SumFunctionOnSet(f, {} \cup {x}) = f[x] + SumFunctionOnSet(f, {})
  BY FS_EmptySet, SumInsert
<1>2. {} \cup {x} = {x}
  OBVIOUS
<1> QED BY <1>1, <1>2, SumEmpty

\* The sum over two sets that have no element in common.
LEMMA SumUnion ==
    ASSUME NEW f, NEW S, IsFiniteSet(S), NEW T, IsFiniteSet(T), S \cap T = {},
           \A i \in S \cup T : f[i] \in Int
    PROVE  /\ IsFiniteSet(S \cup T)
           /\ SumFunctionOnSet(f, S \cup T) = SumFunctionOnSet(f, S) + SumFunctionOnSet(f, T)
<1> DEFINE Q == {t \in SUBSET T :
                    SumFunctionOnSet(f, S \cup t) = SumFunctionOnSet(f, S) + SumFunctionOnSet(f, t)}
<1>0. IsFiniteSet(S \cup T)
  BY FS_Union
<1>1. \A s \in SUBSET (S \cup T) : IsFiniteSet(s) /\ SumFunctionOnSet(f, s) \in Int
  BY <1>0, SumInt, FS_Subset
<1>2. {} \in Q
  <2>1. S \cup {} = S /\ SumFunctionOnSet(f, S) \in Int
    BY <1>1
  <2> QED BY <2>1, SumEmpty
<1>3. ASSUME NEW t \in SUBSET T, t # {}, \A x \in t : t \ {x} \in Q
      PROVE  t \in Q
  <2>1. PICK x : x \in t
    BY <1>3
  <2> DEFINE u == t \ {x}
  <2>2. SumFunctionOnSet(f, S \cup u) = SumFunctionOnSet(f, S) + SumFunctionOnSet(f, u)
    BY <1>3, <2>1
  <2>3. /\ S \cup t = (S \cup u) \cup {x} /\ t = u \cup {x}
        /\ x \notin S \cup u /\ f[x] \in Int
        /\ S \cup u \in SUBSET (S \cup T) /\ u \in SUBSET (S \cup T)
    BY <2>1
  <2> HIDE DEF u
  <2>4. SumFunctionOnSet(f, S \cup t) = f[x] + SumFunctionOnSet(f, S \cup u)
    BY <1>1, <2>3, SumInsert
  <2>5. SumFunctionOnSet(f, t) = f[x] + SumFunctionOnSet(f, u)
    BY <1>1, <2>3, SumInsert
  <2>6. SumFunctionOnSet(f, S) \in Int /\ SumFunctionOnSet(f, u) \in Int
    BY <1>1, <2>3
  <2>7. SumFunctionOnSet(f, S \cup t) = SumFunctionOnSet(f, S) + SumFunctionOnSet(f, t)
    BY <2>2, <2>3, <2>4, <2>5, <2>6
  <2> QED BY <2>7
<1>4. T \in Q
  <2> HIDE DEF Q
  <2> QED BY <1>2, <1>3, SubsetInduction
<1> QED BY <1>0, <1>4

\* What a part of a set leaves of the sum.
LEMMA SumRest ==
    ASSUME NEW f, NEW T, IsFiniteSet(T), NEW S \in SUBSET T, \A i \in T : f[i] \in Int
    PROVE  SumFunctionOnSet(f, T) = SumFunctionOnSet(f, S) + SumFunctionOnSet(f, T \ S)
<1>1. IsFiniteSet(S) /\ IsFiniteSet(T \ S) /\ S \cap (T \ S) = {} /\ S \cup (T \ S) = T
  BY FS_Subset
<1> QED BY <1>1, SumUnion

\* Noughts add up to nought.
LEMMA SumZero ==
    ASSUME NEW f, NEW S, IsFiniteSet(S), \A i \in S : f[i] = 0
    PROVE  SumFunctionOnSet(f, S) = 0
<1>1. SumFunctionOnSet(f, {}) = SumFunctionOnSet(f, S)
  BY SumSkip
<1> QED BY <1>1, SumEmpty

\* Sums are linear.
LEMMA SumPlus ==
    ASSUME NEW f, NEW g, NEW h, NEW S, IsFiniteSet(S),
           \A i \in S : f[i] \in Int /\ g[i] \in Int /\ h[i] = f[i] + g[i]
    PROVE  SumFunctionOnSet(h, S) = SumFunctionOnSet(f, S) + SumFunctionOnSet(g, S)
<1> DEFINE Q == {s \in SUBSET S :
                    SumFunctionOnSet(h, s) = SumFunctionOnSet(f, s) + SumFunctionOnSet(g, s)}
<1>1. \A i \in S : h[i] \in Int
  OBVIOUS
<1>2. \A s \in SUBSET S : /\ IsFiniteSet(s) /\ SumFunctionOnSet(f, s) \in Int
                          /\ SumFunctionOnSet(g, s) \in Int /\ SumFunctionOnSet(h, s) \in Int
  BY <1>1, SumInt, FS_Subset
<1>3. {} \in Q
  <2>1. SumFunctionOnSet(f, {}) = 0 /\ SumFunctionOnSet(g, {}) = 0 /\ SumFunctionOnSet(h, {}) = 0
    BY SumEmpty
  <2> QED BY <2>1
<1>4. ASSUME NEW s \in SUBSET S, s # {}, \A x \in s : s \ {x} \in Q
      PROVE  s \in Q
  <2>1. PICK x : x \in s
    BY <1>4
  <2> DEFINE t == s \ {x}
  <2>2. /\ SumFunctionOnSet(h, t) = SumFunctionOnSet(f, t) + SumFunctionOnSet(g, t)
        /\ t \in SUBSET S
    BY <1>4, <2>1
  <2>3. /\ SumFunctionOnSet(f, s) = f[x] + SumFunctionOnSet(f, t)
        /\ SumFunctionOnSet(g, s) = g[x] + SumFunctionOnSet(g, t)
        /\ SumFunctionOnSet(h, s) = h[x] + SumFunctionOnSet(h, t)
    <3>1. /\ IsFiniteSet(s)
          /\ \A i \in s : f[i] \in Int /\ g[i] \in Int /\ h[i] \in Int
      BY <1>1, <1>2
    <3> QED BY <2>1, <3>1, SumAdd
  <2>4. /\ SumFunctionOnSet(f, t) \in Int /\ SumFunctionOnSet(g, t) \in Int
        /\ f[x] \in Int /\ g[x] \in Int /\ h[x] = f[x] + g[x]
    BY <1>2, <2>1, <2>2
  <2> HIDE DEF t
  <2>5. SumFunctionOnSet(h, s) = SumFunctionOnSet(f, s) + SumFunctionOnSet(g, s)
    BY <2>2, <2>3, <2>4
  <2> QED BY <2>5
<1>5. S \in Q
  <2> HIDE DEF Q
  <2> QED BY <1>3, <1>4, SubsetInduction
<1> QED BY <1>5

LEMMA SumMinus ==
    ASSUME NEW f, NEW g, NEW h, NEW S, IsFiniteSet(S),
           \A i \in S : f[i] \in Int /\ g[i] \in Int /\ h[i] = f[i] - g[i]
    PROVE  SumFunctionOnSet(h, S) = SumFunctionOnSet(f, S) - SumFunctionOnSet(g, S)
<1>1. \A i \in S : h[i] \in Int /\ g[i] \in Int /\ f[i] = h[i] + g[i]
  OBVIOUS
<1>2. SumFunctionOnSet(f, S) = SumFunctionOnSet(h, S) + SumFunctionOnSet(g, S)
  BY <1>1, SumPlus
<1>3. SumFunctionOnSet(h, S) \in Int /\ SumFunctionOnSet(g, S) \in Int
  BY <1>1, SumInt
<1> QED BY <1>2, <1>3

LEMMA SumTimes ==
    ASSUME NEW f, NEW g, NEW k \in Int, NEW S, IsFiniteSet(S),
           \A i \in S : f[i] \in Int /\ g[i] = k * f[i]
    PROVE  SumFunctionOnSet(g, S) = k * SumFunctionOnSet(f, S)
<1> DEFINE Q == {s \in SUBSET S : SumFunctionOnSet(g, s) = k * SumFunctionOnSet(f, s)}
<1>1. \A i \in S : g[i] \in Int
  OBVIOUS
<1>2. \A s \in SUBSET S : /\ IsFiniteSet(s) /\ SumFunctionOnSet(f, s) \in Int
                          /\ SumFunctionOnSet(g, s) \in Int
  BY <1>1, SumInt, FS_Subset
<1>3. {} \in Q
  <2>1. SumFunctionOnSet(f, {}) = 0 /\ SumFunctionOnSet(g, {}) = 0
    BY SumEmpty
  <2> QED BY <2>1
<1>4. ASSUME NEW s \in SUBSET S, s # {}, \A x \in s : s \ {x} \in Q
      PROVE  s \in Q
  <2>1. PICK x : x \in s
    BY <1>4
  <2> DEFINE t == s \ {x}
  <2>2. SumFunctionOnSet(g, t) = k * SumFunctionOnSet(f, t) /\ t \in SUBSET S
    BY <1>4, <2>1
  <2>3. /\ SumFunctionOnSet(f, s) = f[x] + SumFunctionOnSet(f, t)
        /\ SumFunctionOnSet(g, s) = g[x] + SumFunctionOnSet(g, t)
    <3>1. IsFiniteSet(s) /\ \A i \in s : f[i] \in Int /\ g[i] \in Int
      BY <1>1, <1>2
    <3> QED BY <2>1, <3>1, SumAdd
  <2>4. SumFunctionOnSet(f, t) \in Int /\ f[x] \in Int /\ g[x] = k * f[x]
    BY <1>2, <2>1, <2>2
  <2> HIDE DEF t
  <2>5. SumFunctionOnSet(g, s) = k * SumFunctionOnSet(f, s)
    <3>1. \A a, b \in Int : k * (a + b) = k * a + k * b
      OBVIOUS
    <3> QED BY <2>2, <2>3, <2>4, <3>1
  <2> QED BY <2>5
<1>5. S \in Q
  <2> HIDE DEF Q
  <2> QED BY <1>3, <1>4, SubsetInduction
<1> QED BY <1>5

\* A sum may be taken over other names of the same things.
LEMMA SumImage ==
    ASSUME NEW f, NEW g, NEW h, NEW S, IsFiniteSet(S),
           NEW T, h \in Bijection(S, T), \A i \in S : f[i] \in Int /\ g[h[i]] = f[i]
    PROVE  IsFiniteSet(T) /\ SumFunctionOnSet(g, T) = SumFunctionOnSet(f, S)
<1>0. /\ \A i, j \in S : h[i] = h[j] => i = j
      /\ \A y \in T : \E i \in S : h[i] = y
      /\ \A i \in S : h[i] \in T
  BY DEF Bijection, Injection, Surjection, IsInjective
<1> DEFINE I(s) == {h[i] : i \in s}
           Q == {s \in SUBSET S : /\ IsFiniteSet(I(s))
                                  /\ SumFunctionOnSet(g, I(s)) = SumFunctionOnSet(f, s)}
<1>1. {} \in Q
  <2>1. I({}) = {}
    OBVIOUS
  <2>2. SumFunctionOnSet(f, {}) = 0 /\ SumFunctionOnSet(g, {}) = 0
    BY SumEmpty
  <2> QED BY <2>1, <2>2, FS_EmptySet
<1>2. ASSUME NEW s \in SUBSET S, s # {}, \A x \in s : s \ {x} \in Q
      PROVE  s \in Q
  <2>1. PICK x : x \in s
    BY <1>2
  <2> DEFINE t == s \ {x}
  <2>2. IsFiniteSet(I(t)) /\ SumFunctionOnSet(g, I(t)) = SumFunctionOnSet(f, t)
    BY <1>2, <2>1
  <2>3. I(s) = I(t) \cup {h[x]} /\ h[x] \notin I(t)
    BY <1>0, <2>1
  <2>4. \A y \in I(t) \cup {h[x]} : g[y] \in Int
    BY <2>1
  <2>5. SumFunctionOnSet(g, I(s)) = g[h[x]] + SumFunctionOnSet(g, I(t))
    <3> HIDE DEF I
    <3> QED BY <2>2, <2>3, <2>4, SumInsert
  <2>6. SumFunctionOnSet(f, s) = f[x] + SumFunctionOnSet(f, t)
    <3>1. IsFiniteSet(s)
      BY FS_Subset
    <3> QED BY <2>1, <3>1, SumAdd
  <2>7. g[h[x]] = f[x]
    BY <2>1
  <2>8. IsFiniteSet(I(s))
    <3>1. IsFiniteSet(I(t) \cup {h[x]})
      <4> HIDE DEF I, t
      <4> QED BY <2>2, FS_AddElement
    <3> QED BY <2>3, <3>1
  <2>9. SumFunctionOnSet(g, I(s)) = SumFunctionOnSet(f, s)
    BY <2>2, <2>5, <2>6, <2>7
  <2> QED BY <2>8, <2>9
<1>3. S \in Q
  <2> HIDE DEF Q
  <2> QED BY <1>1, <1>2, SubsetInduction
<1>4. I(S) = T
  BY <1>0
<1> QED BY <1>3, <1>4

\* The elements that h takes to k.
Fibre(h, S, k) == {i \in S : h[i] = k}

\* A sum may be taken part by part.
LEMMA SumParts ==
    ASSUME NEW f, NEW S, IsFiniteSet(S), \A i \in S : f[i] \in Int,
           NEW K, IsFiniteSet(K), NEW h, h \in [S -> K],
           NEW g, \A k \in K : g[k] = SumFunctionOnSet(f, Fibre(h, S, k))
    PROVE  SumFunctionOnSet(g, K) = SumFunctionOnSet(f, S)
<1> DEFINE Of(s) == {i \in S : h[i] \in s}
           Q == {s \in SUBSET K : SumFunctionOnSet(g, s) = SumFunctionOnSet(f, Of(s))}
<1>0. \A T \in SUBSET S : IsFiniteSet(T) /\ SumFunctionOnSet(f, T) \in Int
  BY SumInt, FS_Subset
<1>1. \A k \in K : g[k] \in Int
  BY <1>0 DEF Fibre
<1>2. {} \in Q
  <2>1. Of({}) = {}
    OBVIOUS
  <2>2. SumFunctionOnSet(f, {}) = 0 /\ SumFunctionOnSet(g, {}) = 0
    BY SumEmpty
  <2> QED BY <2>1, <2>2
<1>3. ASSUME NEW s \in SUBSET K, s # {}, \A x \in s : s \ {x} \in Q
      PROVE  s \in Q
  <2>1. PICK x : x \in s
    BY <1>3
  <2> DEFINE t == s \ {x}
             X == Fibre(h, S, x)
  <2>2. SumFunctionOnSet(g, t) = SumFunctionOnSet(f, Of(t))
    BY <1>3, <2>1
  <2>3. SumFunctionOnSet(g, s) = g[x] + SumFunctionOnSet(g, t)
    <3>1. IsFiniteSet(s) /\ \A k \in s : g[k] \in Int
      BY <1>1, FS_Subset
    <3> QED BY <2>1, <3>1, SumAdd
  <2>4. SumFunctionOnSet(f, Of(s)) = SumFunctionOnSet(f, X) + SumFunctionOnSet(f, Of(t))
    <3>1. /\ X \in SUBSET S /\ Of(t) \in SUBSET S
          /\ X \cap Of(t) = {} /\ X \cup Of(t) = Of(s)
      BY <2>1 DEF Fibre
    <3>2. IsFiniteSet(X) /\ IsFiniteSet(Of(t)) /\ \A i \in X \cup Of(t) : f[i] \in Int
      BY <1>0, <3>1
    <3> HIDE DEF Of, X, t
    <3>3. SumFunctionOnSet(f, X \cup Of(t)) = SumFunctionOnSet(f, X) + SumFunctionOnSet(f, Of(t))
      BY <3>1, <3>2, SumUnion
    <3> QED BY <3>1, <3>3
  <2>5. g[x] = SumFunctionOnSet(f, X)
    BY <2>1
  <2>6. SumFunctionOnSet(g, s) = SumFunctionOnSet(f, Of(s))
    BY <2>2, <2>3, <2>4, <2>5
  <2> QED BY <2>6
<1>4. K \in Q
  <2> HIDE DEF Q
  <2> QED BY <1>2, <1>3, SubsetInduction
<1>5. Of(K) = S
  OBVIOUS
<1> QED BY <1>4, <1>5

-----------------------------------------------------------------------------
(***************************************************************************)
(* Places in a finite linear order.                                        *)
(***************************************************************************)

\* A strict linear order of a set.
Linear(S, R) ==
    /\ \A x, y \in S : x # y => <<x, y>> \in R \/ <<y, x>> \in R
    /\ \A x \in S : <<x, x>> \notin R
    /\ \A x, y, z \in S : <<x, y>> \in R /\ <<y, z>> \in R => <<x, z>> \in R

\* How many come before x.
Rank(S, R, x) == Cardinality({y \in S : <<y, x>> \in R})

\* Every place is taken, by one element, and places are in the order.
LEMMA RankIs ==
    ASSUME NEW S, IsFiniteSet(S), NEW R, Linear(S, R)
    PROVE  /\ Cardinality(S) \in Nat
           /\ \A x \in S : Rank(S, R, x) \in 0 .. Cardinality(S) - 1
           /\ \A x, y \in S : <<x, y>> \in R <=> Rank(S, R, x) < Rank(S, R, y)
           /\ \A x, y \in S : Rank(S, R, x) = Rank(S, R, y) => x = y
           /\ \A n \in 0 .. Cardinality(S) - 1 : \E x \in S : Rank(S, R, x) = n
<1> DEFINE N == Cardinality(S)
           B(x) == {y \in S : <<y, x>> \in R}
           rank == [x \in S |-> Rank(S, R, x)]
<1>1. \A x \in S : IsFiniteSet(B(x)) /\ Cardinality(B(x)) \in Nat
  BY FS_Subset, FS_CardinalityType
<1>2. N \in Nat
  BY FS_CardinalityType
<1>3. ASSUME NEW x \in S PROVE Rank(S, R, x) \in 0 .. N - 1
  <2>1. B(x) \in SUBSET S /\ x \notin B(x)
    BY DEF Linear
  <2>2. Cardinality(B(x)) < N
    <3>1. B(x) # S
      BY <2>1
    <3> HIDE DEF B
    <3> QED BY <1>1, <1>2, <2>1, <3>1, FS_Subset
  <2> QED BY <1>1, <1>2, <2>2 DEF Rank
<1>4. ASSUME NEW x \in S, NEW y \in S, <<x, y>> \in R PROVE Rank(S, R, x) < Rank(S, R, y)
  <2>1. B(x) \in SUBSET B(y) /\ x \notin B(x) /\ x \in B(y)
    BY <1>4 DEF Linear
  <2>2. Cardinality(B(x)) < Cardinality(B(y))
    <3>1. B(x) # B(y)
      BY <2>1
    <3>2. /\ Cardinality(B(x)) \in Nat /\ Cardinality(B(y)) \in Nat
          /\ IsFiniteSet(B(y))
      BY <1>1
    <3> HIDE DEF B
    <3> QED BY <2>1, <3>1, <3>2, FS_Subset
  <2> QED BY <2>2 DEF Rank
<1>5. \A x, y \in S : Rank(S, R, x) = Rank(S, R, y) => x = y
  <2> SUFFICES ASSUME NEW x \in S, NEW y \in S, x # y PROVE Rank(S, R, x) # Rank(S, R, y)
    OBVIOUS
  <2>1. <<x, y>> \in R \/ <<y, x>> \in R
    BY DEF Linear
  <2>2. Rank(S, R, x) \in Int /\ Rank(S, R, y) \in Int
    BY <1>3
  <2> QED BY <1>4, <2>1, <2>2
<1>6. \A x, y \in S : Rank(S, R, x) < Rank(S, R, y) => <<x, y>> \in R
  <2> SUFFICES ASSUME NEW x \in S, NEW y \in S, Rank(S, R, x) < Rank(S, R, y)
               PROVE  <<x, y>> \in R
    OBVIOUS
  <2>1. Rank(S, R, x) \in Int /\ Rank(S, R, y) \in Int
    BY <1>3
  <2>2. x # y /\ <<y, x>> \notin R
    BY <1>4, <2>1
  <2> QED BY <2>2 DEF Linear
<1>7. \A n \in 0 .. N - 1 : \E x \in S : Rank(S, R, x) = n
  <2>1. rank \in Injection(S, 0 .. N - 1)
    BY <1>3, <1>5 DEF Injection, IsInjective
  <2>2. IsFiniteSet(0 .. N - 1) /\ Cardinality(0 .. N - 1) = N
    BY <1>2, FS_Interval
  <2>3. rank \in Surjection(S, 0 .. N - 1)
    <3> HIDE DEF rank
    <3> QED BY <2>1, <2>2, FS_Injection
  <2> QED BY <2>3 DEF Surjection
<1> QED BY <1>2, <1>3, <1>4, <1>5, <1>6, <1>7

\* A finite part of a linear order has a last element.
LEMMA LastOf ==
    ASSUME NEW S, IsFiniteSet(S), S # {}, NEW R, Linear(S, R)
    PROVE  \E x \in S : \A y \in S : y # x => <<y, x>> \in R
<1> DEFINE Q == {p \in S \X S : <<p[2], p[1]>> \notin R}
<1>1. \A x, y \in S : <<x, y>> \in Q <=> <<y, x>> \notin R
  OBVIOUS
<1>2. \A x, y \in S : <<x, y>> \in Q \/ <<y, x>> \in Q
  <2> HIDE DEF Q
  <2> QED BY <1>1 DEF Linear
<1>3. \A x, y, z \in S : <<x, y>> \in Q /\ <<y, z>> \in Q => <<x, z>> \in Q
  <2> HIDE DEF Q
  <2> SUFFICES ASSUME NEW x \in S, NEW y \in S, NEW z \in S,
                      <<y, x>> \notin R, <<z, y>> \notin R, <<z, x>> \in R
               PROVE  FALSE
    BY <1>1
  <2>1. CASE x = y
    BY <2>1 DEF Linear
  <2>2. CASE y = z
    BY <2>2 DEF Linear
  <2>3. CASE x # y /\ y # z
    <3>1. <<x, y>> \in R /\ <<y, z>> \in R
      BY <2>3 DEF Linear
    <3> QED BY <3>1 DEF Linear
  <2> QED BY <2>1, <2>2, <2>3
<1>4. PICK m \in S : \A x \in S : <<x, m>> \in Q
  <2> HIDE DEF Q
  <2> QED BY <1>2, <1>3, GreatestOf
<1>5. \A y \in S : y # m => <<y, m>> \in R
  BY <1>1, <1>4 DEF Linear
<1> QED BY <1>5

-----------------------------------------------------------------------------
(***************************************************************************)
(* Sums of a field over sets of records.                                   *)
(***************************************************************************)

FieldSum(S, k) == SumFunction([x \in S |-> x[k]])

\* Such a sum is one of any function that has the field's values.
LEMMA FieldSumIs ==
    ASSUME NEW S, IsFiniteSet(S), NEW k, NEW f, \A x \in S : f[x] = x[k]
    PROVE  FieldSum(S, k) = SumFunctionOnSet(f, S)
<1> DEFINE g == [x \in S |-> x[k]]
<1>1. DOMAIN g = S /\ \A x \in S : g[x] = f[x]
  OBVIOUS
<1>2. FieldSum(S, k) = SumFunction(g)
  BY DEF FieldSum
<1> HIDE DEF g
<1> QED BY <1>1, <1>2, SumOf

LEMMA FieldInt ==
    ASSUME NEW S, IsFiniteSet(S), NEW k, \A x \in S : x[k] \in Int
    PROVE  FieldSum(S, k) \in Int
<1> DEFINE g == [x \in S |-> x[k]]
<1>1. \A x \in S : g[x] = x[k] /\ g[x] \in Int
  OBVIOUS
<1> HIDE DEF g
<1> QED BY <1>1, FieldSumIs, SumInt

LEMMA FieldNone == ASSUME NEW k PROVE FieldSum({}, k) = 0
<1> DEFINE g == [x \in {} |-> x[k]]
<1>1. IsFiniteSet({}) /\ \A x \in {} : g[x] = x[k]
  BY FS_EmptySet
<1> HIDE DEF g
<1> QED BY <1>1, FieldSumIs, SumEmpty

LEMMA FieldOne ==
    ASSUME NEW x, NEW k, x[k] \in Int
    PROVE  FieldSum({x}, k) = x[k]
<1> DEFINE g == [y \in {x} |-> y[k]]
<1>1. IsFiniteSet({x}) /\ \A y \in {x} : g[y] = y[k]
  BY FS_Singleton
<1>2. g[x] = x[k]
  OBVIOUS
<1> HIDE DEF g
<1> QED BY <1>1, <1>2, FieldSumIs, SumOne

LEMMA FieldUnion ==
    ASSUME NEW S, IsFiniteSet(S), NEW T, IsFiniteSet(T), S \cap T = {}, NEW k,
           \A x \in S \cup T : x[k] \in Int
    PROVE  FieldSum(S \cup T, k) = FieldSum(S, k) + FieldSum(T, k)
<1> DEFINE g == [x \in S \cup T |-> x[k]]
<1>1. \A x \in S \cup T : g[x] = x[k] /\ g[x] \in Int
  OBVIOUS
<1> HIDE DEF g
<1>2. IsFiniteSet(S \cup T)
  BY FS_Union
<1>3. /\ FieldSum(S \cup T, k) = SumFunctionOnSet(g, S \cup T)
      /\ FieldSum(S, k) = SumFunctionOnSet(g, S)
      /\ FieldSum(T, k) = SumFunctionOnSet(g, T)
  BY <1>1, <1>2, FieldSumIs
<1>4. SumFunctionOnSet(g, S \cup T) = SumFunctionOnSet(g, S) + SumFunctionOnSet(g, T)
  BY <1>1, SumUnion
<1> QED BY <1>3, <1>4

\* Such a sum may be taken part by part.
LEMMA FieldParts ==
    ASSUME NEW S, IsFiniteSet(S), NEW k, \A x \in S : x[k] \in Int,
           NEW K, IsFiniteSet(K), NEW h, h \in [S -> K],
           NEW g, \A z \in K : g[z] = FieldSum(Fibre(h, S, z), k)
    PROVE  SumFunctionOnSet(g, K) = FieldSum(S, k)
<1> DEFINE f == [x \in S |-> x[k]]
<1>1. \A x \in S : f[x] \in Int /\ f[x] = x[k]
  OBVIOUS
<1>2. ASSUME NEW z \in K PROVE g[z] = SumFunctionOnSet(f, Fibre(h, S, z))
  <2>1. Fibre(h, S, z) \in SUBSET S
    BY DEF Fibre
  <2>2. IsFiniteSet(Fibre(h, S, z)) /\ \A x \in Fibre(h, S, z) : f[x] = x[k]
    BY <1>1, <2>1, FS_Subset
  <2> HIDE DEF f
  <2> QED
    BY <2>2, FieldSumIs
<1> HIDE DEF f
<1> QED
  BY <1>1, <1>2, FieldSumIs, SumParts

\* The sum of a field over records that are made one from each element of a set.
LEMMA FieldImage ==
    ASSUME NEW S, IsFiniteSet(S), NEW h, NEW k, NEW f,
           NEW T, h \in Bijection(S, T), \A i \in S : f[i] \in Int /\ h[i][k] = f[i]
    PROVE  IsFiniteSet(T) /\ FieldSum(T, k) = SumFunctionOnSet(f, S)
<1> DEFINE g == [x \in T |-> x[k]]
<1>1. \A x \in T : g[x] = x[k]
  OBVIOUS
<1>2. \A i \in S : f[i] \in Int /\ g[h[i]] = f[i]
  BY DEF Bijection, Injection
<1> HIDE DEF g
<1>3. IsFiniteSet(T) /\ SumFunctionOnSet(g, T) = SumFunctionOnSet(f, S)
  <2>1. IsFiniteSet(S) /\ h \in Bijection(S, T)
    OBVIOUS
  <2> QED BY ONLY <1>2, <2>1, SumImage
<1>4. FieldSum(T, k) = SumFunctionOnSet(g, T)
  BY <1>1, <1>3, FieldSumIs
<1> QED BY <1>3, <1>4

-----------------------------------------------------------------------------
(***************************************************************************)
(* Shares that are taken one after the other.                              *)
(***************************************************************************)

\* The sum of what comes before x.
SumBefore(q, S, R, x) == SumFunctionOnSet(q, {y \in S : <<y, x>> \in R})

\* When each element adds what a function of the sum gains by it, all of them together
\* add what it gains from nought to the whole sum.
LEMMA Telescope ==
    ASSUME NEW S, IsFiniteSet(S), NEW R, Linear(S, R),
           NEW q, \A x \in S : q[x] \in Int,
           NEW G, \A n \in Int : G[n] \in Int,
           NEW w, \A x \in S : w[x] = G[SumBefore(q, S, R, x) + q[x]] - G[SumBefore(q, S, R, x)]
    PROVE  SumFunctionOnSet(w, S) = G[SumFunctionOnSet(q, S)] - G[0]
<1> DEFINE B(s, x) == {y \in s : <<y, x>> \in R}
           A(s, x) == SumFunctionOnSet(q, B(s, x))
           Gain(v, s) == \A x \in s : v[x] = G[A(s, x) + q[x]] - G[A(s, x)]
           P == {s \in SUBSET S : \A v : Gain(v, s) =>
                    SumFunctionOnSet(v, s) = G[SumFunctionOnSet(q, s)] - G[0]}
<1>0. \A s \in SUBSET S : IsFiniteSet(s) /\ SumFunctionOnSet(q, s) \in Int
  BY SumInt, FS_Subset
<1>1. {} \in P
  <2>1. \A f : SumFunctionOnSet(f, {}) = 0
    BY SumEmpty
  <2> QED BY <2>1
<1>2. ASSUME NEW s \in SUBSET S, s # {}, \A x \in s : s \ {x} \in P
      PROVE  s \in P
  <2> SUFFICES ASSUME NEW v, Gain(v, s)
               PROVE  SumFunctionOnSet(v, s) = G[SumFunctionOnSet(q, s)] - G[0]
    OBVIOUS
  <2>1. IsFiniteSet(s) /\ Linear(s, R)
    BY <1>0 DEF Linear
  <2>2. PICK x \in s : \A y \in s : y # x => <<y, x>> \in R
    BY <1>2, <2>1, LastOf
  <2> DEFINE t == s \ {x}
  <2>3. \A y \in t : <<x, y>> \notin R
    BY <2>2 DEF Linear
  <2>4. B(s, x) = t /\ \A y \in t : B(s, y) = B(t, y)
    BY <2>2, <2>3 DEF Linear
  <2>5. A(s, x) = SumFunctionOnSet(q, t) /\ \A y \in t : A(s, y) = A(t, y)
    BY <2>4
  <2>6. Gain(v, t)
    BY <2>5
  <2>7. SumFunctionOnSet(v, t) = G[SumFunctionOnSet(q, t)] - G[0]
    BY <1>2, <2>2, <2>6
  <2>8. v[x] = G[SumFunctionOnSet(q, t) + q[x]] - G[SumFunctionOnSet(q, t)]
    BY <2>5
  <2>9. SumFunctionOnSet(q, s) = q[x] + SumFunctionOnSet(q, t)
    BY <2>1, SumAdd
  <2>10. \A y \in s : v[y] \in Int
    <3> SUFFICES ASSUME NEW y \in s PROVE v[y] \in Int
      OBVIOUS
    <3>1. A(s, y) \in Int /\ q[y] \in Int
      <4>1. B(s, y) \in SUBSET S
        OBVIOUS
      <4> QED BY <1>0, <4>1
    <3> HIDE DEF A
    <3>2. A(s, y) + q[y] \in Int
      BY <3>1
    <3> QED BY <3>1, <3>2
  <2>11. SumFunctionOnSet(v, s) = v[x] + SumFunctionOnSet(v, t)
    BY <2>1, <2>10, SumAdd
  <2>12. SumFunctionOnSet(q, t) \in Int /\ q[x] \in Int
    <3>1. t \in SUBSET S
      OBVIOUS
    <3> QED BY <1>0, <3>1
  <2> HIDE DEF t
  <2>13. q[x] + SumFunctionOnSet(q, t) = SumFunctionOnSet(q, t) + q[x]
    BY <2>12
  <2>14. SumFunctionOnSet(q, t) + q[x] \in Int /\ 0 \in Int
    BY <2>12
  <2> QED BY <2>7, <2>8, <2>9, <2>11, <2>12, <2>13, <2>14
<1>3. S \in P
  <2> HIDE DEF P
  <2> QED BY <1>1, <1>2, SubsetInduction
<1>4. Gain(w, S)
  BY DEF SumBefore
<1> QED BY <1>3, <1>4
=============================================================================
