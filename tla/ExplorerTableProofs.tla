------------------------ MODULE ExplorerTableProofs -------------------------
(***************************************************************************)
(* What the steps of an evaluation do to the assertion tables that the     *)
(* controller and its workers share, for any number of processes and       *)
(* entries: each keeps the tables' half of the invariant that              *)
(* ExplorerInvariant states.  The sums over the entries come first.        *)
(***************************************************************************)
EXTENDS ExplorerInvariant, FiniteSetTheorems, TLAPS

-----------------------------------------------------------------------------
(* The arithmetic of the counters that the tables and the pool share.      *)

\* Sums of three counts, as the books of evaluations and of runs add them: a
\* unit moves from one count to another.
LEMMA Balance ==
    \A a, b, c \in Nat : a + b + (c + 1) = a + (b + 1) + c /\ a + b + (c + 1) = (a + 1) + b + c
BY SMT

\* A unit that is added to a count is added to the sum, and taken from it again.
LEMMA Carry ==
    \A a, b, c \in Nat : (a + b + c) + 1 = a + b + (c + 1) /\ (a + b + (c + 1)) - 1 = a + b + c
BY SMT

\* What is taken from a count is taken from the sum.
LEMMA Withdraw ==
    \A a, b, c \in Nat : (a + b) - c = a + (b - c)
BY SMT

\* The sum is a count.
LEMMA SumOfThree ==
    \A a, b, c \in Nat : a + b + c \in Nat
BY SMT

\* Sums of two counts.
LEMMA Pair ==
    \A a, b \in Nat :
        /\ a + 1 \in Nat /\ a + b \in Nat /\ 0 + a = a /\ (a - 1) + 1 = a /\ a + b + 0 = a + b
        /\ (a + 1) + b = (a + b) + 1 /\ (a + 1) + b = a + (b + 1) /\ (a + 1) + (b - 1) = a + b
BY SMT

\* The counter of claimed entries against the capacity and the number of those
\* who found the table full: a further one keeps it above, as does one less.
LEMMA Above ==
    \A n, k, a \in Nat :
        /\ n >= k + a /\ a >= 1 => ~(n < k)
        /\ n >= k => n + 1 >= k + (0 + 1)
        /\ n >= k + a => n + 1 >= k + (a + 1)
        /\ n >= k + (a + 1) => n - 1 >= k + a
        /\ \A b \in Nat : n >= k + a /\ b <= a => n >= k + b
BY SMT

\* The order of two counts: against zero, and against itself.
LEMMA Ordered ==
    \A a, b \in Nat : 0 <= a /\ ~(a < a) /\ (~(a < b) /\ b >= 1 => a # 0)
BY SMT

\* A count that is at most another one, and not equal to it.
LEMMA NotAbove ==
    \A a, b \in Nat : a <= b /\ a # b => b > a /\ a + 1 <= b
BY SMT

\* A count that is below another one.
LEMMA Below ==
    \A a, b \in Nat : a < b => a <= b /\ a + 1 <= b /\ a < b + 1 /\ a # b
BY SMT

\* A count that is below another one, less one.
LEMMA BelowLess ==
    \A a, b, c \in Nat : a <= b - 1 /\ b <= c => a < c
BY SMT

\* A successor is not zero.
LEMMA NotZero ==
    /\ \A a \in Nat : a + 1 # 0
    /\ \A a \in Nat : a # 0 => a >= 1
    /\ 0 = 0 + 0 + 0
BY SMT

\* What lies in an interval from zero.
LEMMA FromZero ==
    /\ 0 \in Nat /\ 0 \in 0 .. 2 /\ 1 \in 0 .. 2 /\ 2 \in 0 .. 2 /\ 0 \in 0 .. 3
    /\ \A n \in Nat : 0 \in 0 .. n
    /\ \A n \in Nat \ {0} : n \in Nat /\ n >= 1 /\ 0 <= n /\ 0 \in 0 .. n - 1
    /\ \A n \in Nat : \A e \in 0 .. n - 1 : e \in Nat /\ 0 <= e /\ e < n
    /\ \A n, e \in Nat : ~(e >= n) => e \in 0 .. n - 1 /\ e < n
BY SMT

-----------------------------------------------------------------------------
(* Induction over the natural numbers, and finite sums.                    *)

\* A nonempty set of natural numbers has a least element.
LEMMA Smallest ==
    ASSUME NEW S \in SUBSET Nat, S # {}
    PROVE  \E m \in S : \A k \in S : m <= k
<1> DEFINE T == {1 .. n : n \in S}
<1>1. IsWellFoundedOn(StrictSubsetOrdering(Nat), FiniteSubsetsOf(Nat))
  BY FS_StrictSubsetOrderingWellFounded, Zenon
<1>2. T \subseteq FiniteSubsetsOf(Nat)
  <2>1. ASSUME NEW n \in S PROVE 1 .. n \in SUBSET Nat /\ IsFiniteSet(1 .. n)
    BY FS_Interval
  <2> QED
    BY <2>1 DEF FiniteSubsetsOf
<1>3. T # {}
  BY Zenon
<1> HIDE DEF T
<1>4. PICK t \in T : \A u \in T : <<u, t>> \notin StrictSubsetOrdering(Nat)
  BY <1>1, <1>2, <1>3, WFMin, Zenon
<1>5. PICK m \in S : t = 1 .. m
  BY <1>4 DEF T
<1>6. ASSUME NEW k \in S, k < m PROVE FALSE
  <2>1. 1 .. k \in T
    BY DEF T
  <2>2. 1 .. k \subseteq 1 .. m /\ 1 .. k # 1 .. m /\ 1 .. k \in SUBSET Nat /\ 1 .. m \in SUBSET Nat
    <3>1. m \in 1 .. m /\ m \notin 1 .. k
      BY <1>6
    <3> QED
      BY <3>1, <1>6
  <2>3. <<1 .. k, t>> \in StrictSubsetOrdering(Nat)
    BY <2>2, <1>5 DEF StrictSubsetOrdering
  <2> QED
    BY <2>1, <2>3, <1>4, Zenon
<1> QED
  BY <1>6

\* A set with 0 that is closed under successor holds every natural number.
LEMMA SetInduction ==
    ASSUME NEW S, 0 \in S, \A n \in Nat : n \in S => n + 1 \in S
    PROVE  Nat \subseteq S
<1>1. SUFFICES ASSUME Nat \ S # {} PROVE FALSE
  OBVIOUS
<1>2. PICK m \in Nat \ S : \A k \in Nat \ S : m <= k
  BY <1>1, Smallest, Zenon
<1>3. m # 0 /\ m - 1 \in Nat
  OBVIOUS
<1>4. m - 1 \in S
  BY <1>2, <1>3
<1> QED
  BY <1>3, <1>4

\* The empty set is one of them, and one element less makes one of the smaller.
LEMMA AtMostFacts ==
    ASSUME NEW S, NEW n \in Nat
    PROVE  /\ \A s \in AtMost(0, S) : s = {}
           /\ {} \in AtMost(n, S)
           /\ AtMost(n, S) \subseteq AtMost(n + 1, S)
           /\ \A s \in AtMost(n + 1, S) : \A x \in s : s \ {x} \in AtMost(n, S)
           /\ \A s \in AtMost(n + 1, S) : s # {} => Pick(s) \in s
<1>1. \A s \in AtMost(0, S) : s = {}
  <2>1. ASSUME NEW s \in AtMost(0, S) PROVE s = {}
    <3>1. IsFiniteSet(s) /\ Cardinality(s) \in Nat /\ Cardinality(s) <= 0
      BY FS_CardinalityType, Zenon DEF AtMost
    <3>2. Cardinality(s) = 0
      BY <3>1
    <3> QED
      BY <3>1, <3>2, FS_EmptySet, Zenon
  <2> QED
    BY <2>1, Zenon
<1>2. {} \in AtMost(n, S)
  BY FS_EmptySet DEF AtMost
<1>3. AtMost(n, S) \subseteq AtMost(n + 1, S)
  <2>1. ASSUME NEW s \in AtMost(n, S) PROVE s \in AtMost(n + 1, S)
    <3>1. IsFiniteSet(s) /\ Cardinality(s) \in Nat /\ Cardinality(s) <= n /\ s \in SUBSET S
      BY FS_CardinalityType, Zenon DEF AtMost
    <3>2. Cardinality(s) <= n + 1
      BY <3>1
    <3> QED
      BY <3>1, <3>2, Zenon DEF AtMost
  <2> QED
    BY <2>1, Zenon
<1>4. ASSUME NEW s \in AtMost(n + 1, S), NEW x \in s
      PROVE  s \ {x} \in AtMost(n, S)
  <2>1. IsFiniteSet(s) /\ Cardinality(s) \in Nat /\ Cardinality(s) <= n + 1 /\ s \in SUBSET S
    BY FS_CardinalityType, Zenon DEF AtMost
  <2>2. IsFiniteSet(s \ {x}) /\ Cardinality(s \ {x}) = Cardinality(s) - 1
    BY <2>1, FS_RemoveElement
  <2>3. Cardinality(s \ {x}) <= n
    BY <2>1, <2>2
  <2> QED
    BY <2>1, <2>2, <2>3, Zenon DEF AtMost
<1>5. \A s \in AtMost(n + 1, S) : s # {} => Pick(s) \in s
  BY Zenon DEF Pick
<1> QED
  BY <1>1, <1>2, <1>3, <1>4, <1>5, Zenon

\* The function exists, for every bound on the number of elements.
LEMMA SumExists ==
    ASSUME NEW f, NEW S, NEW n \in Nat
    PROVE  \E g : IsSum(g, f, AtMost(n, S))
<1> DEFINE N == {k \in Nat : \E g : IsSum(g, f, AtMost(k, S))}
<1>1. 0 \in N
  <2> DEFINE g == [s \in AtMost(0, S) |-> 0]
  <2>1. \A s \in AtMost(0, S) : s = {}
    BY AtMostFacts, Zenon
  <2>2. IsSum(g, f, AtMost(0, S))
    BY <2>1 DEF IsSum
  <2> QED
    BY <2>2
<1>2. ASSUME NEW k \in Nat, k \in N
      PROVE  k + 1 \in N
  <2>1. PICK g : IsSum(g, f, AtMost(k, S))
    BY <1>2
  <2> DEFINE h == [s \in AtMost(k + 1, S) |-> IF s = {} THEN 0 ELSE f[Pick(s)] + g[s \ {Pick(s)}]]
  <2>2. \A s \in AtMost(k, S) : h[s] = g[s]
    <3>1. AtMost(k, S) \subseteq AtMost(k + 1, S)
      BY AtMostFacts, Zenon
    <3>2. \A s \in AtMost(k, S) : g[s] = IF s = {} THEN 0 ELSE f[Pick(s)] + g[s \ {Pick(s)}]
      BY <2>1, Zenon DEF IsSum
    <3> QED
      BY <3>1, <3>2, Zenon
  <2>3. ASSUME NEW s \in AtMost(k + 1, S), s # {}
        PROVE  h[s \ {Pick(s)}] = g[s \ {Pick(s)}]
    <3>1. s \ {Pick(s)} \in AtMost(k, S)
      BY <2>3, AtMostFacts, Zenon
    <3> QED
      BY <2>2, <3>1, Zenon
  <2>4. h = [s \in AtMost(k + 1, S) |-> IF s = {} THEN 0 ELSE f[Pick(s)] + h[s \ {Pick(s)}]]
    BY <2>3, Zenon
  <2>5. IsSum(h, f, AtMost(k + 1, S))
    BY <2>4, Zenon DEF IsSum
  <2> HIDE DEF h
  <2> QED
    BY <2>5
<1> HIDE DEF N
<1>3. Nat \subseteq N
  BY <1>1, <1>2, SetInduction, Zenon
<1> QED
  BY <1>3 DEF N

\* Two such functions agree on a finite set both know, if their terms do there.
LEMMA SumsAgree ==
    ASSUME NEW S, IsFiniteSet(S), NEW T, S \subseteq T, NEW f, NEW e, SameTerms(f, e, S)
    PROVE  \A g, h : IsSum(g, f, SUBSET S) /\ IsSum(h, e, SUBSET T) => g[S] = h[S]
<1> SUFFICES ASSUME NEW g, NEW h, IsSum(g, f, SUBSET S), IsSum(h, e, SUBSET T)
             PROVE  g[S] = h[S]
  BY Zenon
<1> DEFINE N == {k \in Nat : \A s \in AtMost(k, S) : g[s] = h[s]}
<1>0. \A s \in SUBSET S : IsFiniteSet(s) =>
        /\ g[s] = IF s = {} THEN 0 ELSE f[Pick(s)] + g[s \ {Pick(s)}]
        /\ h[s] = IF s = {} THEN 0 ELSE e[Pick(s)] + h[s \ {Pick(s)}]
  BY Zenon DEF IsSum
<1>1. 0 \in N
  <2>1. {} \in SUBSET S /\ IsFiniteSet({})
    BY FS_EmptySet, Zenon
  <2>2. g[{}] = 0 /\ h[{}] = 0
    BY <1>0, <2>1, Zenon
  <2>3. \A s \in AtMost(0, S) : s = {}
    BY AtMostFacts, Zenon
  <2> QED
    BY <2>2, <2>3, Zenon
<1>2. ASSUME NEW k \in Nat, k \in N
      PROVE  k + 1 \in N
  <2>1. ASSUME NEW s \in AtMost(k + 1, S) PROVE g[s] = h[s]
    <3>1. s \in SUBSET S /\ IsFiniteSet(s)
      BY Zenon DEF AtMost
    <3>2. CASE s = {}
      BY <1>0, <3>1, <3>2, Zenon
    <3>3. CASE s # {}
      <4>1. Pick(s) \in s /\ s \ {Pick(s)} \in AtMost(k, S)
        BY <3>3, AtMostFacts, Zenon
      <4>2. g[s \ {Pick(s)}] = h[s \ {Pick(s)}]
        BY <1>2, <4>1
      <4>3. f[Pick(s)] = e[Pick(s)]
        BY <3>1, <4>1, Zenon DEF SameTerms
      <4> QED
        BY <1>0, <3>1, <3>3, <4>2, <4>3, Zenon
    <3> QED
      BY <3>2, <3>3, Zenon
  <2> QED
    BY <2>1
<1> HIDE DEF N
<1>3. Nat \subseteq N
  BY <1>1, <1>2, SetInduction, Zenon
<1>4. ASSUME NEW s \in SUBSET S, IsFiniteSet(s) PROVE g[s] = h[s]
  <2>1. Cardinality(s) \in Nat
    BY <1>4, FS_CardinalityType, Zenon
  <2>2. Cardinality(s) <= Cardinality(s)
    BY <2>1
  <2>3. s \in AtMost(Cardinality(s), S)
    BY <1>4, <2>1, <2>2, Zenon DEF AtMost
  <2>4. Cardinality(s) \in N
    BY <1>3, <2>1, Zenon
  <2> QED
    BY <2>3, <2>4 DEF N
<1> QED
  BY <1>4, Zenon

\* Such a function is a number, and any element may be taken first.
LEMMA SumExchange ==
    ASSUME NEW f, NEW S, IsFiniteSet(S), NEW g, IsSum(g, f, SUBSET S), NatTerms(f, S)
    PROVE  Exchanges(g, f, S)
<1> DEFINE Good(s) == g[s] \in Nat /\ \A x \in s : g[s] = f[x] + g[s \ {x}]
           N == {k \in Nat : \A s \in AtMost(k, S) : Good(s)}
<1>0. \A s \in SUBSET S : g[s] = IF s = {} THEN 0 ELSE f[Pick(s)] + g[s \ {Pick(s)}]
  BY Zenon DEF IsSum
<1>1. 0 \in N
  <2>1. g[{}] = 0
    BY <1>0, Zenon
  <2>2. \A s \in AtMost(0, S) : s = {}
    BY AtMostFacts, Zenon
  <2> QED
    BY <2>1, <2>2
<1>2. ASSUME NEW k \in Nat, k \in N
      PROVE  k + 1 \in N
  <2>1. ASSUME NEW s \in AtMost(k + 1, S) PROVE Good(s)
    <3>1. s \in SUBSET S
      BY Zenon DEF AtMost
    <3>2. CASE s = {}
      <4>1. g[s] = 0
        BY <1>0, <3>1, <3>2, Zenon
      <4> QED
        BY <3>2, <4>1
    <3>3. CASE s # {}
      <4> DEFINE c == Pick(s)
      <4>1. c \in s /\ g[s] = f[c] + g[s \ {c}] /\ f[c] \in Nat
        BY <1>0, <3>1, <3>3, AtMostFacts, Zenon DEF NatTerms
      <4> HIDE DEF c
      <4>2. \A x \in s : s \ {x} \in AtMost(k, S)
        BY AtMostFacts, Zenon
      <4>3. \A x \in s : Good(s \ {x})
        BY <1>2, <4>2
      <4>4. ASSUME NEW x \in s, x # c PROVE g[s] = f[x] + g[s \ {x}]
        <5>1. /\ g[s \ {c}] = f[x] + g[(s \ {c}) \ {x}]
              /\ g[s \ {x}] = f[c] + g[(s \ {x}) \ {c}]
          BY <4>1, <4>3, <4>4, Zenon
        <5>2. (s \ {c}) \ {x} = (s \ {x}) \ {c}
          OBVIOUS
        <5>3. g[(s \ {c}) \ {x}] \in Nat
          <6>1. s \ {c} \in AtMost(k, S) /\ s \ {c} \in AtMost(k + 1, S) /\ x \in s \ {c}
            BY <4>1, <4>2, <4>4, AtMostFacts, Zenon
          <6>2. (s \ {c}) \ {x} \in AtMost(k, S)
            BY <6>1, AtMostFacts, Zenon
          <6> QED
            BY <1>2, <6>2
        <5>4. f[x] \in Nat
          BY <3>1, <4>4, Zenon DEF NatTerms
        <5>5. \A i, j, m \in Nat : i + (j + m) = j + (i + m)
          OBVIOUS
        <5>6. f[c] + (f[x] + g[(s \ {c}) \ {x}]) = f[x] + (f[c] + g[(s \ {c}) \ {x}])
          BY <4>1, <5>3, <5>4, <5>5, Zenon
        <5> QED
          BY <4>1, <5>1, <5>2, <5>6, Zenon
      <4>5. g[s] \in Nat
        <5>1. g[s \ {c}] \in Nat
          BY <4>1, <4>3, Zenon
        <5>2. \A i, j \in Nat : i + j \in Nat
          OBVIOUS
        <5> QED
          BY <4>1, <5>1, <5>2, Zenon
      <4> QED
        BY <4>1, <4>4, <4>5, Zenon
    <3> QED
      BY <3>2, <3>3, Zenon
  <2> QED
    BY <2>1
<1> HIDE DEF N
<1>3. Nat \subseteq N
  BY <1>1, <1>2, SetInduction, Zenon
<1>4. ASSUME NEW s \in SUBSET S PROVE Good(s)
  <2>1. IsFiniteSet(s)
    BY FS_Subset, Zenon
  <2>2. Cardinality(s) \in Nat
    BY <2>1, FS_CardinalityType, Zenon
  <2>3. Cardinality(s) <= Cardinality(s)
    BY <2>2
  <2>4. s \in AtMost(Cardinality(s), S)
    BY <2>1, <2>3, Zenon DEF AtMost
  <2>5. Cardinality(s) \in N
    BY <1>3, <2>2, Zenon
  <2> QED
    BY <2>4, <2>5 DEF N
<1> QED
  BY <1>4, Zenon DEF Exchanges

\* The fold over a finite set is the value of such a function.
LEMMA SumValue ==
    ASSUME NEW f, NEW S, IsFiniteSet(S)
    PROVE  \E g : IsSum(g, f, SUBSET S) /\ SumFunctionOnSet(f, S) = g[S]
<1>1. Cardinality(S) \in Nat
  BY FS_CardinalityType, Zenon
<1>2. AtMost(Cardinality(S), S) = SUBSET S
  BY FS_Subset, Zenon DEF AtMost
<1>3. \E g : IsSum(g, f, SUBSET S)
  <2>1. \E g : IsSum(g, f, AtMost(Cardinality(S), S))
    BY <1>1, SumExists, Zenon
  <2> QED
    BY <1>2, <2>1, Zenon
<1>4. SumFunctionOnSet(f, S) = LET g == CHOOSE g : IsSum(g, f, SUBSET S) IN g[S]
  BY Zenon DEF SumFunctionOnSet, FoldFunctionOnSet, MapThenFoldSet, IsSum, Pick
<1> QED
  BY <1>3, <1>4, Zenon

\* A sum over no terms.
LEMMA SumEmpty ==
    ASSUME NEW f
    PROVE  SumFunctionOnSet(f, {}) = 0
<1>1. PICK g : IsSum(g, f, SUBSET {}) /\ SumFunctionOnSet(f, {}) = g[{}]
  BY FS_EmptySet, SumValue, Zenon
<1> QED
  BY <1>1, Zenon DEF IsSum

\* A finite sum of natural numbers is one, and any term may be split off.
LEMMA SumSplit ==
    ASSUME NEW f, NEW S, IsFiniteSet(S), NatTerms(f, S)
    PROVE  /\ SumFunctionOnSet(f, S) \in Nat
           /\ \A x \in S : SumFunctionOnSet(f, S) = f[x] + SumFunctionOnSet(f, S \ {x})
<1>1. PICK g : IsSum(g, f, SUBSET S) /\ SumFunctionOnSet(f, S) = g[S]
  BY SumValue, Zenon
<1>2. g[S] \in Nat /\ \A x \in S : g[S] = f[x] + g[S \ {x}]
  <2>1. Exchanges(g, f, S)
    BY <1>1, SumExchange, Zenon
  <2> QED
    BY <2>1, Zenon DEF Exchanges
<1>3. ASSUME NEW x \in S PROVE SumFunctionOnSet(f, S \ {x}) = g[S \ {x}]
  <2>1. IsFiniteSet(S \ {x})
    BY FS_RemoveElement, Zenon
  <2>2. PICK h : IsSum(h, f, SUBSET (S \ {x})) /\ SumFunctionOnSet(f, S \ {x}) = h[S \ {x}]
    BY <2>1, SumValue, Zenon
  <2>3. S \ {x} \subseteq S /\ SameTerms(f, f, S \ {x})
    BY Zenon DEF SameTerms
  <2>4. \A k, l : IsSum(k, f, SUBSET (S \ {x})) /\ IsSum(l, f, SUBSET S) => k[S \ {x}] = l[S \ {x}]
    BY <2>1, <2>3, SumsAgree
  <2> QED
    BY <1>1, <2>2, <2>4, Zenon
<1> QED
  BY <1>1, <1>2, <1>3, Zenon

\* Sums of the same terms are the same.
LEMMA SumSame ==
    ASSUME NEW f, NEW e, NEW S, IsFiniteSet(S), SameTerms(f, e, S)
    PROVE  SumFunctionOnSet(f, S) = SumFunctionOnSet(e, S)
<1>1. PICK g : IsSum(g, f, SUBSET S) /\ SumFunctionOnSet(f, S) = g[S]
  BY SumValue, Zenon
<1>2. PICK h : IsSum(h, e, SUBSET S) /\ SumFunctionOnSet(e, S) = h[S]
  BY SumValue, Zenon
<1>3. S \subseteq S
  BY Zenon
<1>4. \A k, l : IsSum(k, f, SUBSET S) /\ IsSum(l, e, SUBSET S) => k[S] = l[S]
  BY <1>3, SumsAgree
<1> QED
  BY <1>1, <1>2, <1>4, Zenon

\* A sum of zeros.
LEMMA SumZero ==
    ASSUME NEW f, NEW S, IsFiniteSet(S), \A x \in S : f[x] = 0
    PROVE  SumFunctionOnSet(f, S) = 0
<1>1. PICK g : IsSum(g, f, SUBSET S) /\ SumFunctionOnSet(f, S) = g[S]
  BY SumValue, Zenon
<1> DEFINE h == [s \in SUBSET S |-> 0]
<1>2. \A s \in SUBSET S : s # {} => f[Pick(s)] + h[s \ {Pick(s)}] = 0
  <2>1. \A s \in SUBSET S : s # {} => Pick(s) \in S /\ s \ {Pick(s)} \in SUBSET S
    BY Zenon DEF Pick
  <2> QED
    BY <2>1
<1>3. IsSum(h, f, SUBSET S)
  BY <1>2, Zenon DEF IsSum
<1>4. S \subseteq S /\ SameTerms(f, f, S)
  BY Zenon DEF SameTerms
<1>5. \A k, l : IsSum(k, f, SUBSET S) /\ IsSum(l, f, SUBSET S) => k[S] = l[S]
  BY <1>4, SumsAgree
<1>6. h[S] = 0
  OBVIOUS
<1> HIDE DEF h
<1> QED
  BY <1>1, <1>3, <1>5, <1>6, Zenon

----------------------------------------------------------------------------
(* Facts about finite sets, maxima and minima.                             *)

\* The greater of two, as fetch_max stores it.
LEMMA MaxOfTwo ==
    ASSUME NEW a \in Int, NEW b \in Int
    PROVE  /\ Max({a, b}) \in {a, b}
           /\ Max({a, b}) >= a /\ Max({a, b}) >= b
<1>1. \E x \in {a, b} : \A y \in {a, b} : x >= y
  <2>1. CASE a >= b
    BY <2>1
  <2>2. CASE ~(a >= b)
    BY <2>2
  <2> QED
    BY <2>1, <2>2
<1> QED
  BY <1>1 DEF Max

\* The lesser of two, as the room left in the frontier bounds a batch.
LEMMA MinOfTwo ==
    ASSUME NEW a \in Int, NEW b \in Int
    PROVE  /\ Min({a, b}) \in {a, b}
           /\ Min({a, b}) <= a /\ Min({a, b}) <= b
<1>1. \E x \in {a, b} : \A y \in {a, b} : x <= y
  <2>1. CASE a <= b
    BY <2>1
  <2>2. CASE ~(a <= b)
    BY <2>2
  <2> QED
    BY <2>1, <2>2
<1> QED
  BY <1>1 DEF Min

\* Two finite sets that differ in x at most.
LEMMA CountMoves ==
    ASSUME NEW S, NEW T, NEW x, IsFiniteSet(S), S \ {x} = T \ {x}
    PROVE  CountsMove(S, T, x)
<1> USE DEF CountsMove
<1>1. (x \in S <=> x \in T) => T = S
  OBVIOUS
<1>2. CASE x \in S /\ x \notin T
  <2>1. T = S \ {x}
    BY <1>2
  <2>2. IsFiniteSet(T) /\ Cardinality(T) = Cardinality(S) - 1
    BY <1>2, <2>1, FS_RemoveElement
  <2>3. Cardinality(S) \in Nat /\ Cardinality(T) \in Nat
    BY <2>2, FS_CardinalityType
  <2> QED
    BY <1>2, <2>2, <2>3
<1>3. CASE x \notin S /\ x \in T
  <2>1. T = S \cup {x}
    BY <1>3
  <2>2. IsFiniteSet(T) /\ Cardinality(T) = Cardinality(S) + 1
    BY <1>3, <2>1, FS_AddElement
  <2>3. Cardinality(S) \in Nat /\ Cardinality(T) \in Nat
    BY <2>2, FS_CardinalityType
  <2> QED
    BY <1>3, <2>2, <2>3
<1>4. CASE x \in S <=> x \in T
  BY <1>1, <1>4, FS_CardinalityType
<1> QED
  BY <1>2, <1>3, <1>4

----------------------------------------------------------------------------
(* How a step of a process changes where it is.                            *)

\* The fields of a place.
LEMMA PlaceFields ==
    ASSUME TableTyped, NEW p \in Procs
    PROVE  PlaceTyped(p)
<1> USE DEF PlaceTyped
<1>1. at[p] \in Place /\ (at[p].pc # "idle" => at[p].site \in Sites)
  BY Zenon DEF TableTyped
<1> QED
  BY <1>1 DEF Place, Pcs

\* The fields of an entry.
LEMMA EntryFields ==
    ASSUME TableTyped, NEW e \in Index
    PROVE  EntryTyped(e)
<1> USE DEF EntryTyped
<1>1. table[e] \in Entry
  BY Zenon DEF TableTyped
<1> QED
  BY <1>1 DEF Entry

\* The program's numbers.
LEMMA ProgramFacts ==
    ASSUME TableTyped
    PROVE  ProgramSound
<1> USE DEF ProgramSound
<1>1. program \in Programs
  BY Zenon DEF TableTyped
<1>2. /\ {program.runs, program.capacity} \subseteq Nat \ {0} /\ program.length \in Nat
      /\ program.values \subseteq 0 .. 3 /\ MaxJournal \in Nat \ {0}
  BY <1>1, TableAssumption, Zenon
<1>3. program.sites \subseteq Sites
  BY <1>1 DEF Sites
<1>4. program.capacity \in Nat /\ program.capacity >= 1 /\ program.runs \in Nat /\ program.runs >= 1
  BY <1>2
<1>5. 0 \in Index
  BY <1>4 DEF Index
<1>6. \A n \in Nat : IsFiniteSet(0 .. n - 1)
  BY FS_Interval
<1>7. IsFiniteSet(Index)
  BY <1>4, <1>6, Zenon DEF Index
<1> QED
  BY <1>2, <1>3, <1>4, <1>5, <1>7, SMTT(60)

\* The entries are numbered from zero up to the capacity.
LEMMA IndexNat ==
    ASSUME TableTyped
    PROVE  \A e \in Index : e \in Nat /\ 0 <= e /\ e < program.capacity
BY ProgramFacts, FromZero, Zenon DEF Index, ProgramSound

\* A site that is evaluated.
LEMMA SiteFacts ==
    ASSUME NEW s \in Sites
    PROVE  s.id \in Ids /\ s.id # NoId /\ s.kind \in Kinds
<1>1. PICK g \in Programs : s \in g.sites
  BY DEF Sites
<1>2. s.id # NoId /\ s.kind \in {"always", "sometimes", "numeric", "all", "each"}
  BY <1>1, TableAssumption, Zenon
<1>3. s.id \in Ids
  BY DEF Ids, Sites
<1> QED
  BY <1>2, <1>3, Zenon DEF Kinds

\* A process is put somewhere.
LEMMA PutEffect ==
    ASSUME TableTyped, NEW p \in Procs, NEW r, r \in Place, at' = [at EXCEPT ![p] = r]
    PROVE  at' \in [Procs -> Place] /\ at'[p] = r /\ OthersStay(p)
BY DEF TableTyped, OthersStay

\* A process that only moves on.
LEMMA MoveEffect ==
    ASSUME TableTyped, NEW p \in Procs, NEW pc \in Pcs, Move(p, pc)
    PROVE  Moves(p, pc)
<1> USE DEF Moves
<1> DEFINE r == [at[p] EXCEPT !.pc = pc]
<1>1. at[p] \in Place /\ at' = [at EXCEPT ![p] = r]
  BY DEF TableTyped, Move
<1>2. r \in Place
  BY <1>1 DEF Place, Pcs
<1>3. r.pc = pc /\ r.mine = at[p].mine /\ r.i = at[p].i /\ r.known = at[p].known /\ r.news = at[p].news
      /\ r.site = at[p].site /\ r.value = at[p].value /\ r.done = at[p].done /\ r.count = at[p].count
  BY <1>1 DEF Place
<1> HIDE DEF r
<1>4. at' \in [Procs -> Place] /\ at'[p] = r /\ OthersStay(p)
  BY <1>1, <1>2, PutEffect, Zenon
<1> QED
  BY <1>3, <1>4, Zenon DEF SameWork

\* A process between two evaluations.
LEMMA IdleFields ==
    ASSUME TableTyped, NEW n \in Nat
    PROVE  Idle(n) \in Place /\ Idle(n).pc = "idle" /\ Idle(n).done = n
<1>1. 0 \in Index /\ program.capacity \in Nat
  BY ProgramFacts, Zenon DEF ProgramSound
<1> QED
  BY <1>1 DEF Idle, Place, NoSite

\* A process that finishes an evaluation.
LEMMA FinishEffect ==
    ASSUME TableTyped, NEW p \in Procs, Finish(p)
    PROVE  Finishes(p)
<1> USE Zenon DEF Finishes
<1>1. at[p].done \in Nat
  BY PlaceFields DEF PlaceTyped
<1>2. at[p].done + 1 \in Nat
  BY <1>1, SMT
<1>3. Idle(at[p].done + 1) \in Place /\ Idle(at[p].done + 1).pc = "idle"
      /\ Idle(at[p].done + 1).done = at[p].done + 1
  BY <1>2, IdleFields
<1>4. at' = [at EXCEPT ![p] = Idle(at[p].done + 1)]
  BY DEF Finish
<1>5. at' \in [Procs -> Place] /\ at'[p] = Idle(at[p].done + 1) /\ OthersStay(p)
  BY <1>3, <1>4, PutEffect
<1> QED
  BY <1>3, <1>5

----------------------------------------------------------------------------
(* How a step of a process changes the table, and what the others see.     *)

\* A step that leaves the table alone.
LEMMA KeptSame ==
    ASSUME TableInv, NEW p \in Procs, UNCHANGED table
    PROVE  TableKept(p)
<1> USE Zenon
<1>1. table \in [Index -> Entry] /\ Unpublished
  BY DEF TableInv, TableTyped
<1>2. ReadyStays /\ OwnedStay(p) /\ NoStrayCount
  BY <1>1 DEF ReadyStays, OwnedStay, NoStrayCount, Unpublished
<1>3. IdsStay(p)
  BY DEF IdsStay
<1> QED
  BY <1>1, <1>2, <1>3 DEF TableKept

\* A step that counts or latches in a published entry.
LEMMA KeptTouch ==
    ASSUME TableInv, NEW p \in Procs, NEW e \in Index, NEW x \in Entry,
           table[e].state = "ready", x.state = "ready", x.id = table[e].id,
           x.kind = table[e].kind, table' = [table EXCEPT ![e] = x]
    PROVE  TableKept(p)
<1> USE Zenon
<1>1. table \in [Index -> Entry] /\ Unpublished /\ Owned /\ TableTyped
  BY DEF TableInv, TableTyped
<1>2. table' \in [Index -> Entry] /\ table'[e] = x /\ \A f \in Index : f # e => table'[f] = table[f]
  BY <1>1, ZenonT(60)
<1>3. ReadyStays
  BY <1>2 DEF ReadyStays
<1>4. OwnedStay(p)
  <2>1. ASSUME NEW q \in Procs, Owns(q) PROVE at[q].mine \in Index /\ at[q].mine # e
    <3>1. at[q].mine \in Index
      BY <1>1, PlaceFields DEF PlaceTyped
    <3>2. OwnedBy(q)
      BY <1>1 DEF Owned
    <3>3. table[at[q].mine].state = "unused" \/ table[at[q].mine].state = "initializing"
      BY <3>2, <2>1 DEF OwnedBy, Owns
    <3> QED
      BY <3>1, <3>3
  <2> QED
    BY <2>1, <1>2 DEF OwnedStay
<1>5. IdsStay(p)
  <2>1. ASSUME NEW f \in Index, f # e
        PROVE  table'[f].state = "unused" \/ (table[f].state # "unused" /\ table'[f].id = table[f].id)
    BY <1>2, <2>1
  <2>2. table[e].state # "unused" /\ table'[e].id = table[e].id
    BY <1>2
  <2> QED
    BY <2>1, <2>2 DEF IdsStay
<1>6. NoStrayCount
  BY <1>1, <1>2 DEF NoStrayCount, Unpublished
<1> QED
  BY <1>2, <1>3, <1>4, <1>5, <1>6 DEF TableKept

\* A step of the owner of an entry on that entry.
LEMMA KeptOwn ==
    ASSUME TableInv, NEW p \in Procs, NEW x \in Entry, Owns(p),
           x.state # "unused" => x.id = at[p].site.id,
           x.state # "ready" => x.count = 0,
           table' = [table EXCEPT ![at[p].mine] = x]
    PROVE  TableKept(p)
<1> USE Zenon
<1>1. table \in [Index -> Entry] /\ Unpublished /\ Owned /\ TableTyped /\ Apart
  BY DEF TableInv, TableTyped
<1>2. at[p].mine \in Index
  BY <1>1, PlaceFields DEF PlaceTyped
<1>3. /\ table' \in [Index -> Entry] /\ table'[at[p].mine] = x
      /\ \A f \in Index : f # at[p].mine => table'[f] = table[f]
  BY <1>1, <1>2, ZenonT(60)
<1>4. OwnedBy(p)
  BY <1>1 DEF Owned
<1>5. table[at[p].mine].state # "ready"
  BY <1>4 DEF OwnedBy, Owns
<1>6. ReadyStays
  BY <1>3, <1>5 DEF ReadyStays
<1>7. OwnedStay(p)
  <2>1. ASSUME NEW q \in Procs, Owns(q), q # p PROVE at[q].mine \in Index /\ at[q].mine # at[p].mine
    BY <1>1, <2>1, PlaceFields DEF Apart, PlaceTyped
  <2> QED
    BY <2>1, <1>3 DEF OwnedStay
<1>8. IdsStay(p)
  <2>1. ASSUME NEW f \in Index, f # at[p].mine
        PROVE  table'[f].state = "unused" \/ (table[f].state # "unused" /\ table'[f].id = table[f].id)
    BY <1>3, <2>1
  <2>2. \/ at[p].pc = "mark" \/ x.state = "unused"
        \/ table[at[p].mine].state # "unused" /\ table[at[p].mine].id = x.id
    BY <1>4 DEF OwnedBy
  <2> QED
    BY <2>1, <2>2, <1>3 DEF IdsStay
<1>9. NoStrayCount
  BY <1>1, <1>3 DEF NoStrayCount, Unpublished
<1> QED
  BY <1>3, <1>6, <1>7, <1>8, <1>9 DEF TableKept

\* What the other processes rely on is left as it was.
LEMMA OthersKeep ==
    ASSUME TableInv, NEW p \in Procs, program' = program, TableKept(p), OthersStay(p),
           NEW q \in Procs, q # p
    PROVE  OwnedBy(q)' /\ UsedBy(q)' /\ AwaitedBy(q)' /\ AheadOf(q)'
<1> USE ZenonT(60)
<1>1. at'[q] = at[q] /\ Index' = Index
  BY DEF OthersStay, Index
<1>2. OwnedBy(q) /\ UsedBy(q) /\ AwaitedBy(q) /\ AheadOf(q) /\ at[q].mine \in Index
  BY PlaceFields DEF TableInv, Owned, Used, Awaited, Ahead, PlaceTyped
<1>3. OwnedBy(q)'
  <2>1. CASE Owns(q)
    <3>1. table'[at'[q].mine] = table[at[q].mine]
      BY <2>1, <1>1 DEF TableKept, OwnedStay
    <3> QED
      BY <3>1, <1>1, <1>2 DEF OwnedBy, Owns
  <2>2. CASE ~Owns(q)
    BY <2>2, <1>1 DEF OwnedBy, Owns
  <2> QED
    BY <2>1, <2>2
<1>4. UsedBy(q)'
  <2>1. CASE Uses(q)
    <3>1. /\ table[at[q].mine].state = "ready" /\ table[at[q].mine].id = at[q].site.id
          /\ table[at[q].mine].kind = at[q].site.kind
          /\ at[q].pc = "measure" => at[q].site.kind \in {"all", "each"}
          /\ at[q].pc = "latch" => at[q].site.kind # "always"
      BY <2>1, <1>2 DEF UsedBy
    <3>2. /\ table'[at[q].mine].state = "ready" /\ table'[at[q].mine].id = table[at[q].mine].id
          /\ table'[at[q].mine].kind = table[at[q].mine].kind
      BY <3>1, <1>2 DEF TableKept, ReadyStays
    <3> QED
      BY <3>1, <3>2, <1>1, ZenonT(60) DEF UsedBy, Uses
  <2>2. CASE ~Uses(q)
    BY <2>2, <1>1 DEF UsedBy, Uses
  <2> QED
    BY <2>1, <2>2
<1>5. AwaitedBy(q)'
  <2>1. CASE Awaits(q)
    <3>1. at[q].i \in Index /\ (table[at[q].i].state = "unused" \/ table[at[q].i].id = at[q].site.id)
      BY <2>1, <1>2 DEF AwaitedBy, TableInv, ClaimedBelow
    <3>2. ~(at[p].pc = "mark" /\ at[p].mine = at[q].i)
      BY <2>1 DEF TableInv, Unmarked
    <3>3. table'[at[q].i].state = "unused" \/ table'[at[q].i].id = at[q].site.id
      BY <3>1, <3>2 DEF TableKept, IdsStay
    <3> QED
      BY <3>3, <1>1 DEF AwaitedBy
  <2>2. CASE ~Awaits(q)
    BY <2>2, <1>1 DEF AwaitedBy, Awaits
  <2> QED
    BY <2>1, <2>2
<1>6. AheadOf(q)'
  <2>1. SUFFICES ASSUME at[q].known, at[q].pc \in {"marked", "check"}
                 PROVE  WillMeet(q)'
    BY <1>1 DEF AheadOf
  <2>2. PICK e \in Ready(at[q].site.id) : at[q].pc = "check" => at[q].i <= e /\ e < at[q].count
    BY <2>1, <1>2 DEF AheadOf, WillMeet
  <2>3. e \in Index /\ table[e].state = "ready" /\ table[e].id = at[q].site.id
    BY <2>2 DEF Ready
  <2>4. table'[e].state = "ready" /\ table'[e].id = at[q].site.id
    BY <2>3 DEF TableKept, ReadyStays
  <2>5. e \in Ready(at[q].site.id)'
    BY <2>3, <2>4, <1>1 DEF Ready
  <2> QED
    BY <2>2, <2>5, <1>1 DEF WillMeet
<1> QED
  BY <1>3, <1>4, <1>5, <1>6

\* A step of p keeps the claims sound.
LEMMA ClaimsKept ==
    ASSUME TableInv, NEW p \in Procs, program' = program, TableKept(p), OthersStay(p),
           NextKept, Placed(p)
    PROVE  ClaimsInv'
<1> USE Zenon
<1>1. Index' = Index /\ ClaimedBelow
  BY DEF Index, TableInv
<1>2. \A q \in Procs : q # p => at'[q] = at[q]
  BY DEF OthersStay
<1>3. \A q \in Procs : OwnedBy(q)' /\ UsedBy(q)' /\ AwaitedBy(q)' /\ AheadOf(q)'
  BY OthersKeep DEF Placed
<1>4. Owned' /\ Used' /\ Awaited' /\ Ahead'
  BY <1>3 DEF Owned, Used, Awaited, Ahead
<1>5. Unpublished'
  BY <1>1 DEF TableKept, NoStrayCount, Unpublished
<1>6. ClaimedBelow'
  <2>1. ASSUME NEW e \in Index, table'[e].state # "unused" PROVE e < next'
    <3>1. CASE table[e].state # "unused"
      BY <3>1, <1>1 DEF NextKept, ClaimedBelow
    <3>2. CASE at[p].pc = "mark" /\ at[p].mine = e
      BY <3>2, <1>1 DEF NextKept, ClaimedBelow, Owns
    <3> QED
      BY <2>1, <3>1, <3>2 DEF TableKept, IdsStay
  <2>2. ASSUME NEW q \in Procs, Owns(q)' PROVE at'[q].mine < next'
    <3>1. CASE q = p
      BY <3>1, <2>2 DEF Placed
    <3>2. CASE q # p
      <4>1. Owns(q) /\ at'[q].mine = at[q].mine /\ at[q].mine \in Index
        BY <3>2, <2>2, <1>2, PlaceFields DEF Owns, TableInv, PlaceTyped
      <4> QED
        BY <4>1, <1>1 DEF NextKept, ClaimedBelow
    <3> QED
      BY <3>1, <3>2
  <2>3. ASSUME NEW q \in Procs, Awaits(q)' PROVE at'[q].i < next' /\ at'[q].i \in Index
    <3>1. CASE q = p
      BY <3>1, <2>3 DEF Placed
    <3>2. CASE q # p
      <4>1. Awaits(q) /\ at'[q].i = at[q].i
        BY <3>2, <2>3, <1>2 DEF Awaits
      <4> QED
        BY <4>1, <1>1 DEF NextKept, ClaimedBelow
    <3> QED
      BY <3>1, <3>2
  <2> QED
    BY <2>1, <2>2, <2>3, <1>1 DEF ClaimedBelow
<1>7. Apart'
  <2>1. SUFFICES ASSUME NEW q \in Procs, NEW r \in Procs, q # r, Owns(q)', Owns(r)'
                 PROVE  at'[q].mine # at'[r].mine
    BY DEF Apart
  <2>2. ASSUME NEW t \in Procs, t # p, Owns(t)' PROVE Owns(t) /\ at'[t].mine = at[t].mine
    BY <2>2, <1>2 DEF Owns
  <2>3. CASE q = p
    BY <2>1, <2>2, <2>3 DEF Placed
  <2>4. CASE r = p
    BY <2>1, <2>2, <2>4 DEF Placed
  <2>5. CASE q # p /\ r # p
    BY <2>1, <2>2, <2>5 DEF TableInv, Apart
  <2> QED
    BY <2>3, <2>4, <2>5
<1>8. Unmarked'
  <2>1. SUFFICES ASSUME NEW q \in Procs, NEW r \in Procs, Awaits(q)', at'[r].pc = "mark"
                 PROVE  at'[r].mine # at'[q].i
    BY DEF Unmarked
  <2>2. q # p => Awaits(q) /\ at'[q].i = at[q].i
    BY <2>1, <1>2 DEF Awaits
  <2>3. r # p => at[r].pc = "mark" /\ at'[r].mine = at[r].mine
    BY <2>1, <1>2
  <2>4. q # r
    BY <2>1, ZenonT(60) DEF Awaits
  <2>5. CASE q = p
    BY <2>1, <2>3, <2>4, <2>5 DEF Placed
  <2>6. CASE r = p
    BY <2>1, <2>2, <2>4, <2>6 DEF Placed
  <2>7. CASE q # p /\ r # p
    BY <2>2, <2>3, <2>7 DEF TableInv, Unmarked
  <2> QED
    BY <2>5, <2>6, <2>7
<1> QED
  BY <1>4, <1>5, <1>6, <1>7, <1>8 DEF ClaimsInv

\* A process that takes an entry.
LEMMA TakeEffect ==
    ASSUME TableTyped, NEW p \in Procs, NEW pc \in Pcs, NEW e \in Index,
           Takes(p, pc, e)
    PROVE  Becomes(p, pc, at[p].i, at[p].count, e, at[p].news, at[p].known)
<1> USE DEF Becomes
<1> DEFINE r == [at[p] EXCEPT !.pc = pc, !.mine = e]
<1>1. at[p] \in Place /\ at' = [at EXCEPT ![p] = r]
  BY Zenon DEF TableTyped, Takes
<1>2. r \in Place
  BY <1>1, Zenon DEF Place, Pcs
<1>3. /\ r.pc = pc
      /\ r.site = at[p].site
      /\ r.value = at[p].value
      /\ r.i = at[p].i
      /\ r.count = at[p].count
      /\ r.mine = e
      /\ r.news = at[p].news
      /\ r.known = at[p].known
      /\ r.done = at[p].done
  BY <1>1 DEF Place
<1> HIDE DEF r
<1>4. at' \in [Procs -> Place] /\ at'[p] = r /\ OthersStay(p)
  BY <1>1, <1>2, PutEffect, Zenon
<1> QED
  BY <1>3, <1>4, Zenon

\* A search that goes on to the next entry.
LEMMA AdvanceEffect ==
    ASSUME TableTyped, NEW p \in Procs,
           at[p].i < at[p].count, at' = [at EXCEPT ![p].i = @ + 1]
    PROVE  Becomes(p, at[p].pc, at[p].i + 1, at[p].count, at[p].mine, at[p].news, at[p].known)
<1> USE DEF Becomes
<1> DEFINE r == [at[p] EXCEPT !.i = @ + 1]
<1>1. at[p] \in Place /\ at' = [at EXCEPT ![p] = r]
  BY DEF TableTyped
<1>2. r \in Place
  <2>1. program.capacity \in Nat /\ at[p].i \in 0 .. program.capacity /\ at[p].count \in 0 .. program.capacity
    BY PlaceFields, ProgramFacts, Zenon DEF PlaceTyped, ProgramSound
  <2>2. at[p].i + 1 \in 0 .. program.capacity
    BY <2>1
  <2> QED
    BY <1>1, <2>2 DEF Place
<1>3. /\ r.pc = at[p].pc
      /\ r.site = at[p].site
      /\ r.value = at[p].value
      /\ r.i = at[p].i + 1
      /\ r.count = at[p].count
      /\ r.mine = at[p].mine
      /\ r.news = at[p].news
      /\ r.known = at[p].known
      /\ r.done = at[p].done
  BY <1>1 DEF Place
<1> HIDE DEF r
<1>4. at' \in [Procs -> Place] /\ at'[p] = r /\ OthersStay(p)
  BY <1>1, <1>2, PutEffect, Zenon
<1> QED
  BY <1>3, <1>4, Zenon

\* A search that begins.
LEMMA SearchEffect ==
    ASSUME TableTyped, NEW p \in Procs, NEW pc \in Pcs, NEW n \in 0 .. program.capacity,
           Searches(p, pc, n)
    PROVE  Becomes(p, pc, 0, n, at[p].mine, at[p].news, at[p].known)
<1> USE DEF Becomes
<1> DEFINE r == [at[p] EXCEPT !.pc = pc, !.i = 0, !.count = n]
<1>1. at[p] \in Place /\ at' = [at EXCEPT ![p] = r]
  BY Zenon DEF TableTyped, Searches
<1>2. r \in Place
  <2>1. program.capacity \in Nat
    BY ProgramFacts, Zenon DEF ProgramSound
  <2>2. 0 \in 0 .. program.capacity
    BY <2>1
  <2> QED
    BY <1>1, <2>2, Zenon DEF Place, Pcs
<1>3. /\ r.pc = pc
      /\ r.site = at[p].site
      /\ r.value = at[p].value
      /\ r.i = 0
      /\ r.count = n
      /\ r.mine = at[p].mine
      /\ r.news = at[p].news
      /\ r.known = at[p].known
      /\ r.done = at[p].done
  BY <1>1 DEF Place
<1> HIDE DEF r
<1>4. at' \in [Procs -> Place] /\ at'[p] = r /\ OthersStay(p)
  BY <1>1, <1>2, PutEffect, Zenon
<1> QED
  BY <1>3, <1>4, Zenon

\* A process that has marked its entry.
LEMMA MarkEffect ==
    ASSUME TableTyped, NEW p \in Procs, NEW pc \in Pcs, NEW b \in BOOLEAN,
           Marks(p, pc, b)
    PROVE  Becomes(p, pc, at[p].i, at[p].count, at[p].mine, at[p].news, b)
<1> USE DEF Becomes
<1> DEFINE r == [at[p] EXCEPT !.pc = pc, !.known = b]
<1>1. at[p] \in Place /\ at' = [at EXCEPT ![p] = r]
  BY Zenon DEF TableTyped, Marks
<1>2. r \in Place
  BY <1>1, Zenon DEF Place, Pcs
<1>3. /\ r.pc = pc
      /\ r.site = at[p].site
      /\ r.value = at[p].value
      /\ r.i = at[p].i
      /\ r.count = at[p].count
      /\ r.mine = at[p].mine
      /\ r.news = at[p].news
      /\ r.known = b
      /\ r.done = at[p].done
  BY <1>1 DEF Place
<1> HIDE DEF r
<1>4. at' \in [Procs -> Place] /\ at'[p] = r /\ OthersStay(p)
  BY <1>1, <1>2, PutEffect, Zenon
<1> QED
  BY <1>3, <1>4, Zenon

\* A process that has measured its value.
LEMMA NewsEffect ==
    ASSUME TableTyped, NEW p \in Procs, NEW pc \in Pcs, NEW b \in BOOLEAN,
           Measures(p, pc, b)
    PROVE  Becomes(p, pc, at[p].i, at[p].count, at[p].mine, b, at[p].known)
<1> USE Zenon DEF Becomes
<1> DEFINE r == [at[p] EXCEPT !.pc = pc, !.news = b]
<1>1. at[p] \in Place /\ at' = [at EXCEPT ![p] = r]
  BY DEF TableTyped, Measures
<1>2. r \in Place
  BY <1>1 DEF Place, Pcs
<1>3. /\ r.pc = pc
      /\ r.site = at[p].site
      /\ r.value = at[p].value
      /\ r.i = at[p].i
      /\ r.count = at[p].count
      /\ r.mine = at[p].mine
      /\ r.news = b
      /\ r.known = at[p].known
      /\ r.done = at[p].done
  BY <1>1, ZenonT(60) DEF Place
<1> HIDE DEF r
<1>4. at' \in [Procs -> Place] /\ at'[p] = r /\ OthersStay(p)
  BY <1>1, <1>2, PutEffect
<1> QED
  BY <1>3, <1>4

\* The number of entries a search looks at.
LEMMA ClaimedRange ==
    ASSUME TableTyped
    PROVE  Claimed \in 0 .. program.capacity /\ \A e \in Index : e < next => e < Claimed
<1>1. program.capacity \in Nat /\ next \in Nat
  BY ProgramFacts, Zenon DEF TableTyped, ProgramSound
<1>2. \A e \in Index : e < program.capacity
  BY IndexNat
<1> QED
  BY <1>1, <1>2 DEF Claimed

\* A process that searches, found the table full or is between evaluations holds
\* nothing.
LEMMA PlacedFree ==
    ASSUME NEW p \in Procs, at'[p].pc \in {"idle", "find", "full"},
           at'[p].pc # "idle" => at'[p].site \in Sites
    PROVE  Placed(p)
BY ZenonT(60) DEF Placed, Owns, Uses, Awaits, OwnedBy, UsedBy, AwaitedBy, AheadOf

\* A process that holds a published entry.
LEMMA PlacedUser ==
    ASSUME NEW p \in Procs, at'[p].pc \in {"record", "measure", "latch"}, UsedBy(p)',
           at'[p].site \in Sites
    PROVE  Placed(p)
BY DEF Placed, Owns, Uses, Awaits, OwnedBy, AwaitedBy, AheadOf

----------------------------------------------------------------------------
(* The steps of an evaluation, one lemma each.                             *)

\* The invariant's parts a step starts from.
LEMMA StepFacts ==
    ASSUME TableInv, NEW p \in Procs
    PROVE  TableParts(p)
BY Zenon DEF TableInv, TableTyped, Owned, Used, Awaited, Ahead, TableParts

\* The count that does not change keeps its claims.
LEMMA NextSame ==
    ASSUME UNCHANGED next
    PROVE  NextKept
BY Zenon DEF NextKept

\* claim begins: the first search.
LEMMA EvaluateSound ==
    ASSUME TableInv, NEW p \in Procs, NEW site \in program.sites, NEW value \in program.values,
           Evaluate(p, site, value)
    PROVE  StepSound(p) /\ at'[p].pc = "find" /\ at'[p].done = at[p].done
<1> USE ZenonT(60)
<1> DEFINE base == Idle(at[p].done)
           r == [base EXCEPT !.pc = "find", !.site = site, !.value = value, !.count = Claimed]
<1>1. TableTyped /\ site \in Sites /\ value \in 0 .. 3 /\ Claimed \in 0 .. program.capacity
      /\ at[p].done \in Nat /\ next \in Nat /\ dropped \in Nat
  BY StepFacts, ProgramFacts, ClaimedRange, PlaceFields, ZenonT(60) DEF TableParts, ProgramSound, PlaceTyped
<1>2. at' = [at EXCEPT ![p] = r]
  BY ZenonT(60) DEF Evaluate
<1>3. base \in Place /\ base.done = at[p].done
  BY <1>1, IdleFields
<1> HIDE DEF base
<1>4. r \in Place /\ r.pc = "find" /\ r.site = site /\ r.done = at[p].done
  BY <1>1, <1>3 DEF Place
<1> HIDE DEF r
<1>5. at' \in [Procs -> Place] /\ at'[p] = r /\ OthersStay(p)
  BY <1>1, <1>2, <1>4, PutEffect
<1>6. Placed(p)
  BY <1>1, <1>4, <1>5, PlacedFree
<1>7. UNCHANGED <<program, next, dropped, table, running>>
  BY DEF Evaluate
<1>8. TableKept(p) /\ NextKept
  BY <1>7, KeptSame, NextSame
<1> QED
  BY <1>1, <1>4, <1>5, <1>6, <1>7, <1>8 DEF StepSound

\* The first search: the entry is waited for, or the next one is looked at.
LEMMA FindSound ==
    ASSUME TableInv, NEW p \in Procs, Find(p)
    PROVE  /\ StepSound(p) /\ at'[p].pc \in {"find", "await"} /\ at'[p].done = at[p].done
<1> USE Zenon
<1>1. /\ TableTyped /\ ClaimedBelow /\ Owned /\ next \in Nat /\ dropped \in Nat
      /\ at[p].site \in Sites /\ at[p].pc = "find"
      /\ UNCHANGED <<program, next, dropped, table, running>>
  BY StepFacts, PlaceFields, ZenonT(60) DEF Find, TableParts, PlaceTyped
<1>2. TableKept(p) /\ NextKept
  BY <1>1, KeptSame, NextSame
<1>3. at[p].i \in Index
  <2>1. at[p].i < at[p].count /\ at[p].i \in 0 .. program.capacity /\ at[p].count \in 0 .. program.capacity
        /\ program.capacity \in Nat
    BY <1>1, PlaceFields, ProgramFacts DEF Find, PlaceTyped, ProgramSound
  <2> QED
    BY <2>1, SMT DEF Index
<1>4. CASE table[at[p].i].state # "unused" /\ table[at[p].i].id = at[p].site.id
  <2>1. Move(p, "await")
    BY <1>4 DEF Find
  <2>2. "await" \in Pcs
    BY ZenonT(60) DEF Pcs
  <2>3. /\ at' \in [Procs -> Place] /\ OthersStay(p) /\ at'[p].pc = "await"
        /\ at'[p].i = at[p].i /\ at'[p].site = at[p].site /\ at'[p].done = at[p].done
    BY <1>1, <2>1, <2>2, MoveEffect DEF SameWork, Moves
  <2>4. \A q \in Procs : at[q].pc = "mark" => at[q].mine # at[p].i
    BY <1>1, <1>4 DEF Owned, OwnedBy
  <2>5. at[p].i < next
    BY <1>1, <1>3, <1>4 DEF ClaimedBelow
  <2>6. OwnedBy(p)' /\ UsedBy(p)' /\ AheadOf(p)' /\ ~Owns(p)'
    BY <2>3, ZenonT(60) DEF OwnedBy, UsedBy, AheadOf, Owns, Uses
  <2>7. AwaitedBy(p)'
    BY <1>1, <1>4, <2>3 DEF AwaitedBy
  <2>8. Placed(p)
    BY <1>1, <1>3, <2>3, <2>4, <2>5, <2>6, <2>7, ZenonT(60) DEF Placed
  <2> QED
    BY <1>1, <1>2, <2>3, <2>8 DEF StepSound
<1>5. CASE ~(table[at[p].i].state # "unused" /\ table[at[p].i].id = at[p].site.id)
  <2>1. at' = [at EXCEPT ![p].i = @ + 1] /\ at[p].i < at[p].count
    BY <1>5 DEF Find
  <2>2. /\ at' \in [Procs -> Place] /\ OthersStay(p) /\ at'[p].pc = "find"
        /\ at'[p].site = at[p].site /\ at'[p].done = at[p].done
    BY <1>1, <2>1, AdvanceEffect DEF Becomes
  <2>3. Placed(p)
    BY <1>1, <2>2, PlacedFree
  <2> QED
    BY <1>1, <1>2, <2>2, <2>3 DEF StepSound
<1> QED
  BY <1>4, <1>5

\* One entry is rewritten, and its count and latch stay.
LEMMA Rewritten ==
    ASSUME TableTyped, NEW e \in Index, NEW x, table' = [table EXCEPT ![e] = x],
           Fired(x) => Fired(table[e]) /\ x.id = table[e].id
    PROVE  NoneFires /\ (x.count = table[e].count => SameCounts)
<1>1. table \in [Index -> Entry]
  BY Zenon DEF TableTyped
<1>2. table'[e] = x /\ \A f \in Index : f # e => table'[f] = table[f]
  BY <1>1
<1> QED
  BY <1>2, Zenon DEF NoneFires, SameCounts

\* Nothing is rewritten.
LEMMA NotRewritten ==
    ASSUME UNCHANGED table
    PROVE  NoneFires /\ SameCounts
BY Zenon DEF NoneFires, SameCounts

\* claim returned an entry: the site's own, or another site's, marked as
\* conflicting and left.
LEMMA ClaimsSound ==
    ASSUME TableInv, NEW p \in Procs, at[p].pc \in {"await", "awaitWinner"},
           table[at[p].i].state = "ready", Claims(p, at[p].i),
           UNCHANGED <<program, next, dropped, running>>
    PROVE  ClaimsWell(p)
<1> USE ZenonT(60) DEF ClaimsWell
<1> DEFINE e == at[p].i
<1>1. /\ TableTyped /\ AwaitedBy(p) /\ next \in Nat /\ dropped \in Nat
      /\ at[p].site \in Sites /\ at[p].pc # "idle" /\ NextKept
  BY StepFacts, PlaceFields, NextSame, ZenonT(60) DEF TableParts, PlaceTyped
<1>2. e \in Index /\ table[e].id = at[p].site.id
  BY StepFacts, ZenonT(60) DEF AwaitedBy, Awaits, ClaimedBelow, TableParts
<1>3. CASE table[e].kind = at[p].site.kind
  <2>1. Takes(p, "record", e) /\ UNCHANGED <<table, owed>>
    BY <1>3 DEF Claims, Takes
  <2>2. "record" \in Pcs
    BY ZenonT(60) DEF Pcs
  <2> HIDE DEF e
  <2>3. /\ at' \in [Procs -> Place] /\ OthersStay(p) /\ at'[p].pc = "record" /\ at'[p].mine = e
        /\ at'[p].site = at[p].site /\ at'[p].done = at[p].done
    BY <1>1, <1>2, <2>1, <2>2, TakeEffect DEF Becomes
  <2>4. UsedBy(p)'
    BY <1>2, <1>3, <2>1, <2>3, ZenonT(60) DEF UsedBy, e
  <2>5. Placed(p)
    BY <1>1, <2>3, <2>4, PlacedUser
  <2>6. TableKept(p) /\ NoneFires /\ SameCounts
    BY <2>1, KeptSame, NotRewritten
  <2> QED
    BY <1>1, <2>1, <2>3, <2>5, <2>6 DEF StepSound
<1>4. CASE table[e].kind # at[p].site.kind
  <2> DEFINE x == [table[e] EXCEPT !.conflicted = TRUE]
  <2>1. table' = [table EXCEPT ![e] = x] /\ owed' = owed - 1 /\ Finish(p)
    BY <1>4, ZenonT(60) DEF Claims
  <2>2. table[e] \in Entry
    BY <1>1, <1>2 DEF TableTyped
  <2>3. /\ x \in Entry /\ x.state = table[e].state /\ x.id = table[e].id /\ x.kind = table[e].kind
        /\ x.count = table[e].count /\ x.discovered = table[e].discovered /\ x.best = table[e].best
    BY <2>2 DEF Entry
  <2> HIDE DEF x, e
  <2>4. /\ at' \in [Procs -> Place] /\ OthersStay(p) /\ at'[p].pc = "idle"
        /\ at'[p].done = at[p].done + 1
    BY <1>1, <2>1, FinishEffect DEF Finishes
  <2>5. Placed(p)
    BY <2>4, PlacedFree
  <2>6. TableKept(p)
    BY <1>2, <2>1, <2>3, KeptTouch DEF e
  <2>7. NoneFires /\ SameCounts
    <3>1. Fired(x) => Fired(table[e]) /\ x.id = table[e].id
      BY <2>3 DEF Fired
    <3> QED
      BY <1>1, <1>2, <2>1, <2>3, <3>1, Rewritten
  <2> QED
    BY <1>1, <2>1, <2>4, <2>5, <2>6, <2>7 DEF StepSound
<1> QED
  BY <1>3, <1>4

\* Claim::Busy: the wait ended without an entry.
LEMMA GivesUpSound ==
    ASSUME TableInv, NEW p \in Procs, GivesUp(p), UNCHANGED <<program, next, running>>
    PROVE  GivesUpWell(p)
<1> USE ZenonT(60) DEF GivesUpWell
<1>1. TableTyped /\ next \in Nat /\ dropped \in Nat /\ NextKept
  BY StepFacts, NextSame DEF TableParts
<1>2. dropped' = dropped + 1 /\ Finish(p) /\ UNCHANGED <<table, owed>>
  BY DEF GivesUp
<1>3. dropped' \in Nat
  BY <1>1, <1>2, SMT
<1>4. /\ at' \in [Procs -> Place] /\ OthersStay(p) /\ at'[p].pc = "idle"
      /\ at'[p].done = at[p].done + 1
  BY <1>1, <1>2, FinishEffect DEF Finishes
<1>5. Placed(p)
  BY <1>4, PlacedFree
<1>6. TableKept(p) /\ NoneFires /\ SameCounts
  BY <1>2, KeptSame, NotRewritten
<1> QED
  BY <1>1, <1>2, <1>3, <1>4, <1>5, <1>6 DEF StepSound

\* await_published from the first search.
LEMMA AwaitSound ==
    ASSUME TableInv, NEW p \in Procs, Await(p)
    PROVE  AwaitsWell(p)
<1> USE ZenonT(60) DEF AwaitsWell
<1>1. /\ TableTyped /\ next \in Nat /\ dropped \in Nat /\ at[p].pc = "await" /\ NextKept
      /\ at[p].site \in Sites /\ UNCHANGED <<program, next, running>>
  BY StepFacts, PlaceFields, NextSame, ZenonT(60) DEF Await, TableParts, PlaceTyped
<1>2. CASE table[at[p].i].state = "ready" /\ Claims(p, at[p].i) /\ UNCHANGED dropped
  <2>1. /\ StepSound(p) /\ NoneFires /\ SameCounts
        /\ \/ at'[p].pc = "record" /\ at'[p].done = at[p].done /\ owed' = owed
           \/ at'[p].pc = "idle" /\ at'[p].done = at[p].done + 1 /\ owed' = owed - 1
    BY <1>1, <1>2, ClaimsSound, ZenonT(60) DEF ClaimsWell
  <2> QED
    BY <1>2, <2>1, ZenonT(60)
<1>3. CASE /\ table[at[p].i].state = "unused"
           /\ at' = [at EXCEPT ![p].pc = "find", ![p].i = 0, ![p].count = Claimed]
           /\ UNCHANGED <<dropped, table, owed>>
  <2>1. Claimed \in 0 .. program.capacity /\ "find" \in Pcs
    BY <1>1, ClaimedRange, ZenonT(60) DEF Pcs
  <2>2. /\ at' \in [Procs -> Place] /\ OthersStay(p) /\ at'[p].pc = "find"
        /\ at'[p].site = at[p].site /\ at'[p].done = at[p].done
    <3>1. Searches(p, "find", Claimed)
      BY <1>3 DEF Searches
    <3> QED
      BY <1>1, <2>1, <3>1, SearchEffect DEF Becomes
  <2>3. Placed(p)
    BY <1>1, <2>2, PlacedFree
  <2>4. TableKept(p) /\ NoneFires /\ SameCounts
    BY <1>3, KeptSame, NotRewritten
  <2>5. StepSound(p)
    BY <1>1, <1>3, <2>2, <2>3, <2>4 DEF StepSound
  <2> QED
    BY <1>3, <2>2, <2>4, <2>5
<1>4. CASE table[at[p].i].state = "initializing" /\ GivesUp(p)
  BY <1>1, <1>4, GivesUpSound DEF GivesUpWell
<1> QED
  BY <1>2, <1>3, <1>4 DEF Await

\* The winner of two claims is published, or the loser gives up.
LEMMA AwaitWinnerSound ==
    ASSUME TableInv, NEW p \in Procs, AwaitWinner(p)
    PROVE  AwaitsWinnerWell(p)
<1> USE DEF AwaitsWinnerWell
<1>1. at[p].pc = "awaitWinner" /\ UNCHANGED <<program, next, running>>
  BY Zenon DEF AwaitWinner
<1>2. CASE table[at[p].i].state = "ready" /\ Claims(p, at[p].i) /\ UNCHANGED dropped
  <2>1. /\ StepSound(p) /\ NoneFires /\ SameCounts
        /\ \/ at'[p].pc = "record" /\ at'[p].done = at[p].done /\ owed' = owed
           \/ at'[p].pc = "idle" /\ at'[p].done = at[p].done + 1 /\ owed' = owed - 1
    BY <1>1, <1>2, ClaimsSound DEF ClaimsWell
  <2> QED
    BY <1>2, <2>1, ZenonT(60)
<1>3. CASE GivesUp(p)
  BY <1>1, <1>3, GivesUpSound, Zenon DEF GivesUpWell
<1> QED
  BY <1>2, <1>3, Zenon DEF AwaitWinner

\* Who found the table full is one of finitely many.
LEMMA OverdrawnFacts ==
    ASSUME TableInv
    PROVE  OverdrawnCounted
<1> USE Zenon DEF OverdrawnCounted
<1>1. IsFiniteSet(Procs) /\ Overdrawn \in SUBSET Procs
  BY ExplorerAssumption DEF Overdrawn
<1>2. IsFiniteSet(Overdrawn)
  BY <1>1, FS_Subset
<1>3. Cardinality(Overdrawn) \in Nat /\ (Cardinality(Overdrawn) = 0 <=> Overdrawn = {})
  BY <1>2, FS_CardinalityType, FS_EmptySet
<1>4. Overdrawn # {} => next >= program.capacity + Cardinality(Overdrawn)
  BY DEF TableInv, NextSound
<1> QED
  BY <1>2, <1>3, <1>4, NotZero

\* The fetch_add of claim: an entry of one's own, or a full table.
LEMMA TakeIndexSound ==
    ASSUME TableInv, NEW p \in Procs, TakeIndex(p)
    PROVE  TakesIndexWell(p)
<1> USE ZenonT(60) DEF TakesIndexWell
<1>1. /\ TableTyped /\ ClaimedBelow /\ next \in Nat /\ dropped \in Nat
      /\ at[p].site \in Sites /\ at[p].pc = "find" /\ next' = next + 1
      /\ UNCHANGED <<program, dropped, table, running>>
  BY StepFacts, PlaceFields, ZenonT(60) DEF TakeIndex, TableParts, PlaceTyped
<1>2. program.capacity \in Nat /\ next' \in Nat /\ next < next'
  BY <1>1, ProgramFacts, SMT DEF ProgramSound
<1>3. TableKept(p)
  BY <1>1, KeptSame
<1>4. NextKept
  <2>1. \A e \in Index : e \in Nat
    BY <1>1, IndexNat
  <2> QED
    BY <1>1, <2>1, Below DEF NextKept
<1>5. CASE next >= program.capacity
  <2>1. Move(p, "full")
    BY <1>5 DEF TakeIndex
  <2>2. "full" \in Pcs
    BY ZenonT(60) DEF Pcs
  <2>3. /\ at' \in [Procs -> Place] /\ OthersStay(p) /\ at'[p].pc = "full"
        /\ at'[p].site = at[p].site /\ at'[p].done = at[p].done
    BY <1>1, <2>1, <2>2, MoveEffect DEF SameWork, Moves
  <2>4. Placed(p)
    BY <1>1, <2>3, PlacedFree
  <2>5. StepSound(p)
    BY <1>1, <1>2, <1>3, <1>4, <2>3, <2>4 DEF StepSound
  <2> QED
    BY <1>1, <1>5, <2>3, <2>5
<1>6. CASE ~(next >= program.capacity)
  <2>1. next \in Index /\ next < program.capacity
    BY <1>1, <1>2, <1>6, FromZero DEF Index
  <2>2. Takes(p, "mark", next) /\ "mark" \in Pcs
    BY <1>6, ZenonT(60) DEF TakeIndex, Takes, Pcs
  <2>3. /\ at' \in [Procs -> Place] /\ OthersStay(p) /\ at'[p].pc = "mark"
        /\ at'[p].mine = next /\ at'[p].site = at[p].site /\ at'[p].done = at[p].done
    BY <1>1, <2>1, <2>2, TakeEffect DEF Becomes
  <2>4. \A q \in Procs : (Owns(q) => at[q].mine # next) /\ (Awaits(q) => next # at[q].i)
    BY <1>1, SMT DEF ClaimedBelow
  <2>5. table[next].state = "unused"
    BY <1>1, <2>1, Ordered, ZenonT(60) DEF ClaimedBelow
  <2>6. OwnedBy(p)' /\ UsedBy(p)' /\ AwaitedBy(p)' /\ AheadOf(p)' /\ ~Awaits(p)'
    BY <1>1, <2>3, <2>5, ZenonT(60) DEF OwnedBy, UsedBy, AwaitedBy, AheadOf, Uses, Awaits, Owns
  <2>7. Placed(p)
    BY <1>1, <1>2, <2>3, <2>4, <2>6 DEF Placed
  <2>8. StepSound(p)
    BY <1>1, <1>2, <1>3, <1>4, <2>3, <2>7 DEF StepSound
  <2> QED
    BY <1>1, <2>1, <2>3, <2>8
<1> QED
  BY <1>5, <1>6

\* Claim::Full: the fetch_add is taken back, and the evaluation counted as dropped.
LEMMA FullSound ==
    ASSUME TableInv, NEW p \in Procs, Full(p)
    PROVE  TakesBackWell(p)
<1> USE ZenonT(60) DEF TakesBackWell
<1>1. /\ TableTyped /\ next \in Nat /\ dropped \in Nat /\ at[p].pc = "full" /\ Finish(p)
      /\ next' = next - 1 /\ dropped' = dropped + 1 /\ UNCHANGED <<program, table, running>>
  BY StepFacts DEF Full, TableParts
<1>2. program.capacity \in Nat /\ p \in Overdrawn
  BY <1>1, ProgramFacts DEF Overdrawn, ProgramSound
<1>3. Overdrawn # {}
  BY <1>2
<1>4. Cardinality(Overdrawn) \in Nat /\ Cardinality(Overdrawn) >= 1
      /\ next >= program.capacity + Cardinality(Overdrawn)
  BY <1>3, OverdrawnFacts DEF OverdrawnCounted
<1>5. next' \in Nat /\ dropped' \in Nat /\ next' >= program.capacity
  BY <1>1, <1>2, <1>4, SMTT(60)
<1>6. NextKept
  BY <1>2, <1>5, SMT DEF NextKept, Index
<1>7. /\ at' \in [Procs -> Place] /\ OthersStay(p) /\ at'[p].pc = "idle"
      /\ at'[p].done = at[p].done + 1
  BY <1>1, FinishEffect DEF Finishes
<1>8. Placed(p) /\ TableKept(p)
  BY <1>1, <1>7, PlacedFree, KeptSame
<1> QED
  BY <1>1, <1>5, <1>6, <1>7, <1>8 DEF StepSound

\* The claim is marked: whether the identity was published by then is recorded.
LEMMA MarkSound ==
    ASSUME TableInv, NEW p \in Procs, Mark(p)
    PROVE  StepsTo(p, "marked")
<1> USE ZenonT(60) DEF StepsTo
<1> DEFINE e == at[p].mine
           x == [table[e] EXCEPT !.id = at[p].site.id, !.state = "initializing"]
           b == Ready(at[p].site.id) # {}
<1>1. /\ TableTyped /\ ClaimedBelow /\ Unpublished /\ Apart /\ OwnedBy(p) /\ next \in Nat
      /\ dropped \in Nat /\ at[p].site \in Sites /\ at[p].pc = "mark" /\ e \in Index
      /\ NextKept /\ UNCHANGED <<program, next, dropped, running>>
  BY StepFacts, PlaceFields, NextSame, ZenonT(60) DEF Mark, TableParts, PlaceTyped
<1>2. table[e] \in Entry /\ table[e].state = "unused" /\ table[e].count = 0 /\ at[p].site.id \in Ids
  BY <1>1, SiteFacts DEF TableTyped, OwnedBy, Unpublished
<1>3. table' = [table EXCEPT ![e] = x]
  BY <1>1 DEF Mark, TableTyped
<1>4. /\ x \in Entry /\ x.id = at[p].site.id /\ x.state = "initializing" /\ x.count = 0
  BY <1>2 DEF Entry
<1>5. Owns(p) /\ "marked" \in Pcs /\ b \in BOOLEAN
  BY <1>1, ZenonT(60) DEF Owns, Pcs
<1> HIDE DEF x
<1>6. TableKept(p)
  <2>1. x.state # "ready" => x.count = 0
    BY <1>4
  <2> QED
    BY <1>3, <1>4, <1>5, <2>1, KeptOwn
<1>7. NoneFires /\ SameCounts
  <2>1. ~Fired(x) /\ x.count = table[e].count
    BY <1>2, <1>4, ZenonT(60) DEF Fired
  <2> HIDE DEF e
  <2> QED
    BY <1>1, <1>3, <2>1, Rewritten
<1>8. Marks(p, "marked", b)
  BY DEF Mark, Marks
<1> HIDE DEF b
<1>9. /\ at' \in [Procs -> Place] /\ OthersStay(p) /\ at'[p].pc = "marked" /\ at'[p].mine = e
      /\ at'[p].known = b /\ at'[p].site = at[p].site /\ at'[p].done = at[p].done
  BY <1>1, <1>5, <1>8, MarkEffect DEF Becomes
<1>10. table'[e] = x /\ \A f \in Index : f # e => table'[f] = table[f]
  BY <1>1, <1>3, ZenonT(60) DEF TableTyped
<1>11. OwnedBy(p)' /\ UsedBy(p)' /\ AwaitedBy(p)' /\ ~Awaits(p)'
  BY <1>4, <1>9, <1>10, ZenonT(60) DEF OwnedBy, UsedBy, AwaitedBy, Owns, Uses, Awaits
<1>12. AheadOf(p)'
  <2>1. SUFFICES ASSUME b PROVE WillMeet(p)'
    BY <1>9 DEF AheadOf
  <2>2. PICK f \in Ready(at[p].site.id) : TRUE
    BY <2>1, ZenonT(60) DEF b
  <2>3. f \in Index /\ table[f].state = "ready" /\ table[f].id = at[p].site.id
    BY <2>2 DEF Ready
  <2>4. table'[f] = table[f]
    BY <1>2, <1>10, <2>3, ZenonT(60)
  <2>5. f \in Ready(at[p].site.id)'
    BY <1>1, <1>9, <2>3, <2>4 DEF Ready, Index
  <2> QED
    BY <1>9, <2>5, ZenonT(60) DEF WillMeet
<1>13. Placed(p)
  <2>1. at[p].mine < next /\ \A q \in Procs : q # p /\ Owns(q) => at[q].mine # at[p].mine
    BY <1>1, <1>5 DEF ClaimedBelow, Apart
  <2> QED
    BY <1>1, <1>9, <1>11, <1>12, <2>1, ZenonT(60) DEF Placed
<1> QED
  BY <1>1, <1>6, <1>7, <1>9, <1>13 DEF StepSound

\* The second search begins with the entries claimed by now.
LEMMA RecountSound ==
    ASSUME TableInv, NEW p \in Procs, Recount(p)
    PROVE  StepSound(p) /\ at'[p].pc = "check" /\ at'[p].done = at[p].done
<1> USE ZenonT(60)
<1>1. /\ TableTyped /\ ClaimedBelow /\ Apart /\ OwnedBy(p) /\ AheadOf(p) /\ next \in Nat
      /\ dropped \in Nat /\ at[p].site \in Sites /\ at[p].pc = "marked" /\ NextKept
      /\ UNCHANGED <<program, next, dropped, table, running>>
  BY StepFacts, PlaceFields, NextSame, ZenonT(60) DEF Recount, TableParts, PlaceTyped
<1>2. Searches(p, "check", Claimed) /\ "check" \in Pcs /\ Claimed \in 0 .. program.capacity
  BY <1>1, ClaimedRange, ZenonT(60) DEF Recount, Searches, Pcs
<1>3. /\ at' \in [Procs -> Place] /\ OthersStay(p) /\ at'[p].pc = "check" /\ at'[p].mine = at[p].mine
      /\ at'[p].i = 0 /\ at'[p].count = Claimed
      /\ at'[p].known = at[p].known /\ at'[p].site = at[p].site /\ at'[p].done = at[p].done
  BY <1>1, <1>2, SearchEffect DEF Becomes
<1>4. OwnedBy(p)' /\ UsedBy(p)' /\ AwaitedBy(p)' /\ ~Awaits(p)'
  BY <1>1, <1>3, ZenonT(60) DEF OwnedBy, UsedBy, AwaitedBy, Owns, Uses, Awaits
<1>5. AheadOf(p)'
  <2>1. SUFFICES ASSUME at[p].known PROVE WillMeet(p)'
    BY <1>3 DEF AheadOf
  <2>2. PICK f \in Ready(at[p].site.id) : TRUE
    BY <1>1, <2>1, ZenonT(60) DEF AheadOf, WillMeet
  <2>3. f \in Index /\ table[f].state = "ready" /\ table[f].id = at[p].site.id
    BY <2>2 DEF Ready
  <2>4. f < Claimed
    BY <1>1, <2>3, ClaimedRange, ZenonT(60) DEF ClaimedBelow
  <2>5. f \in Ready(at[p].site.id)'
    BY <1>1, <1>3, <2>3 DEF Ready, Index
  <2>6. 0 <= f
    BY <1>1, <2>3, IndexNat
  <2> QED
    BY <1>3, <2>4, <2>5, <2>6 DEF WillMeet
<1>6. Placed(p)
  <2>1. Owns(p)
    BY <1>1, ZenonT(60) DEF Owns
  <2>2. at[p].mine < next /\ \A q \in Procs : q # p /\ Owns(q) => at[q].mine # at[p].mine
    BY <1>1, <2>1 DEF ClaimedBelow, Apart
  <2> QED
    BY <1>1, <1>3, <1>4, <1>5, <2>2, ZenonT(60) DEF Placed
<1>7. TableKept(p)
  BY <1>1, KeptSame
<1> QED
  BY <1>1, <1>3, <1>6, <1>7 DEF StepSound

\* The second search: it goes on, or it met a claim that wins.
LEMMA CheckSound ==
    ASSUME TableInv, NEW p \in Procs, Check(p)
    PROVE  StepSound(p) /\ at'[p].pc \in {"check", "release"} /\ at'[p].done = at[p].done
<1> USE ZenonT(60)
<1> DEFINE passes == \/ at[p].i = at[p].mine
                     \/ table[at[p].i].state = "unused"
                     \/ table[at[p].i].id # at[p].site.id
                     \/ table[at[p].i].state = "initializing" /\ at[p].i > at[p].mine
<1>1. /\ TableTyped /\ ClaimedBelow /\ Apart /\ Owned /\ OwnedBy(p) /\ AheadOf(p) /\ next \in Nat
      /\ dropped \in Nat /\ at[p].site \in Sites /\ at[p].pc = "check" /\ NextKept
      /\ at[p].i < at[p].count /\ UNCHANGED <<program, next, dropped, table, running>>
  BY StepFacts, PlaceFields, NextSame, ZenonT(60) DEF Check, TableParts, PlaceTyped
<1>2. /\ TableKept(p) /\ Owns(p)
      /\ table[at[p].mine].state = "initializing" /\ table[at[p].mine].id = at[p].site.id
  <2>1. TableKept(p)
    BY <1>1, KeptSame
  <2>2. Owns(p)
    BY <1>1, ZenonT(60) DEF Owns
  <2> QED
    BY <1>1, <2>1, <2>2, ZenonT(60) DEF OwnedBy
<1>3. at[p].mine < next /\ \A q \in Procs : q # p /\ Owns(q) => at[q].mine # at[p].mine
  BY <1>1, <1>2 DEF ClaimedBelow, Apart
<1>4. at[p].i \in Index /\ at[p].i \in Int
  <2>1. at[p].i \in 0 .. program.capacity /\ at[p].count \in 0 .. program.capacity /\ program.capacity \in Nat
    BY <1>1, PlaceFields, ProgramFacts DEF PlaceTyped, ProgramSound
  <2> QED
    BY <1>1, <2>1, SMTT(60) DEF Index
<1>5. CASE passes
  <2>1. at' = [at EXCEPT ![p].i = @ + 1]
    BY <1>5, ZenonT(60) DEF Check
  <2>2. /\ at' \in [Procs -> Place] /\ OthersStay(p) /\ at'[p].pc = "check" /\ at'[p].mine = at[p].mine
        /\ at'[p].i = at[p].i + 1 /\ at'[p].count = at[p].count
        /\ at'[p].known = at[p].known /\ at'[p].site = at[p].site /\ at'[p].done = at[p].done
    BY <1>1, <2>1, AdvanceEffect DEF Becomes
  <2>3. OwnedBy(p)' /\ UsedBy(p)' /\ AwaitedBy(p)' /\ ~Awaits(p)'
    BY <1>1, <1>2, <2>2, ZenonT(60) DEF OwnedBy, UsedBy, AwaitedBy, Owns, Uses, Awaits
  <2>4. AheadOf(p)'
    <3>1. SUFFICES ASSUME at[p].known PROVE WillMeet(p)'
      BY <2>2 DEF AheadOf
    <3>2. PICK f \in Ready(at[p].site.id) : at[p].i <= f /\ f < at[p].count
      BY <1>1, <3>1, ZenonT(60) DEF AheadOf, WillMeet
    <3>3. f \in Index /\ table[f].state = "ready" /\ table[f].id = at[p].site.id
      BY <3>2 DEF Ready
    <3>4. f # at[p].i
      <4>1. table[f].state # "unused" /\ table[f].state # "initializing" /\ f # at[p].mine
        BY <1>2, <3>3, ZenonT(60)
      <4> QED
        BY <4>1, <1>5, <3>3
    <3>5. at[p].i + 1 <= f
      <4>1. at[p].i \in Nat /\ f \in Nat
        BY <1>1, <1>4, <3>3, IndexNat
      <4> QED
        BY <3>2, <3>4, <4>1, NotAbove
    <3>6. f \in Ready(at[p].site.id)'
      BY <1>1, <2>2, <3>3 DEF Ready, Index
    <3> QED
      BY <2>2, <3>2, <3>5, <3>6 DEF WillMeet
  <2>5. Placed(p)
    BY <1>1, <1>3, <2>2, <2>3, <2>4, ZenonT(20) DEF Placed
  <2> QED
    BY <1>1, <1>2, <2>2, <2>5 DEF StepSound
<1>6. CASE ~passes
  <2>1. Move(p, "release") /\ "release" \in Pcs
    BY <1>6, ZenonT(60) DEF Check, Pcs
  <2>2. /\ at' \in [Procs -> Place] /\ OthersStay(p) /\ at'[p].pc = "release"
        /\ at'[p].mine = at[p].mine /\ at'[p].i = at[p].i
        /\ at'[p].site = at[p].site /\ at'[p].done = at[p].done
    BY <1>1, <2>1, MoveEffect DEF SameWork, Moves
  <2>3. table[at[p].i].state # "unused" /\ table[at[p].i].id = at[p].site.id
    BY <1>6
  <2>4. at[p].i < next /\ \A q \in Procs : at[q].pc = "mark" => at[q].mine # at[p].i
    BY <1>1, <1>4, <2>3 DEF ClaimedBelow, Owned, OwnedBy
  <2>5. OwnedBy(p)' /\ UsedBy(p)' /\ AwaitedBy(p)' /\ AheadOf(p)'
    BY <1>1, <1>2, <2>2, <2>3, ZenonT(20) DEF OwnedBy, UsedBy, AwaitedBy, AheadOf, Owns, Uses
  <2>6. Placed(p)
    BY <1>1, <1>3, <1>4, <2>2, <2>4, <2>5, ZenonT(20) DEF Placed
  <2> QED
    BY <1>1, <1>2, <2>2, <2>6 DEF StepSound
<1> QED
  BY <1>5, <1>6

\* The loser gives its entry back.
LEMMA ReleaseSound ==
    ASSUME TableInv, NEW p \in Procs, Release(p)
    PROVE  StepsTo(p, "awaitWinner")
<1> USE ZenonT(60) DEF StepsTo
<1> DEFINE e == at[p].mine
           x == [table[e] EXCEPT !.id = NoId, !.state = "unused"]
<1>1. /\ TableTyped /\ ClaimedBelow /\ Unpublished /\ Unmarked /\ OwnedBy(p) /\ AwaitedBy(p)
      /\ next \in Nat /\ dropped \in Nat /\ at[p].site \in Sites /\ at[p].pc = "release" /\ e \in Index
      /\ NextKept /\ UNCHANGED <<program, next, dropped, running>>
  BY StepFacts, PlaceFields, NextSame, ZenonT(60) DEF Release, TableParts, PlaceTyped
<1>2. Owns(p) /\ Awaits(p) /\ "awaitWinner" \in Pcs
  BY <1>1, ZenonT(60) DEF Owns, Awaits, Pcs
<1>3. table[e] \in Entry /\ table[e].state = "initializing"
  BY <1>1, <1>2, ZenonT(60) DEF OwnedBy, TableTyped
<1>4. table[e].count = 0
  BY <1>1, <1>3, ZenonT(60) DEF Unpublished
<1>5. table' = [table EXCEPT ![e] = x]
  BY <1>1 DEF Release, TableTyped
<1>6. x \in Entry /\ x.state = "unused" /\ x.count = 0
  BY <1>3, <1>4 DEF Entry
<1> HIDE DEF x
<1>7. TableKept(p)
  <2>1. (x.state # "ready" => x.count = 0) /\ (x.state # "unused" => x.id = at[p].site.id)
    BY <1>6
  <2> QED
    BY <1>2, <1>5, <1>6, <2>1, KeptOwn
<1>8. NoneFires /\ SameCounts
  <2>1. ~Fired(x) /\ x.count = table[e].count
    BY <1>4, <1>6, ZenonT(60) DEF Fired
  <2> HIDE DEF e
  <2> QED
    BY <1>1, <1>5, <2>1, Rewritten
<1>9. /\ at' \in [Procs -> Place] /\ OthersStay(p) /\ at'[p].pc = "awaitWinner"
      /\ at'[p].i = at[p].i /\ at'[p].site = at[p].site /\ at'[p].done = at[p].done
  <2>1. Move(p, "awaitWinner")
    BY DEF Release
  <2> QED
    BY <1>1, <1>2, <2>1, MoveEffect DEF SameWork, Moves
<1>10. table'[e] = x /\ \A f \in Index : f # e => table'[f] = table[f]
  BY <1>1, <1>5, ZenonT(60) DEF TableTyped
<1>11. /\ at[p].i < next /\ at[p].i \in Index
       /\ \A q \in Procs : at[q].pc = "mark" => at[q].mine # at[p].i
  BY <1>1, <1>2 DEF ClaimedBelow, Unmarked
<1>12. AwaitedBy(p)'
  BY <1>1, <1>2, <1>6, <1>9, <1>10, <1>11 DEF AwaitedBy
<1>13. OwnedBy(p)' /\ UsedBy(p)' /\ AheadOf(p)' /\ ~Owns(p)'
  BY <1>9, ZenonT(60) DEF OwnedBy, UsedBy, AheadOf, Owns, Uses
<1>14. Placed(p)
  BY <1>1, <1>9, <1>11, <1>12, <1>13, ZenonT(60) DEF Placed
<1> QED
  BY <1>1, <1>7, <1>8, <1>9, <1>14 DEF StepSound

\* An entry filled for a site.
LEMMA InitializedFields ==
    ASSUME NEW e \in Entry, NEW site, site.kind \in Kinds
    PROVE  InitializedWell(e, site)
<1> USE DEF InitializedWell
<1> DEFINE best == IF site.kind = "numeric" THEN -1 ELSE 0
           x == [Zeroed EXCEPT !.state = e.state, !.id = e.id, !.kind = site.kind, !.best = best]
<1>1. Zeroed \in Entry /\ Zeroed.count = 0 /\ Zeroed.discovered = FALSE
  BY DEF Zeroed, Entry
<1>2. best \in Int /\ e.state \in {"unused", "initializing", "ready"} /\ e.id \in Ids \cup {NoId}
  BY DEF Entry
<1>3. Initialized(e, site) = x
  BY DEF Initialized
<1> HIDE DEF best
<1>4. /\ x \in Entry /\ x.state = e.state /\ x.id = e.id /\ x.count = 0 /\ x.kind = site.kind
      /\ x.discovered = FALSE /\ x.best = best
  BY <1>1, <1>2, Zenon DEF Entry
<1> HIDE DEF x
<1> QED
  BY <1>3, <1>4, ZenonT(60) DEF best

\* The second search met nobody: the entry is filled, and the identity was not
\* published when it was marked.
LEMMA InitializeSound ==
    ASSUME TableInv, NEW p \in Procs, Initialize(p)
    PROVE  StepsTo(p, "publish")
<1> USE ZenonT(60) DEF StepsTo
<1> DEFINE e == at[p].mine
           x == Initialized(table[e], at[p].site)
<1>1. /\ TableTyped /\ ClaimedBelow /\ Unpublished /\ Apart /\ OwnedBy(p) /\ AheadOf(p)
      /\ next \in Nat /\ dropped \in Nat /\ at[p].site \in Sites /\ at[p].pc = "check" /\ e \in Index
      /\ NextKept /\ at[p].i = at[p].count /\ UNCHANGED <<program, next, dropped, running>>
      /\ at[p].known \in BOOLEAN /\ at[p].i \in 0 .. program.capacity
  BY StepFacts, PlaceFields, NextSame, ZenonT(60) DEF Initialize, TableParts, PlaceTyped
<1>2. Owns(p) /\ "publish" \in Pcs /\ at[p].site.kind \in Kinds /\ at[p].site.id \in Ids
  BY <1>1, SiteFacts, ZenonT(60) DEF Owns, Pcs
<1>3. table[e] \in Entry /\ table[e].state = "initializing" /\ table[e].id = at[p].site.id
  BY <1>1, <1>2, ZenonT(60) DEF OwnedBy, TableTyped
<1>4. table[e].count = 0
  BY <1>1, <1>3, ZenonT(60) DEF Unpublished
<1>5. table' = [table EXCEPT ![e] = x]
  BY <1>1, ZenonT(60) DEF Initialize, TableTyped
<1>6. /\ x \in Entry /\ x.state = "initializing" /\ x.id = at[p].site.id /\ x.count = 0
      /\ x.kind = at[p].site.kind /\ x.discovered = FALSE
      /\ x.best = IF at[p].site.kind = "numeric" THEN -1 ELSE 0
  BY <1>2, <1>3, InitializedFields DEF InitializedWell
<1> HIDE DEF x
<1>7. TableKept(p)
  <2>1. (x.state # "ready" => x.count = 0) /\ (x.state # "unused" => x.id = at[p].site.id)
    BY <1>6
  <2> QED
    BY <1>2, <1>5, <1>6, <2>1, KeptOwn
<1>8. NoneFires /\ SameCounts
  <2>1. ~Fired(x) /\ x.count = table[e].count
    BY <1>4, <1>6, ZenonT(60) DEF Fired
  <2> HIDE DEF e
  <2> QED
    BY <1>1, <1>5, <2>1, Rewritten
<1>9. /\ at' \in [Procs -> Place] /\ OthersStay(p) /\ at'[p].pc = "publish" /\ at'[p].mine = e
      /\ at'[p].known = at[p].known /\ at'[p].site = at[p].site /\ at'[p].done = at[p].done
  <2>1. Move(p, "publish")
    BY DEF Initialize
  <2> QED
    BY <1>1, <1>2, <2>1, MoveEffect DEF SameWork, Moves
<1>10. table'[e] = x
  BY <1>1, <1>5, ZenonT(60) DEF TableTyped
<1>11. ~at[p].known
  <2>1. SUFFICES ASSUME at[p].known PROVE FALSE
    OBVIOUS
  <2>2. PICK f \in Ready(at[p].site.id) : at[p].i <= f /\ f < at[p].count
    BY <1>1, <2>1, ZenonT(60) DEF AheadOf, WillMeet
  <2>3. f \in Index
    BY <2>2 DEF Ready
  <2> QED
    BY <1>1, <2>2, <2>3, SMT DEF Index
<1>12. OwnedBy(p)' /\ UsedBy(p)' /\ AwaitedBy(p)' /\ AheadOf(p)' /\ ~Awaits(p)'
  BY <1>6, <1>9, <1>10, <1>11, ZenonT(60) DEF OwnedBy, UsedBy, AwaitedBy, AheadOf, Owns, Uses, Awaits
<1>13. Placed(p)
  <2>1. at[p].mine < next /\ \A q \in Procs : q # p /\ Owns(q) => at[q].mine # at[p].mine
    BY <1>1, <1>2 DEF ClaimedBelow, Apart
  <2> QED
    BY <1>1, <1>9, <1>12, <2>1, ZenonT(20) DEF Placed
<1> QED
  BY <1>1, <1>7, <1>8, <1>9, <1>13 DEF StepSound

\* The release-store that publishes the entry.
LEMMA PublishSound ==
    ASSUME TableInv, NEW p \in Procs, Publish(p)
    PROVE  StepsTo(p, "record")
<1> USE ZenonT(60) DEF StepsTo
<1> DEFINE e == at[p].mine
           x == [table[e] EXCEPT !.state = "ready"]
<1>1. /\ TableTyped /\ OwnedBy(p)
      /\ next \in Nat /\ dropped \in Nat /\ at[p].site \in Sites /\ at[p].pc = "publish" /\ e \in Index
      /\ NextKept /\ UNCHANGED <<program, next, dropped, running>>
  BY StepFacts, PlaceFields, NextSame, ZenonT(60) DEF Publish, TableParts, PlaceTyped
<1>2. Owns(p) /\ "record" \in Pcs
  BY <1>1, ZenonT(60) DEF Owns, Pcs
<1>3. /\ table[e] \in Entry /\ table[e].id = at[p].site.id /\ table[e].kind = at[p].site.kind
      /\ ~table[e].discovered /\ table[e].best = IF at[p].site.kind = "numeric" THEN -1 ELSE 0
  BY <1>1, <1>2, ZenonT(60) DEF OwnedBy, TableTyped
<1>4. table' = [table EXCEPT ![e] = x]
  BY <1>1, ZenonT(60) DEF Publish, SetState, TableTyped
<1>5. /\ x \in Entry /\ x.state = "ready" /\ x.id = table[e].id /\ x.count = table[e].count
      /\ x.kind = table[e].kind /\ x.discovered = table[e].discovered /\ x.best = table[e].best
  BY <1>3, ZenonT(60) DEF Entry
<1> HIDE DEF x
<1>6. TableKept(p)
  <2>1. (x.state # "ready" => x.count = 0) /\ (x.state # "unused" => x.id = at[p].site.id)
    BY <1>3, <1>5
  <2> QED
    BY <1>2, <1>4, <1>5, <2>1, KeptOwn
<1>7. NoneFires /\ SameCounts
  <2>1. ~Fired(x)
    BY <1>3, <1>5, SMTT(60) DEF Fired
  <2> HIDE DEF e
  <2> QED
    BY <1>1, <1>4, <1>5, <2>1, Rewritten
<1>8. /\ at' \in [Procs -> Place] /\ OthersStay(p) /\ at'[p].pc = "record" /\ at'[p].mine = e
      /\ at'[p].site = at[p].site /\ at'[p].done = at[p].done
  <2>1. Move(p, "record")
    BY DEF Publish
  <2> QED
    BY <1>1, <1>2, <2>1, MoveEffect DEF SameWork, Moves
<1>9. table'[e] = x
  BY <1>1, <1>4, ZenonT(60) DEF TableTyped
<1>10. UsedBy(p)'
  BY <1>3, <1>5, <1>8, <1>9, ZenonT(60) DEF UsedBy
<1>11. Placed(p)
  BY <1>1, <1>8, <1>10, PlacedUser
<1> QED
  BY <1>1, <1>6, <1>7, <1>8, <1>11 DEF StepSound

\* What the user of an entry works with.
LEMMA UserFacts ==
    ASSUME TableInv, NEW p \in Procs, Uses(p)
    PROVE  UserParts(p)
<1> USE Zenon DEF UserParts
<1>1. TableTyped /\ UsedBy(p) /\ next \in Nat /\ dropped \in Nat
  BY StepFacts DEF TableParts
<1>2. at[p].mine \in Index /\ at[p].value \in 0 .. 3 /\ at[p].done \in Nat
      /\ (at[p].pc # "idle" => at[p].site \in Sites)
  BY <1>1, PlaceFields DEF PlaceTyped
<1>3. at[p].pc # "idle"
  BY ZenonT(60) DEF Uses
<1>4. at[p].site.kind \in Kinds /\ at[p].site.id \in Ids
  BY <1>2, <1>3, SiteFacts
<1>5. table[at[p].mine] \in Entry
  BY <1>1, <1>2 DEF TableTyped
<1> QED
  BY <1>1, <1>2, <1>3, <1>4, <1>5 DEF UsedBy

\* An entry in use is rewritten, and stays of its site.
LEMMA UserTouch ==
    ASSUME TableInv, NEW p \in Procs, Uses(p), NEW x \in Entry,
           x.state = "ready", x.id = table[at[p].mine].id, x.kind = table[at[p].mine].kind,
           table' = [table EXCEPT ![at[p].mine] = x]
    PROVE  TableKept(p) /\ table'[at[p].mine] = x /\ \A f \in Index : f # at[p].mine => table'[f] = table[f]
<1>1. /\ TableTyped /\ at[p].mine \in Index /\ table[at[p].mine].state = "ready"
  BY UserFacts, Zenon DEF UserParts
<1>2. table'[at[p].mine] = x /\ \A f \in Index : f # at[p].mine => table'[f] = table[f]
  BY <1>1 DEF TableTyped
<1>3. TableKept(p)
  BY <1>1, KeptTouch, Zenon
<1> QED
  BY <1>2, <1>3, Zenon

\* A user that goes on with its entry.
LEMMA UserStays ==
    ASSUME TableInv, NEW p \in Procs, Uses(p), TableKept(p),
           at'[p].pc \in {"record", "measure", "latch"},
           at'[p].mine = at[p].mine, at'[p].site = at[p].site,
           at'[p].pc = "measure" => at[p].site.kind \in {"all", "each"},
           at'[p].pc = "latch" => at[p].site.kind # "always"
    PROVE  Placed(p)
<1>1. /\ at[p].mine \in Index /\ table[at[p].mine].state = "ready"
      /\ table[at[p].mine].id = at[p].site.id /\ table[at[p].mine].kind = at[p].site.kind
      /\ at[p].site \in Sites
  BY UserFacts, Zenon DEF UserParts
<1>2. /\ table'[at[p].mine].state = "ready" /\ table'[at[p].mine].id = at[p].site.id
      /\ table'[at[p].mine].kind = at[p].site.kind
  BY <1>1, ZenonT(60) DEF TableKept, ReadyStays
<1>3. UsedBy(p)'
  BY <1>2 DEF UsedBy
<1> QED
  BY <1>1, <1>3, PlacedUser, Zenon

\* The evaluation is counted in its entry.
LEMMA RecordPassSound ==
    ASSUME TableInv, NEW p \in Procs, RecordPass(p)
    PROVE  RecordsWell(p)
<1> USE ZenonT(60) DEF RecordsWell
<1> DEFINE e == at[p].mine
           x == [table[e] EXCEPT !.count = @ + 1]
<1>1. at[p].pc = "record" /\ UNCHANGED <<program, next, dropped, running>>
  BY DEF RecordPass
<1>2. Uses(p)
  BY <1>1, ZenonT(60) DEF Uses
<1>3. /\ TableTyped /\ next \in Nat /\ dropped \in Nat /\ e \in Index /\ table[e] \in Entry
      /\ table[e].state = "ready" /\ at[p].site \in Sites /\ at[p].site.kind \in Kinds /\ NextKept
  BY <1>1, <1>2, UserFacts, NextSame DEF UserParts
<1>4. table' = [table EXCEPT ![e] = x]
  BY <1>3, ZenonT(60) DEF RecordPass, TableTyped
<1>5. /\ x \in Entry /\ x.state = table[e].state /\ x.id = table[e].id /\ x.kind = table[e].kind
      /\ x.best = table[e].best /\ x.discovered = table[e].discovered /\ x.count = table[e].count + 1
  BY <1>3, SMT DEF Entry
<1> HIDE DEF x
<1>6. TableKept(p) /\ table'[e] = x /\ \A f \in Index : f # e => table'[f] = table[f]
  BY <1>2, <1>3, <1>4, <1>5, UserTouch
<1>7. OneMore(p)
  BY <1>5, <1>6 DEF OneMore
<1>8. NoneFires
  <2>1. Fired(x) => Fired(table[e]) /\ x.id = table[e].id
    BY <1>5 DEF Fired
  <2> HIDE DEF e
  <2> QED
    BY <1>3, <1>4, <2>1, Rewritten
<1>9. \/ Move(p, "measure") /\ at[p].site.kind \in {"all", "each"}
      \/ Move(p, "latch") /\ at[p].site.kind # "always"
      \/ Finish(p)
  <2>1. CASE at[p].site.kind \in {"all", "each"}
    BY <2>1 DEF RecordPass
  <2>2. CASE at[p].site.kind = "numeric"
    BY <2>2, ZenonT(60) DEF RecordPass
  <2>3. CASE at[p].site.kind = "sometimes"
    BY <2>3, ZenonT(60) DEF RecordPass
  <2>4. CASE at[p].site.kind = "always"
    BY <2>4, ZenonT(60) DEF RecordPass
  <2> QED
    BY <1>3, <2>1, <2>2, <2>3, <2>4, ZenonT(20) DEF Kinds
<1>10. CASE Finish(p)
  <2>1. /\ at' \in [Procs -> Place] /\ OthersStay(p) /\ at'[p].pc = "idle"
        /\ at'[p].done = at[p].done + 1
    BY <1>3, <1>10, FinishEffect DEF Finishes
  <2>2. Placed(p)
    BY <2>1, PlacedFree
  <2> QED
    BY <1>1, <1>3, <1>6, <1>7, <1>8, <2>1, <2>2 DEF StepSound
<1>11. CASE \/ Move(p, "measure") /\ at[p].site.kind \in {"all", "each"}
            \/ Move(p, "latch") /\ at[p].site.kind # "always"
  <2>1. "measure" \in Pcs /\ "latch" \in Pcs
    BY ZenonT(60) DEF Pcs
  <2>2. /\ at' \in [Procs -> Place] /\ OthersStay(p) /\ at'[p].mine = e
        /\ at'[p].site = at[p].site /\ at'[p].done = at[p].done
        /\ \/ at'[p].pc = "measure" /\ at[p].site.kind \in {"all", "each"}
           \/ at'[p].pc = "latch" /\ at[p].site.kind # "always"
    BY <1>3, <1>11, <2>1, MoveEffect DEF SameWork, Moves
  <2>3. Placed(p)
    BY <1>2, <1>6, <2>2, UserStays, ZenonT(60)
  <2> QED
    BY <1>1, <1>3, <1>6, <1>7, <1>8, <2>2, <2>3, ZenonT(20) DEF StepSound
<1> QED
  BY <1>9, <1>10, <1>11

\* The combination is added to the mask, or the score to the best one.
LEMMA MeasureSound ==
    ASSUME TableInv, NEW p \in Procs, Measure(p)
    PROVE  StepsTo(p, "latch")
<1> USE ZenonT(60) DEF StepsTo
<1> DEFINE e == at[p].mine
           v == at[p].value
<1>1. at[p].pc = "measure" /\ UNCHANGED <<program, next, dropped, running>>
  BY DEF Measure
<1>2. Uses(p) /\ "latch" \in Pcs
  BY <1>1, ZenonT(60) DEF Uses, Pcs
<1>3. /\ TableTyped /\ next \in Nat /\ dropped \in Nat /\ e \in Index /\ table[e] \in Entry
      /\ table[e].state = "ready" /\ table[e].kind = at[p].site.kind
      /\ at[p].site.kind \in {"all", "each"} /\ v \in 0 .. 3 /\ NextKept
  BY <1>1, <1>2, UserFacts, NextSame DEF UserParts
<1>4. \E x \in Entry, b \in BOOLEAN :
        /\ table' = [table EXCEPT ![e] = x] /\ Measures(p, "latch", b)
        /\ x.state = table[e].state /\ x.id = table[e].id /\ x.kind = table[e].kind
        /\ x.discovered = table[e].discovered /\ x.count = table[e].count
        /\ x.kind = "all" => x.best = table[e].best
  <2>1. CASE table[e].kind = "all"
    <3> DEFINE x == [table[e] EXCEPT !.seen = @ \cup {v}]
               b == v \notin table[e].seen
    <3>1. table' = [table EXCEPT ![e] = x] /\ Measures(p, "latch", b)
      BY <2>1, <1>3, ZenonT(60) DEF Measure, Measures, TableTyped
    <3>2. /\ x \in Entry /\ x.state = table[e].state /\ x.id = table[e].id
          /\ x.kind = table[e].kind /\ x.discovered = table[e].discovered
          /\ x.count = table[e].count /\ x.best = table[e].best
      BY <1>3, ZenonT(60) DEF Entry
    <3>3. b \in BOOLEAN
      OBVIOUS
    <3> HIDE DEF x, b
    <3> QED
      BY <3>1, <3>2, <3>3
  <2>2. CASE table[e].kind # "all"
    <3> DEFINE m == Max({table[e].best, v})
               x == [table[e] EXCEPT !.best = m]
               b == v > table[e].best
    <3>1. table' = [table EXCEPT ![e] = x] /\ Measures(p, "latch", b)
      BY <2>2, <1>3, ZenonT(60) DEF Measure, Measures, TableTyped
    <3>2. m \in Int
      <4>1. table[e].best \in Int /\ v \in Int
        BY <1>3, SMT DEF Entry
      <4>2. m \in {table[e].best, v}
        BY <4>1, MaxOfTwo
      <4> QED
        BY <4>1, <4>2
    <3> HIDE DEF m
    <3>3. /\ x \in Entry /\ x.state = table[e].state /\ x.id = table[e].id
          /\ x.kind = table[e].kind /\ x.discovered = table[e].discovered
          /\ x.count = table[e].count
      BY <1>3, <3>2, ZenonT(60) DEF Entry
    <3>4. b \in BOOLEAN /\ x.kind # "all"
      BY <2>2, <3>3, SMTT(60)
    <3> HIDE DEF x, b
    <3> QED
      BY <3>1, <3>3, <3>4
  <2> QED
    BY <2>1, <2>2
<1>5. PICK x \in Entry, b \in BOOLEAN :
        /\ table' = [table EXCEPT ![e] = x] /\ Measures(p, "latch", b)
        /\ x.state = table[e].state /\ x.id = table[e].id /\ x.kind = table[e].kind
        /\ x.discovered = table[e].discovered /\ x.count = table[e].count
        /\ x.kind = "all" => x.best = table[e].best
  BY <1>4
<1>6. TableKept(p)
  <2>1. /\ x.state = "ready" /\ x.id = table[at[p].mine].id /\ x.kind = table[at[p].mine].kind
        /\ table' = [table EXCEPT ![at[p].mine] = x]
    BY <1>3, <1>5
  <2> QED
    BY <1>2, <2>1, UserTouch
<1>7. NoneFires /\ SameCounts
  <2>1. Fired(x) => Fired(table[e]) /\ x.id = table[e].id
    BY <1>3, <1>5, ZenonT(60) DEF Fired
  <2> HIDE DEF e
  <2> QED
    BY <1>3, <1>5, <2>1, Rewritten
<1>8. /\ at' \in [Procs -> Place] /\ OthersStay(p) /\ at'[p].pc = "latch" /\ at'[p].mine = e
      /\ at'[p].site = at[p].site /\ at'[p].done = at[p].done
  BY <1>2, <1>3, <1>5, NewsEffect DEF Becomes
<1>9. Placed(p)
  BY <1>2, <1>3, <1>6, <1>8, UserStays, ZenonT(20)
<1> QED
  BY <1>1, <1>3, <1>6, <1>7, <1>8, <1>9 DEF StepSound

\* How many of the two propositions are true.
LEMMA TrueCountRange ==
    ASSUME NEW v \in 0 .. 3
    PROVE  TrueCount(v) \in Nat
<1>1. v = 0 \/ v = 1 \/ v = 2 \/ v = 3
  OBVIOUS
<1> QED
  BY <1>1 DEF TrueCount

\* The step that decides novelty: a latch that fires tells the hook.
LEMMA LatchSound ==
    ASSUME TableInv, NEW p \in Procs, Latch(p)
    PROVE  LatchesWell(p)
<1> USE ZenonT(60) DEF LatchesWell
<1> DEFINE e == at[p].mine
           kind == at[p].site.kind
           v == IF kind = "all" THEN TrueCount(at[p].value) ELSE at[p].value
<1>1. at[p].pc = "latch" /\ Finish(p) /\ UNCHANGED <<program, next, dropped, running, owed>>
  BY DEF Latch
<1>2. Uses(p)
  BY <1>1, ZenonT(60) DEF Uses
<1>3. /\ TableTyped /\ next \in Nat /\ dropped \in Nat /\ e \in Index /\ table[e] \in Entry
      /\ table[e].state = "ready" /\ table[e].kind = kind /\ table[e].id = at[p].site.id
      /\ kind \in Kinds /\ kind # "always" /\ at[p].value \in 0 .. 3 /\ at[p].site.id \in Ids /\ NextKept
  BY <1>1, <1>2, UserFacts, NextSame DEF UserParts
<1>4. Site(p) = <<table[e].id, 0>> /\ Site(p) \in Ids \X (0 .. 3) /\ Combination(p) \in Ids \X (0 .. 3)
  BY <1>3, FromZero, ZenonT(60) DEF Site, Combination
<1>5. table[e].best \in Int /\ v \in Int /\ table[e].discovered \in BOOLEAN
  BY <1>3, TrueCountRange, SMT DEF Entry
<1>6. /\ at' \in [Procs -> Place] /\ OthersStay(p) /\ at'[p].pc = "idle"
      /\ at'[p].done = at[p].done + 1
  BY <1>1, <1>3, FinishEffect DEF Finishes
<1>7. Placed(p)
  BY <1>6, PlacedFree
<1> DEFINE Same(x) == /\ x \in Entry /\ x.state = table[e].state /\ x.id = table[e].id
                      /\ x.kind = table[e].kind /\ x.count = table[e].count
                      /\ table' = [table EXCEPT ![e] = x]
           Quiet(x) == (Fired(x) => Fired(table[e])) /\ UNCHANGED <<journal, missed>>
           Spoken(x) == \/ \E k \in Discoveries : OnDiscovery(p, k, Site(p))
                        \/ (Fired(x) => Fired(table[e])) /\ OnDiscovery(p, "combination", Combination(p))
<1>8. \E x : Same(x) /\ (Quiet(x) \/ Spoken(x))
  <2>1. CASE kind \in {"sometimes", "each"}
    <3> DEFINE x == [table[e] EXCEPT !.discovered = TRUE]
    <3>1. table' = [table EXCEPT ![e] = x]
      BY <2>1, <1>3 DEF Latch, TableTyped
    <3>2. x \in Entry /\ x.state = table[e].state /\ x.id = table[e].id /\ x.kind = table[e].kind
          /\ x.count = table[e].count
      BY <1>3 DEF Entry
    <3>3. CASE table[e].discovered
      <4>1. Fired(table[e])
        BY <1>3, <3>3, ZenonT(60) DEF Fired
      <4>2. UNCHANGED <<journal, missed>> \/ OnDiscovery(p, "quality", Site(p))
        BY <2>1, <3>3 DEF Latch, novelty
      <4>3. "quality" \in Discoveries
        BY ZenonT(60) DEF Discoveries
      <4> HIDE DEF x, e
      <4> QED
        BY <3>1, <3>2, <4>1, <4>2, <4>3
    <3>4. CASE ~table[e].discovered
      <4>1. OnDiscovery(p, "first", Site(p)) \/ OnDiscovery(p, "bucket", Site(p))
        BY <2>1, <3>4 DEF Latch
      <4>2. "first" \in Discoveries /\ "bucket" \in Discoveries
        BY ZenonT(60) DEF Discoveries
      <4> HIDE DEF x, e
      <4> QED
        BY <3>1, <3>2, <4>1, <4>2
    <3> QED
      BY <3>3, <3>4
  <2>2. CASE kind \in {"numeric", "all"}
    <3> DEFINE m == Max({table[e].best, v})
               x == [table[e] EXCEPT !.best = m]
    <3>1. table' = [table EXCEPT ![e] = x]
      BY <2>2, <1>3 DEF Latch, TableTyped
    <3>2. m \in Int /\ (~(v > table[e].best) => m = table[e].best)
      <4>1. m \in {table[e].best, v} /\ m >= table[e].best /\ m >= v
        BY <1>5, MaxOfTwo
      <4> HIDE DEF m, v
      <4> QED
        BY <1>5, <4>1, SMT
    <3> HIDE DEF m
    <3>3. /\ x \in Entry /\ x.state = table[e].state /\ x.id = table[e].id /\ x.kind = table[e].kind
          /\ x.count = table[e].count /\ x.best = m /\ x.discovered = table[e].discovered
      BY <1>3, <3>2, ZenonT(60) DEF Entry
    <3>4. CASE v > table[e].best
      <4>1. OnDiscovery(p, "watermark", Site(p)) \/ OnDiscovery(p, "frontier", Site(p))
        BY <2>2, <3>4 DEF Latch
      <4>2. "watermark" \in Discoveries /\ "frontier" \in Discoveries
        BY ZenonT(60) DEF Discoveries
      <4> HIDE DEF x, e
      <4> QED
        BY <3>1, <3>3, <4>1, <4>2
    <3>5. CASE ~(v > table[e].best)
      <4>1. Fired(x) => Fired(table[e])
        BY <3>2, <3>3, <3>5 DEF Fired
      <4>2. UNCHANGED <<journal, missed>> \/ OnDiscovery(p, "combination", Combination(p))
        BY <2>2, <3>5 DEF Latch, novelty
      <4> HIDE DEF x, e
      <4> QED
        BY <3>1, <3>3, <4>1, <4>2
    <3> QED
      BY <3>4, <3>5
  <2> QED
    BY <1>3, <2>1, <2>2, ZenonT(20) DEF Kinds
<1>9. PICK x : Same(x) /\ (Quiet(x) \/ Spoken(x))
  BY <1>8
<1>10. TableKept(p) /\ table'[e] = x /\ \A f \in Index : f # e => table'[f] = table[f]
  <2>1. /\ x \in Entry /\ x.state = "ready" /\ x.id = table[at[p].mine].id
        /\ x.kind = table[at[p].mine].kind /\ table' = [table EXCEPT ![at[p].mine] = x]
    BY <1>3, <1>9
  <2> QED
    BY <1>2, <2>1, UserTouch
<1>11. SameCounts
  BY <1>9, <1>10 DEF SameCounts
<1>12. Told(p)
  <2>1. CASE Quiet(x)
    <3>1. NoneFires
      BY <1>9, <1>10, <2>1 DEF NoneFires
    <3> QED
      BY <2>1, <3>1 DEF Told
  <2>2. ASSUME NEW k \in Discoveries, OnDiscovery(p, k, Site(p)) PROVE Told(p)
    <3>1. \A f \in Index : Fired(table'[f]) =>
            (Fired(table[f]) /\ table'[f].id = table[f].id) \/ Site(p) = <<table'[f].id, 0>>
      BY <1>4, <1>9, <1>10
    <3>2. Tells(p, k, Site(p))
      BY <2>2, <3>1 DEF Tells
    <3> QED
      BY <1>4, <3>2 DEF Told
  <2>3. CASE (Fired(x) => Fired(table[e])) /\ OnDiscovery(p, "combination", Combination(p))
    <3>1. \A f \in Index : Fired(table'[f]) => Fired(table[f]) /\ table'[f].id = table[f].id
      BY <1>9, <1>10, <2>3
    <3>2. Tells(p, "combination", Combination(p)) /\ "combination" \in Discoveries
      BY <2>3, <3>1, ZenonT(60) DEF Tells, Discoveries
    <3> QED
      BY <1>4, <3>2 DEF Told
  <2> QED
    BY <1>9, <2>1, <2>2, <2>3
<1> QED
  BY <1>1, <1>3, <1>6, <1>7, <1>10, <1>11, <1>12 DEF StepSound

----------------------------------------------------------------------------
(* The books of the tables.                                                *)

\* A step of p changes whether p is among the busy, or the overdrawn, at most.
LEMMA CrowdMoves ==
    ASSUME TableTyped, NEW p \in Procs, OthersStay(p)
    PROVE  CrowdMoved(p)
<1> USE DEF CrowdMoved
<1>1. IsFiniteSet(Busy) /\ IsFiniteSet(Overdrawn)
  <2>1. Busy \in SUBSET Procs /\ Overdrawn \in SUBSET Procs
    BY DEF Busy, Overdrawn
  <2> QED
    BY <2>1, ExplorerAssumption, FS_Subset, Zenon
<1>2. Busy \ {p} = Busy' \ {p} /\ (p \in Busy <=> InFlight(p)) /\ (p \in Busy' <=> InFlight(p)')
  BY DEF Busy, InFlight, OthersStay
<1>3. /\ Overdrawn \ {p} = Overdrawn' \ {p} /\ (p \in Overdrawn <=> at[p].pc = "full")
      /\ (p \in Overdrawn' <=> at'[p].pc = "full")
  BY DEF Overdrawn, OthersStay
<1>4. \A S, T : IsFiniteSet(S) /\ S \ {p} = T \ {p} =>
        /\ Cardinality(S) \in Nat /\ Cardinality(T) \in Nat
        /\ p \in S /\ p \notin T => Cardinality(S) = Cardinality(T) + 1
        /\ p \notin S /\ p \in T => Cardinality(T) = Cardinality(S) + 1
        /\ (p \in S <=> p \in T) => T = S
  BY CountMoves, ZenonT(60) DEF CountsMove
<1>5. /\ Cardinality(Busy) \in Nat /\ Cardinality(Busy') \in Nat
      /\ p \in Busy /\ p \notin Busy' => Cardinality(Busy) = Cardinality(Busy') + 1
      /\ p \notin Busy /\ p \in Busy' => Cardinality(Busy') = Cardinality(Busy) + 1
      /\ (p \in Busy <=> p \in Busy') => Busy' = Busy
  BY <1>1, <1>2, <1>4, Zenon
<1>6. /\ Cardinality(Overdrawn) \in Nat /\ Cardinality(Overdrawn') \in Nat
      /\ p \in Overdrawn /\ p \notin Overdrawn' => Cardinality(Overdrawn) = Cardinality(Overdrawn') + 1
      /\ p \notin Overdrawn /\ p \in Overdrawn' => Cardinality(Overdrawn') = Cardinality(Overdrawn) + 1
      /\ (p \in Overdrawn <=> p \in Overdrawn') => Overdrawn' = Overdrawn
  BY <1>1, <1>3, <1>4, Zenon
<1> QED
  BY <1>2, <1>3, <1>5, <1>6, Zenon

\* The counts of a table.
LEMMA TotalType ==
    ASSUME TableTyped
    PROVE  Total \in Nat
<1> DEFINE f == [e \in Index |-> table[e].count]
<1>1. IsFiniteSet(Index) /\ NatTerms(f, Index)
  BY ProgramFacts, EntryFields DEF NatTerms, ProgramSound, EntryTyped
<1> HIDE DEF f
<1>2. SumFunctionOnSet(f, Index) \in Nat
  BY <1>1, SumSplit, Zenon
<1> QED
  BY <1>2, ZenonT(60) DEF Total, f

\* Counts that stay.
LEMMA TotalSame ==
    ASSUME TableTyped, program' = program, SameCounts
    PROVE  Total' = Total
<1>1. Index' = Index
  BY Zenon DEF Index
<1>2. [e \in Index |-> table'[e].count] = [e \in Index |-> table[e].count]
  BY DEF SameCounts
<1> QED
  BY <1>1, <1>2, Zenon DEF Total

\* One evaluation more in one entry.
LEMMA TotalMore ==
    ASSUME TableTyped, program' = program, NEW p \in Procs, OneMore(p)
    PROVE  Total' = Total + 1
<1> USE ZenonT(60)
<1> DEFINE f == [e \in Index |-> table[e].count]
           g == [e \in Index |-> table'[e].count]
           m == at[p].mine
           rest == Index \ {m}
<1>1. IsFiniteSet(Index) /\ m \in Index /\ Index' = Index
  BY ProgramFacts, PlaceFields DEF Index, ProgramSound, PlaceTyped
<1>2. /\ \A e \in Index : f[e] = table[e].count /\ g[e] = table'[e].count /\ table[e].count \in Nat
      /\ g[m] = f[m] + 1 /\ \A e \in rest : f[e] = g[e]
  BY <1>1, EntryFields, ZenonT(60) DEF OneMore, EntryTyped
<1>3. \A e \in Index : f[e] \in Nat /\ g[e] \in Nat
  <2>1. ASSUME NEW e \in Index PROVE f[e] \in Nat /\ g[e] \in Nat
    <3> HIDE DEF f, g, m
    <3>1. f[e] \in Nat
      BY <1>2
    <3>2. CASE e = m
      BY <1>2, <3>1, <3>2, Pair
    <3>3. CASE e # m
      BY <1>2, <3>1, <3>3
    <3> QED
      BY <3>1, <3>2, <3>3
  <2> QED
    BY <2>1
<1>4. Total = SumFunctionOnSet(f, Index) /\ Total' = SumFunctionOnSet(g, Index)
  BY <1>1, ZenonT(60) DEF Total
<1> HIDE DEF f, g, m
<1>5. NatTerms(f, Index) /\ NatTerms(g, Index) /\ IsFiniteSet(rest) /\ SameTerms(f, g, rest)
  BY <1>1, <1>2, <1>3, FS_RemoveElement DEF NatTerms, SameTerms
<1>6. \A h : NatTerms(h, Index) =>
        \A x \in Index : SumFunctionOnSet(h, Index) = h[x] + SumFunctionOnSet(h, Index \ {x})
  BY <1>1, SumSplit
<1>7. /\ SumFunctionOnSet(f, Index) = f[m] + SumFunctionOnSet(f, rest)
      /\ SumFunctionOnSet(g, Index) = g[m] + SumFunctionOnSet(g, rest)
  BY <1>1, <1>5, <1>6
<1>8. SumFunctionOnSet(f, rest) = SumFunctionOnSet(g, rest)
  BY <1>5, SumSame
<1>9. NatTerms(f, rest)
  BY <1>5 DEF NatTerms
<1>10. SumFunctionOnSet(f, rest) \in Nat /\ f[m] \in Nat
  BY <1>1, <1>3, <1>5, <1>9, SumSplit
<1>11. (f[m] + 1) + SumFunctionOnSet(f, rest) = (f[m] + SumFunctionOnSet(f, rest)) + 1
  BY <1>10, Pair
<1> QED
  BY <1>2, <1>4, <1>7, <1>8, <1>11

\* They keep the books.
LEMMA BooksKept ==
    ASSUME TableInv, NEW p \in Procs, program' = program, OthersStay(p), dropped' \in Nat, Counts(p)
    PROVE  NothingLost' /\ owed' \in Nat
<1> USE ZenonT(60)
<1>1. TableTyped /\ owed = Total + dropped + Cardinality(Busy) /\ Total \in Nat /\ dropped \in Nat
  BY TotalType DEF TableInv, NothingLost, Total, Busy, TableTyped
<1>2. (SameCounts => Total' = Total) /\ (OneMore(p) => Total' = Total + 1)
  BY <1>1, TotalSame, TotalMore
<1>3. /\ Cardinality(Busy) \in Nat /\ Cardinality(Busy') \in Nat
      /\ InFlight(p) /\ ~InFlight(p)' => Cardinality(Busy) = Cardinality(Busy') + 1
      /\ ~InFlight(p) /\ InFlight(p)' => Cardinality(Busy') = Cardinality(Busy) + 1
      /\ (InFlight(p) <=> InFlight(p)') => Cardinality(Busy') = Cardinality(Busy)
  BY <1>1, CrowdMoves DEF CrowdMoved
<1>4. PICK a \in Nat, b \in Nat, c \in Nat, d \in Nat :
        a = Total /\ b = Cardinality(Busy) /\ c = Cardinality(Busy') /\ d = dropped
  BY <1>1, <1>3
<1>5. owed' = Total' + dropped' + c /\ Total' \in Nat
  <2>0. owed = a + d + b
    BY <1>1, <1>4
  <2>1. CASE SameCounts /\ owed' = owed /\ dropped' = dropped /\ (InFlight(p) <=> InFlight(p)')
    BY <1>1, <1>2, <1>3, <1>4, <2>1
  <2>2. CASE SameCounts /\ owed' = owed + 1 /\ dropped' = dropped /\ ~InFlight(p) /\ InFlight(p)'
    <3>1. Total' = a /\ dropped' = d /\ c = b + 1 /\ owed' = (a + d + b) + 1
      BY <1>2, <1>3, <1>4, <2>0, <2>2
    <3>2. (a + d + b) + 1 = a + d + (b + 1)
      BY Carry
    <3> QED
      BY <3>1, <3>2
  <2>3. CASE SameCounts /\ owed' = owed - 1 /\ dropped' = dropped /\ InFlight(p) /\ ~InFlight(p)'
    <3>1. Total' = a /\ dropped' = d /\ owed' = (a + d + (c + 1)) - 1
      BY <1>2, <1>3, <1>4, <2>0, <2>3
    <3>2. (a + d + (c + 1)) - 1 = a + d + c
      BY Carry
    <3> QED
      BY <3>1, <3>2
  <2>4. CASE SameCounts /\ owed' = owed /\ dropped' = dropped + 1 /\ InFlight(p) /\ ~InFlight(p)'
    <3>1. Total' = a /\ dropped' = d + 1 /\ owed' = a + d + (c + 1)
      BY <1>2, <1>3, <1>4, <2>0, <2>4
    <3>2. a + d + (c + 1) = a + (d + 1) + c
      BY Balance
    <3> QED
      BY <3>1, <3>2
  <2>5. CASE OneMore(p) /\ owed' = owed /\ dropped' = dropped /\ InFlight(p) /\ ~InFlight(p)'
    <3>1. Total' = a + 1 /\ dropped' = d /\ owed' = a + d + (c + 1)
      BY <1>2, <1>3, <1>4, <2>0, <2>5
    <3>2. a + d + (c + 1) = (a + 1) + d + c
      BY Balance
    <3>3. a + 1 \in Nat
      BY Pair
    <3> QED
      BY <3>1, <3>2, <3>3
  <2> QED
    BY <2>1, <2>2, <2>3, <2>4, <2>5 DEF Counts
<1>6. owed' \in Nat
  <2>1. PICK t \in Nat, u \in Nat : t = Total' /\ u = dropped'
    BY <1>5
  <2>2. t + u + c \in Nat
    BY SumOfThree
  <2> QED
    BY <1>5, <2>1, <2>2
<1>7. NothingLost'
  BY <1>4, <1>5 DEF NothingLost, Total, Busy
<1> QED
  BY <1>6, <1>7

\* The fetch_add of who found the table full is still to be taken back.
LEMMA NextSoundKept ==
    ASSUME TableInv, NEW p \in Procs, program' = program, OthersStay(p),
           NextMoves(p)
    PROVE  NextSound'
<1> USE ZenonT(60) DEF NextMoves
<1>1. TableTyped /\ next \in Nat /\ program.capacity \in Nat
  BY ProgramFacts DEF TableInv, TableTyped, ProgramSound
<1>2. PICK a \in Nat, b \in Nat : a = Cardinality(Overdrawn) /\ b = Cardinality(Overdrawn')
  BY <1>1, CrowdMoves DEF CrowdMoved
<1>3. Overdrawn # {} => a >= 1 /\ next >= program.capacity + a
  BY <1>2, OverdrawnFacts DEF OverdrawnCounted
<1>4. Overdrawn = {} => a = 0
  BY <1>2, FS_EmptySet
<1>5. SUFFICES ASSUME Overdrawn' # {} PROVE next' >= program.capacity + b
  BY <1>2 DEF NextSound
<1>6. CASE at[p].pc # "full" /\ at'[p].pc # "full"
  <2>1. Overdrawn' = Overdrawn /\ b = a
    BY <1>1, <1>2, <1>6, CrowdMoves DEF CrowdMoved
  <2>2. next >= program.capacity + a /\ a >= 1
    BY <1>3, <1>5, <2>1
  <2> QED
    BY <1>1, <1>2, <1>6, <2>1, <2>2, Above
<1>7. CASE at[p].pc # "full" /\ at'[p].pc = "full"
  <2>1. b = a + 1
    BY <1>1, <1>2, <1>7, CrowdMoves DEF CrowdMoved
  <2> QED
    <3>1. next >= program.capacity /\ next' = next + 1
      BY <1>7
    <3>2. CASE Overdrawn = {}
      BY <1>1, <1>4, <2>1, <3>1, <3>2, Above
    <3>3. CASE Overdrawn # {}
      <4>1. next + 1 >= program.capacity + (a + 1)
        BY <1>1, <1>3, <3>3, Above
      <4> QED
        BY <2>1, <3>1, <4>1
    <3> QED
      BY <3>2, <3>3
<1>8. CASE at[p].pc = "full" /\ at'[p].pc # "full"
  <2>1. a = b + 1
    BY <1>1, <1>2, <1>8, CrowdMoves DEF CrowdMoved
  <2>2. Overdrawn # {}
    BY <1>2, <1>4, <2>1, NotZero
  <2> QED
    <3>1. next' = next - 1 /\ next >= program.capacity + (b + 1)
      BY <1>3, <1>8, <2>1, <2>2
    <3>2. next - 1 >= program.capacity + b
      BY <1>1, <3>1, Above
    <3> QED
      BY <3>1, <3>2
<1> QED
  BY <1>6, <1>7, <1>8

\* The steps that search and claim.
LEMMA ClaimStepKeeps ==
    ASSUME TableInv, NEW p \in Procs,
           \/ \E site \in program.sites, value \in program.values : Evaluate(p, site, value)
           \/ Find(p) \/ TakeIndex(p) \/ Full(p) \/ Recount(p) \/ Check(p)
    PROVE  StepKeeps(p)
<1> USE ZenonT(60)
<1>1. UNCHANGED table /\ UNCHANGED <<journal, missed>>
  BY DEF Evaluate, Find, TakeIndex, Full, Recount, Check, novelty
<1>2. NoneFires /\ SameCounts
  BY <1>1, NotRewritten
<1>3. ASSUME NEW site \in program.sites, NEW value \in program.values, Evaluate(p, site, value)
      PROVE  StepKeeps(p)
  <2>1. StepSound(p) /\ at'[p].pc = "find" /\ at'[p].done = at[p].done /\ at[p].pc = "idle"
        /\ owed' = owed + 1 /\ dropped' = dropped /\ next' = next
    BY <1>3, EvaluateSound DEF Evaluate
  <2>2. Counts(p)
    BY <1>2, <2>1, ZenonT(60) DEF Counts, InFlight
  <2>3. NextSound'
    BY <2>1, NextSoundKept, ZenonT(60) DEF StepSound, NextMoves
  <2> QED
    BY <1>1, <1>2, <2>1, <2>2, <2>3 DEF StepKeeps, Reports
<1>4. ASSUME Find(p) PROVE StepKeeps(p)
  <2>1. StepSound(p) /\ at'[p].pc \in {"find", "await"} /\ at'[p].done = at[p].done /\ at[p].pc = "find"
        /\ owed' = owed /\ dropped' = dropped /\ next' = next
    BY <1>4, FindSound DEF Find
  <2>2. Counts(p)
    BY <1>2, <2>1, ZenonT(60) DEF Counts, InFlight
  <2>3. NextSound'
    BY <2>1, NextSoundKept, ZenonT(60) DEF StepSound, NextMoves
  <2> QED
    BY <1>1, <1>2, <2>1, <2>2, <2>3 DEF StepKeeps, Reports
<1>5. ASSUME TakeIndex(p) PROVE StepKeeps(p)
  <2>1. /\ StepSound(p) /\ at'[p].done = at[p].done /\ next' = next + 1 /\ at[p].pc = "find"
        /\ owed' = owed /\ dropped' = dropped
        /\ \/ at'[p].pc = "mark" /\ next < program.capacity
           \/ at'[p].pc = "full" /\ next >= program.capacity
    BY <1>5, TakeIndexSound DEF TakeIndex, TakesIndexWell
  <2>2. Counts(p)
    BY <1>2, <2>1, ZenonT(60) DEF Counts, InFlight
  <2>3. NextSound'
    BY <2>1, NextSoundKept, ZenonT(20) DEF StepSound, NextMoves
  <2> QED
    BY <1>1, <1>2, <2>1, <2>2, <2>3 DEF StepKeeps, Reports
<1>6. ASSUME Full(p) PROVE StepKeeps(p)
  <2>1. StepSound(p) /\ next' = next - 1 /\ dropped' = dropped + 1 /\ owed' = owed
        /\ at'[p].pc = "idle" /\ at'[p].done = at[p].done + 1 /\ at[p].pc = "full"
    BY <1>6, FullSound DEF Full, TakesBackWell
  <2>2. Counts(p)
    BY <1>2, <2>1, ZenonT(60) DEF Counts, InFlight
  <2>3. NextSound'
    BY <2>1, NextSoundKept, ZenonT(60) DEF StepSound, NextMoves
  <2> QED
    BY <1>1, <1>2, <2>1, <2>2, <2>3 DEF StepKeeps, Reports
<1>7. ASSUME Recount(p) \/ Check(p) PROVE StepKeeps(p)
  <2>1. StepSound(p) /\ at'[p].pc \in {"check", "release"} /\ at'[p].done = at[p].done
        /\ at[p].pc \in {"marked", "check"} /\ owed' = owed /\ dropped' = dropped /\ next' = next
    BY <1>7, RecountSound, CheckSound DEF Recount, Check
  <2>2. Counts(p)
    BY <1>2, <2>1, ZenonT(60) DEF Counts, InFlight
  <2>3. NextSound'
    BY <2>1, NextSoundKept, ZenonT(60) DEF StepSound, NextMoves
  <2> QED
    BY <1>1, <1>2, <2>1, <2>2, <2>3 DEF StepKeeps, Reports
<1> QED
  BY <1>3, <1>4, <1>5, <1>6, <1>7

\* The steps that wait, mark, fill and publish.
LEMMA OwnerStepKeeps ==
    ASSUME TableInv, NEW p \in Procs,
           \/ Await(p) \/ AwaitWinner(p) \/ Mark(p) \/ Release(p) \/ Initialize(p) \/ Publish(p)
    PROVE  StepKeeps(p)
<1> USE ZenonT(60)
<1>1. UNCHANGED <<journal, missed>> /\ next' = next
  BY ZenonT(60) DEF Await, AwaitWinner, Mark, Release, Initialize, Publish, novelty
<1>2. ASSUME Await(p) \/ AwaitWinner(p) PROVE StepKeeps(p)
  <2>1. /\ StepSound(p) /\ NoneFires /\ SameCounts /\ at[p].pc \in {"await", "awaitWinner"}
        /\ \/ at'[p].pc \in {"record", "find"} /\ at'[p].done = at[p].done
              /\ dropped' = dropped /\ owed' = owed
           \/ at'[p].pc = "idle" /\ at'[p].done = at[p].done + 1
              /\ \/ dropped' = dropped + 1 /\ owed' = owed
                 \/ dropped' = dropped /\ owed' = owed - 1
    BY <1>2, AwaitSound, AwaitWinnerSound DEF Await, AwaitWinner, AwaitsWell, AwaitsWinnerWell
  <2>2. Counts(p)
    BY <2>1, ZenonT(60) DEF Counts, InFlight
  <2>3. NextSound'
    BY <1>1, <2>1, NextSoundKept, ZenonT(60) DEF StepSound, NextMoves
  <2> QED
    BY <1>1, <2>1, <2>2, <2>3 DEF StepKeeps, Reports
<1>3. ASSUME Mark(p) \/ Release(p) \/ Initialize(p) \/ Publish(p) PROVE StepKeeps(p)
  <2>1. /\ StepSound(p) /\ NoneFires /\ SameCounts /\ at'[p].done = at[p].done
        /\ at[p].pc \in {"mark", "release", "check", "publish"}
        /\ at'[p].pc \in {"marked", "awaitWinner", "publish", "record"}
        /\ dropped' = dropped /\ owed' = owed
    BY <1>3, MarkSound, ReleaseSound, InitializeSound, PublishSound DEF Mark, Release, Initialize, Publish, StepsTo
  <2>2. Counts(p)
    BY <2>1, ZenonT(60) DEF Counts, InFlight
  <2>3. NextSound'
    BY <1>1, <2>1, NextSoundKept, ZenonT(20) DEF StepSound, NextMoves
  <2> QED
    BY <1>1, <2>1, <2>2, <2>3 DEF StepKeeps, Reports
<1> QED
  BY <1>2, <1>3

\* The steps on a published entry.
LEMMA UserStepKeeps ==
    ASSUME TableInv, NEW p \in Procs, RecordPass(p) \/ Measure(p) \/ Latch(p)
    PROVE  StepKeeps(p)
<1> USE ZenonT(60)
<1>1. next' = next /\ dropped' = dropped /\ owed' = owed
  BY DEF RecordPass, Measure, Latch
<1>2. ASSUME RecordPass(p) PROVE StepKeeps(p)
  <2>1. /\ StepSound(p) /\ NoneFires /\ OneMore(p) /\ at[p].pc = "record" /\ UNCHANGED <<journal, missed>>
        /\ \/ at'[p].pc \in {"measure", "latch"} /\ at'[p].done = at[p].done
           \/ at'[p].pc = "idle" /\ at'[p].done = at[p].done + 1
    BY <1>2, RecordPassSound DEF RecordPass, novelty, RecordsWell
  <2>2. Counts(p)
    BY <1>1, <2>1 DEF Counts, InFlight
  <2>3. NextSound'
    BY <1>1, <2>1, NextSoundKept DEF StepSound, NextMoves
  <2> QED
    BY <2>1, <2>2, <2>3 DEF StepKeeps, Reports
<1>3. ASSUME Measure(p) PROVE StepKeeps(p)
  <2>1. /\ StepSound(p) /\ NoneFires /\ SameCounts /\ at[p].pc = "measure" /\ UNCHANGED <<journal, missed>>
        /\ at'[p].pc = "latch" /\ at'[p].done = at[p].done
    BY <1>3, MeasureSound DEF Measure, novelty, StepsTo
  <2>2. Counts(p)
    BY <1>1, <2>1, ZenonT(60) DEF Counts, InFlight
  <2>3. NextSound'
    BY <1>1, <2>1, NextSoundKept, ZenonT(20) DEF StepSound, NextMoves
  <2> QED
    BY <2>1, <2>2, <2>3 DEF StepKeeps, Reports
<1>4. ASSUME Latch(p) PROVE StepKeeps(p)
  <2>1. /\ StepSound(p) /\ SameCounts /\ Told(p) /\ at[p].pc = "latch"
        /\ at'[p].pc = "idle" /\ at'[p].done = at[p].done + 1
    BY <1>4, LatchSound DEF Latch, LatchesWell
  <2>2. Counts(p)
    BY <1>1, <2>1, ZenonT(20) DEF Counts, InFlight
  <2>3. NextSound'
    BY <1>1, <2>1, NextSoundKept DEF StepSound, NextMoves
  <2> QED
    BY <2>1, <2>2, <2>3 DEF StepKeeps, Reports, Told
<1> QED
  BY <1>2, <1>3, <1>4

\* Every step of an evaluation.
LEMMA StepKept ==
    ASSUME TableInv, NEW p \in Procs, Step(p)
    PROVE  StepKeeps(p)
BY ClaimStepKeeps, OwnerStepKeeps, UserStepKeeps, ZenonT(60) DEF Step

----------------------------------------------------------------------------
(* The journals.                                                           *)

\* The fields of an event.
LEMMA EventFields ==
    ASSUME NEW a \in Event
    PROVE  EventTyped(a)
BY DEF Event, EventTyped

\* Some event of a journal is outranked by all others: the one a full journal
\* gives up.
LEMMA WeakestExists ==
    ASSUME NEW events, Bounded(events), events # {}
    PROVE  \E old \in events : \A other \in events \ {old} : Outranks(other, old)
<1> USE ZenonT(60)
<1>1. \A a \in events : a.rank \in Nat /\ a.count \in Nat
  BY EventFields DEF Bounded, EventTyped
<1> DEFINE ranks == {a.rank : a \in events}
<1>2. ranks \in SUBSET Nat /\ ranks # {}
  BY <1>1, ZenonT(60)
<1>3. PICK r \in ranks : \A k \in ranks : r <= k
  BY <1>2, Smallest
<1> DEFINE counts == {a.count : a \in {b \in events : b.rank = r}}
<1>4. counts \in SUBSET Nat /\ counts # {}
  BY <1>1, <1>3, ZenonT(60)
<1>5. PICK c \in counts : \A k \in counts : c <= k
  BY <1>4, Smallest
<1>6. PICK old \in events : old.rank = r /\ old.count = c
  BY <1>5, ZenonT(60)
<1>7. ASSUME NEW other \in events \ {old} PROVE Outranks(other, old)
  <2>1. r <= other.rank /\ (other.rank = r => c <= other.count)
    BY <1>3, <1>5, ZenonT(60)
  <2>2. other.count # old.count
    BY <1>6 DEF Bounded
  <2> QED
    BY <1>1, <1>6, <2>1, <2>2, NotAbove DEF Outranks
<1> QED
  BY <1>6, <1>7

\* journal::record keeps a journal bounded; the new event is its last.
LEMMA RecordKeeps ==
    ASSUME NEW events, Bounded(events), NEW new \in Event, TableTyped,
           \A a \in events : a.count < new.count
    PROVE  RecordsEvent(events, new)
<1> USE ZenonT(60) DEF RecordsEvent
<1> DEFINE same == {old \in events : old.state = new.state}
           weakest == {old \in events : \A other \in events \ {old} : Outranks(other, old)}
           rival == IF same # {} THEN same
                    ELSE IF Cardinality(events) < MaxJournal THEN {} ELSE weakest
           placed == IF rival = {} THEN new
                     ELSE [new EXCEPT !.place = (CHOOSE old \in rival : TRUE).place]
           kept == (events \ rival) \cup {placed}
<1>1. Record(events, new) = kept \/ Record(events, new) = events
  BY ZenonT(60) DEF Record
<1>2. \A a \in kept : a \in events \/ a = placed
  BY ZenonT(60)
<1>3. rival \in SUBSET events /\ (rival = {} => Cardinality(events) < MaxJournal)
  <2>1. CASE same # {}
    BY <2>1, ZenonT(60)
  <2>2. CASE same = {} /\ Cardinality(events) < MaxJournal
    BY <2>2, ZenonT(60)
  <2>3. CASE same = {} /\ ~(Cardinality(events) < MaxJournal)
    <3>1. rival = weakest
      BY <2>3, ZenonT(60)
    <3>2. events # {}
      BY <2>3, FS_EmptySet, ProgramFacts, Ordered, FromZero DEF ProgramSound
    <3>3. weakest # {}
      BY <3>2, WeakestExists, ZenonT(60)
    <3> QED
      BY <3>1, <3>3, ZenonT(60)
  <2> QED
    BY <2>1, <2>2, <2>3
<1> HIDE DEF rival
<1>10. placed \in Event /\ placed.count = new.count
  <2>1. CASE rival = {}
    BY <2>1, ZenonT(60)
  <2>2. CASE rival # {}
    <3>1. (CHOOSE old \in rival : TRUE) \in Event
      BY <1>3, <2>2, ZenonT(60) DEF Bounded
    <3>2. PICK n \in Nat : n = (CHOOSE old \in rival : TRUE).place
      BY <3>1, EventFields DEF EventTyped
    <3>3. placed = [new EXCEPT !.place = n]
      BY <2>2, <3>2, ZenonT(60)
    <3> QED
      BY <3>3, ZenonT(60) DEF Event
  <2> QED
    BY <2>1, <2>2
<1> HIDE DEF placed
<1>4. /\ IsFiniteSet(events) /\ Cardinality(events) \in Nat /\ Cardinality(events) <= MaxJournal
      /\ MaxJournal \in Nat
  BY FS_CardinalityType, ProgramFacts DEF Bounded, ProgramSound
<1>5. IsFiniteSet(events \ rival) /\ Cardinality(events \ rival) \in Nat
      /\ Cardinality(events \ rival) < MaxJournal
  <2>1. CASE rival = {}
    <3>1. events \ rival = events
      BY <2>1, ZenonT(60)
    <3> QED
      BY <1>3, <1>4, <2>1, <3>1
  <2>2. CASE rival # {}
    <3>1. PICK x \in rival : x \in events
      BY <1>3, <2>2, ZenonT(60)
    <3>2. IsFiniteSet(events \ {x}) /\ Cardinality(events \ {x}) = Cardinality(events) - 1
      BY <1>4, <3>1, FS_RemoveElement, ZenonT(60)
    <3>3. events \ rival \in SUBSET (events \ {x})
      BY <3>1, ZenonT(60)
    <3>4. IsFiniteSet(events \ rival) /\ Cardinality(events \ rival) <= Cardinality(events \ {x})
      BY <3>2, <3>3, FS_Subset
    <3>5. Cardinality(events \ rival) \in Nat
      BY <3>4, FS_CardinalityType
    <3> QED
      BY <1>4, <3>2, <3>4, <3>5, BelowLess
  <2> QED
    BY <2>1, <2>2
<1>6. IsFiniteSet(kept) /\ Cardinality(kept) <= MaxJournal
  <2>1. IsFiniteSet(kept) /\ (Cardinality(kept) = Cardinality(events \ rival)
                              \/ Cardinality(kept) = Cardinality(events \ rival) + 1)
    BY <1>5, FS_AddElement, ZenonT(60)
  <2> HIDE DEF kept
  <2> QED
    <3>1. PICK n \in Nat : n = Cardinality(events \ rival)
      BY <1>5
    <3>2. n <= MaxJournal /\ n + 1 <= MaxJournal
      BY <1>4, <1>5, <3>1, Below
    <3> QED
      BY <2>1, <3>1, <3>2
<1>7. kept \in SUBSET Event
  BY <1>10, ZenonT(60) DEF Bounded
<1>8. ASSUME NEW a \in kept, NEW b \in kept, a.count = b.count PROVE a = b
  <2>1. \A x \in events : x.count \in Nat /\ x.count < placed.count
    BY <1>10, EventFields DEF Bounded, EventTyped
  <2>2. placed.count \in Nat
    BY <1>10, EventFields DEF EventTyped
  <2>3. CASE a \in events /\ b \in events
    BY <1>8, <2>3 DEF Bounded
  <2>4. CASE a \in events /\ b = placed
    BY <1>8, <2>1, <2>2, <2>4, Below
  <2>5. CASE a = placed /\ b \in events
    BY <1>8, <2>1, <2>2, <2>5, Below
  <2>6. CASE a = placed /\ b = placed
    BY <2>6
  <2> QED
    BY <1>2, <2>3, <2>4, <2>5, <2>6
<1>9. Bounded(kept)
  BY <1>6, <1>7, <1>8 DEF Bounded
<1> HIDE DEF kept
<1> QED
  BY <1>1, <1>2, <1>9, <1>10

\* The hook's event, and what becomes of the journals.
LEMMA ReportKeeps ==
    ASSUME TableInv, NEW p \in running, NEW k \in Discoveries, NEW s \in Ids \X (0 .. 3),
           OnDiscovery(p, k, s), OthersStay(p), running' = running, at'[p].done = at[p].done + 1
    PROVE  Reported(p, s)
<1> USE ZenonT(60) DEF Reported
<1> DEFINE new == [state |-> s, rank |-> Priority(k), count |-> at[p].done, place |-> at[p].done]
           kept == Record(journal[p], new)
<1>1. TableTyped /\ Journals /\ p \in Procs
  BY DEF TableInv, TableTyped
<1>2. Priority(k) \in 0 .. 2
  BY FromZero DEF Priority, Discoveries
<1>3. new \in Event /\ new.count = at[p].done /\ new.state = s /\ at[p].done \in Nat
  BY <1>1, <1>2, PlaceFields, ZenonT(60) DEF Event, PlaceTyped
<1>4. /\ journal' = [journal EXCEPT ![p] = kept]
      /\ missed' = missed \cup (States(journal[p] \cup {new}) \ States(kept))
  BY DEF OnDiscovery
<1> HIDE DEF new
<1>5. Bounded(journal[p]) /\ \A a \in journal[p] : a.count < new.count
  BY <1>1, <1>3 DEF Journals, JournalOf, Bounded
<1>6. Bounded(kept) /\ \A a \in kept : a \in journal[p] \/ a.count = new.count
  BY <1>1, <1>3, <1>5, RecordKeeps DEF RecordsEvent
<1> HIDE DEF kept
<1>7. /\ journal' \in [Procs -> SUBSET Event] /\ journal'[p] = kept
      /\ \A q \in Procs : q # p => journal'[q] = journal[q]
  BY <1>1, <1>4, <1>6, ZenonT(60) DEF Journals, Bounded
<1>8. \A a \in kept : a.count < at'[p].done
  <2>1. ASSUME NEW a \in kept PROVE a.count \in Nat /\ a.count <= at[p].done
    <3>1. a.count \in Nat
      BY <1>6, EventFields DEF Bounded, EventTyped
    <3> DEFINE i == a.count
               m == at[p].done
    <3>2. i < m \/ i = m
      BY <1>3, <1>5, <1>6
    <3>3. i \in Nat /\ m \in Nat
      BY <1>3, <3>1
    <3> HIDE DEF i, m
    <3>4. i <= m
      BY <3>2, <3>3, SMT
    <3> QED
      BY <3>1, <3>4 DEF i, m
  <2> QED
    BY <1>3, <2>1, SMTT(60)
<1>9. JournalOf(p)'
  BY <1>6, <1>7, <1>8 DEF JournalOf, Bounded
<1>10. ASSUME NEW q \in Procs, q # p PROVE JournalOf(q)'
  <2>1. JournalOf(q) /\ at'[q] = at[q] /\ journal'[q] = journal[q]
    BY <1>1, <1>7, <1>10 DEF Journals, OthersStay
  <2> QED
    BY <2>1 DEF JournalOf
<1>11. Journals'
  BY <1>7, <1>9, <1>10 DEF Journals
<1>12. States(journal[p] \cup {new}) \subseteq States(kept) \cup missed'
  BY <1>4, ZenonT(60)
<1>13. States(journal[p]) \subseteq States(journal[p] \cup {new}) /\ s \in States(journal[p] \cup {new})
  BY <1>3, ZenonT(60) DEF States
<1> QED
  BY <1>4, <1>7, <1>11, <1>12, <1>13, ZenonT(60)

\* No discovery is lost where every fired latch is heard of.
LEMMA NoveltyIsHeard ==
    NoveltyReachesController <=>
        (ctl # "dropped" => \A e \in Index : Fired(table[e]) => Heard(<<table[e].id, 0>>))
<1>1. \A e \in Index : Latched(e) <=> Fired(table[e])
  BY Zenon DEF Latched, Fired
<1> QED
  BY <1>1, Zenon DEF NoveltyReachesController, Heard

\* The same, after a step.
LEMMA NoveltyAfter ==
    ASSUME program' = program,
           ctl' # "dropped" => \A e \in Index : \A s : Fired(table'[e]) /\ s = <<table'[e].id, 0>> => Heard(s)'
    PROVE  NoveltyReachesController'
<1>1. Index' = Index
  BY Zenon DEF Index
<1>2. \A e \in Index' : Latched(e)' <=> Fired(table'[e])
  BY Zenon DEF Latched, Fired
<1> QED
  BY <1>1, <1>2, Zenon DEF NoveltyReachesController, Heard

\* A step that fires no latch and loses nothing.
LEMMA NoveltyKept ==
    ASSUME NoveltyReachesController, program' = program, NoneFires,
           ctl' # "dropped" => ctl # "dropped",
           \A s : Heard(s) => Heard(s)'
    PROVE  NoveltyReachesController'
<1> USE Zenon
<1>1. SUFFICES ASSUME ctl' # "dropped", NEW e \in Index, NEW s, Fired(table'[e]), s = <<table'[e].id, 0>>
               PROVE  Heard(s)'
  BY <1>1, NoveltyAfter
<1>2. Fired(table[e]) /\ s = <<table[e].id, 0>>
  BY <1>1 DEF NoneFires
<1>3. Heard(<<table[e].id, 0>>)
  BY <1>1, <1>2, NoveltyIsHeard
<1>4. Heard(s)
  BY <1>2, <1>3
<1> QED
  BY <1>4

\* A step of a timeline keeps the tables sound.
LEMMA TimelineTable ==
    ASSUME TableInv, NEW p \in running, Step(p)
    PROVE  TableInv' /\ StepKeeps(p)
<1> USE ZenonT(60)
<1>1. TableTyped /\ p \in Procs /\ Journals
  BY DEF TableInv, TableTyped
<1>2. StepKeeps(p)
  BY <1>1, StepKept
<1>3. StepSound(p) /\ Counts(p) /\ NextSound' /\ Reports(p)
  BY <1>2 DEF StepKeeps
<1>4. /\ program' = program /\ running' = running
      /\ at' \in [Procs -> Place] /\ OthersStay(p)
      /\ next' \in Nat /\ dropped' \in Nat
      /\ TableKept(p) /\ NextKept /\ Placed(p) /\ Index' = Index /\ Place' = Place
  BY <1>3 DEF StepSound, Index, Place
<1>5. ClaimsInv'
  BY <1>1, <1>4, ClaimsKept
<1>6. NothingLost' /\ owed' \in Nat
  BY <1>1, <1>3, <1>4, BooksKept
<1>7. TableTyped'
  <2>1. \A q \in Procs : at'[q].pc # "idle" => at'[q].site \in Sites
    BY <1>1, <1>4 DEF TableTyped, OthersStay, Placed
  <2>2. program' \in Programs /\ running' \in SUBSET Procs
    BY <1>1, <1>4 DEF TableTyped
  <2>3. table' \in [Index' -> Entry] /\ at' \in [Procs -> Place']
    BY <1>4 DEF TableKept
  <2> QED
    BY <1>4, <1>6, <2>1, <2>2, <2>3 DEF TableTyped
<1>8. Journals'
  <2>1. CASE /\ UNCHANGED <<journal, missed>>
             /\ at'[p].done = at[p].done \/ at'[p].done = at[p].done + 1
    <3>1. ASSUME NEW q \in Procs PROVE JournalOf(q)'
      <4>1. JournalOf(q) /\ journal' = journal /\ running' = running
        BY <1>1, <1>4, <2>1 DEF Journals
      <4>2. CASE q = p
        <5>1. ASSUME NEW a \in journal[p] PROVE a.count < at'[p].done
          <6>1. a \in Event /\ a.count < at[p].done
            BY <4>1, <4>2 DEF JournalOf
          <6>2. a.count \in Nat /\ at[p].done \in Nat
            BY <1>1, <6>1, EventFields, PlaceFields DEF EventTyped, PlaceTyped
          <6> QED
            BY <2>1, <6>1, <6>2, Below
        <5> QED
          BY <4>1, <4>2, <5>1 DEF JournalOf
      <4>3. CASE q # p
        BY <4>1, <4>3, <1>4 DEF JournalOf, OthersStay
      <4> QED
        BY <4>2, <4>3
    <3> QED
      BY <1>1, <2>1, <3>1 DEF Journals
  <2>2. ASSUME at'[p].done = at[p].done + 1, NEW k \in Discoveries, NEW s \in Ids \X (0 .. 3),
               Tells(p, k, s)
        PROVE  Journals'
    <3>1. OnDiscovery(p, k, s)
      BY <2>2 DEF Tells
    <3> QED
      BY <1>4, <2>2, <3>1, ReportKeeps DEF Reported
  <2> QED
    BY <1>3, <2>1, <2>2 DEF Reports
<1> QED
  BY <1>2, <1>3, <1>5, <1>6, <1>7, <1>8 DEF TableInv, ClaimsInv

\* A step of a timeline keeps every discovery on its way.
LEMMA TimelineNovelty ==
    ASSUME TableInv, NoveltyReachesController, NEW p \in running, Step(p), UNCHANGED explorerVars
    PROVE  NoveltyReachesController'
<1> USE ZenonT(60)
<1>1. StepKeeps(p) /\ p \in Procs
  BY TimelineTable DEF TableInv, TableTyped
<1>2. /\ program' = program /\ running' = running /\ OthersStay(p) /\ Reports(p)
      /\ ctl' = ctl /\ known' = known /\ active' = active /\ slot' = slot
  BY <1>1, ZenonT(60) DEF StepKeeps, StepSound, explorerVars
<1>3. CASE NoneFires /\ UNCHANGED <<journal, missed>>
  <2>1. \A s : Heard(s) => Heard(s)'
    BY <1>2, <1>3 DEF Heard
  <2> QED
    BY <1>2, <1>3, <2>1, NoveltyKept
<1>4. ASSUME at'[p].done = at[p].done + 1, NEW k \in Discoveries, NEW s \in Ids \X (0 .. 3),
             Tells(p, k, s)
      PROVE  NoveltyReachesController'
  <2>1. OnDiscovery(p, k, s)
    BY <1>4 DEF Tells
  <2>2. /\ \A q \in Procs : q # p => journal'[q] = journal[q]
        /\ missed \subseteq missed'
        /\ States(journal[p]) \subseteq States(journal'[p]) \cup missed'
        /\ s \in States(journal'[p]) \cup missed'
    BY <1>2, <1>4, <2>1, ReportKeeps DEF Reported
  <2>3. Heard(s)'
    BY <1>2, <2>2 DEF Heard
  <2>4. ASSUME NEW t, Heard(t) PROVE Heard(t)'
    <3>1. CASE \E q \in running : t \in States(journal[q])
      <4>1. PICK q \in running : t \in States(journal[q])
        BY <3>1
      <4>2. q \in Procs
        BY <4>1 DEF TableInv, TableTyped
      <4>3. t \in States(journal'[q]) \/ t \in missed'
        BY <2>2, <4>1, <4>2
      <4> QED
        BY <1>2, <4>1, <4>3 DEF Heard
    <3>2. CASE t \in missed
      BY <2>2, <3>2 DEF Heard
    <3>3. CASE \E n \in DOMAIN known : known[n].state = t
      BY <1>2, <3>3 DEF Heard
    <3>4. CASE \E q \in DOMAIN active : t \in States(slot[active[q].slot])
      BY <1>2, <3>4 DEF Heard
    <3> QED
      BY <2>4, <3>1, <3>2, <3>3, <3>4 DEF Heard
  <2>5. SUFFICES ASSUME ctl' # "dropped", NEW e \in Index, NEW t, Fired(table'[e]), t = <<table'[e].id, 0>>
                 PROVE  Heard(t)'
    BY <1>2, <2>5, NoveltyAfter
  <2>6. (Fired(table[e]) /\ t = <<table[e].id, 0>>) \/ s = t
    BY <1>4, <2>5 DEF Tells
  <2>7. CASE Fired(table[e]) /\ t = <<table[e].id, 0>>
    <3>1. Heard(<<table[e].id, 0>>)
      BY <1>2, <2>5, <2>7, NoveltyIsHeard
    <3>2. Heard(t)
      BY <2>7, <3>1
    <3> QED
      BY <2>4, <3>2
  <2> QED
    BY <2>3, <2>6, <2>7
<1> QED
  BY <1>2, <1>3, <1>4 DEF Reports

----------------------------------------------------------------------------
(* Processes that start, end or die between two steps of their evaluations.*)

\* A process that holds nothing is as good as gone.
LEMMA IdleLeaves ==
    ASSUME TableInv, NEW p \in Procs, at[p].pc = "idle", at' = [at EXCEPT ![p] = Idle(0)],
           owed' = owed, UNCHANGED <<program, next, dropped, table>>
    PROVE  Leaves({p})
<1> USE ZenonT(60)
<1>1. at \in [Procs -> Place] /\ owed \in Nat
  BY DEF TableInv, TableTyped
<1>2. at' = [q \in Procs |-> IF q \in {p} THEN Idle(0) ELSE at[q]]
  BY <1>1
<1>3. {q \in {p} : InFlight(q)} = {}
  BY ZenonT(60) DEF InFlight
<1>4. owed' = owed - Cardinality({q \in {p} : InFlight(q)})
  <2>1. owed - 0 = owed
    BY <1>1, SMTT(60)
  <2>2. Cardinality({q \in {p} : InFlight(q)}) = 0
    BY <1>3, FS_EmptySet
  <2> QED
    BY <2>1, <2>2
<1> QED
  BY <1>2, <1>4 DEF Leaves

\* Nobody leaves.
LEMMA NobodyLeaves ==
    ASSUME TableInv, UNCHANGED <<program, next, dropped, table, at, owed>>
    PROVE  Leaves({})
<1> USE ZenonT(60)
<1>1. at \in [Procs -> Place] /\ owed \in Nat
  BY DEF TableInv, TableTyped
<1>2. at' = [q \in Procs |-> IF q \in {} THEN Idle(0) ELSE at[q]]
  BY <1>1, ZenonT(60)
<1>3. {q \in {} : InFlight(q)} = {}
  BY ZenonT(60)
<1>4. owed' = owed - Cardinality({q \in {} : InFlight(q)})
  <2>1. owed - 0 = owed
    BY <1>1, SMTT(60)
  <2>2. Cardinality({q \in {} : InFlight(q)}) = 0
    BY <1>3, FS_EmptySet
  <2> QED
    BY <2>1, <2>2
<1> QED
  BY <1>2, <1>4 DEF Leaves

\* Journals that are left alone or emptied; who joins has an empty one.
LEMMA JournalsKept ==
    ASSUME Journals, journal' \in [Procs -> SUBSET Event], MaxJournal \in Nat,
           JournalsStay
    PROVE  Journals'
<1> USE ZenonT(60) DEF JournalsStay
<1>1. ASSUME NEW q \in Procs PROVE JournalOf(q)'
  <2>1. CASE journal'[q] = {}
    <3>1. IsFiniteSet(journal'[q]) /\ Cardinality(journal'[q]) <= MaxJournal
      BY <2>1, FS_EmptySet, Ordered
    <3> QED
      BY <2>1, <3>1, ZenonT(60) DEF JournalOf
  <2>2. CASE /\ journal'[q] = journal[q]
             /\ q \in running' => q \in running /\ at'[q] = at[q]
    <3>1. JournalOf(q)
      BY DEF Journals
    <3> QED
      BY <2>2, <3>1 DEF JournalOf
  <2> QED
    BY <2>1, <2>2
<1> QED
  BY <1>1 DEF Journals

\* Whoever dies, and wherever, the tables stay sound.
LEMMA LeavesTable ==
    ASSUME TableInv, NEW dead \in SUBSET Procs, Leaves(dead), running' \in SUBSET Procs, Journals'
    PROVE  TableInv' /\ NoneFires /\ program' = program
<1> USE ZenonT(60)
<1>1. /\ TableTyped /\ ClaimedBelow /\ Unpublished /\ Owned /\ Apart /\ Used /\ Awaited
      /\ Unmarked /\ Ahead /\ NextSound /\ NothingLost
  BY DEF TableInv
<1>2. program' = program /\ next' = next /\ dropped' = dropped /\ table' = table
  BY DEF Leaves
<1>3. /\ Index' = Index /\ Place' = Place /\ next \in Nat /\ dropped \in Nat /\ owed \in Nat
      /\ program.capacity \in Nat
  BY <1>1, <1>2, ProgramFacts DEF Index, Place, TableTyped, ProgramSound
<1>4. Idle(0) \in Place /\ Idle(0).pc = "idle"
  BY <1>1, IdleFields
<1>5. \A q \in Procs : at'[q] = at[q] \/ at'[q] = Idle(0)
  BY <1>4, ZenonT(60) DEF Leaves
<1>6. at' \in [Procs -> Place]
  BY <1>1, <1>4, ZenonT(60) DEF Leaves, TableTyped
<1>7. \A q \in Procs : at'[q].pc = "idle" \/ at'[q] = at[q]
  BY <1>4, <1>5
<1>8. /\ \A q \in Procs : Owns(q)' => Owns(q) /\ at'[q] = at[q]
      /\ \A q \in Procs : Uses(q)' => Uses(q) /\ at'[q] = at[q]
      /\ \A q \in Procs : Awaits(q)' => Awaits(q) /\ at'[q] = at[q]
  BY <1>7, ZenonT(60) DEF Owns, Uses, Awaits
<1>9. ClaimedBelow' /\ Unpublished' /\ Apart'
  BY <1>1, <1>2, <1>3, <1>8 DEF ClaimedBelow, Unpublished, Apart
<1>10. ASSUME NEW q \in Procs PROVE OwnedBy(q)' /\ UsedBy(q)' /\ AwaitedBy(q)' /\ AheadOf(q)'
  <2>1. OwnedBy(q) /\ UsedBy(q) /\ AwaitedBy(q) /\ AheadOf(q)
    BY <1>1 DEF Owned, Used, Awaited, Ahead
  <2>2. CASE at'[q] = at[q]
    <3>1. WillMeet(q) => WillMeet(q)'
      BY <1>2, <1>3, <2>2 DEF WillMeet, Ready
    <3> QED
      BY <1>2, <2>1, <2>2, <3>1 DEF OwnedBy, UsedBy, AwaitedBy, AheadOf, Owns, Uses, Awaits
  <2>3. CASE at'[q].pc = "idle"
    BY <2>3, ZenonT(60) DEF OwnedBy, UsedBy, AwaitedBy, AheadOf, Owns, Uses, Awaits
  <2> QED
    BY <1>7, <2>2, <2>3
<1>11. Owned' /\ Used' /\ Awaited' /\ Ahead'
  BY <1>10 DEF Owned, Used, Awaited, Ahead
<1>12. Unmarked'
  <2>1. \A q \in Procs : at'[q].pc = "mark" => at'[q] = at[q]
    BY <1>7, ZenonT(60)
  <2> QED
    BY <1>1, <1>8, <2>1 DEF Unmarked
<1>13. NextSound'
  <2>1. Overdrawn' \in SUBSET Overdrawn /\ Overdrawn \in SUBSET Procs
    BY <1>7, ZenonT(60) DEF Overdrawn
  <2>2. IsFiniteSet(Overdrawn)
    BY <2>1, ExplorerAssumption, FS_Subset
  <2>3. IsFiniteSet(Overdrawn') /\ Cardinality(Overdrawn') <= Cardinality(Overdrawn)
    BY <2>1, <2>2, FS_Subset
  <2>4. PICK a \in Nat, b \in Nat : a = Cardinality(Overdrawn) /\ b = Cardinality(Overdrawn') /\ b <= a
    BY <2>2, <2>3, FS_CardinalityType
  <2>5. CASE Overdrawn = {}
    BY <2>1, <2>5, ZenonT(60) DEF NextSound
  <2>6. CASE next >= program.capacity + a
    <3>1. next >= program.capacity + b
      BY <1>3, <2>4, <2>6, Above
    <3> QED
      BY <1>2, <2>4, <3>1 DEF NextSound
  <2> QED
    BY <1>1, <2>4, <2>5, <2>6 DEF NextSound
<1>14. NothingLost' /\ owed' \in Nat
  <2> DEFINE lost == {p \in dead : InFlight(p)}
  <2>1. Busy \in SUBSET Procs /\ Busy \cap lost = lost /\ Busy' = Busy \ lost
    BY <1>4, ZenonT(60) DEF Busy, InFlight, Leaves
  <2>2. IsFiniteSet(Busy)
    BY <2>1, ExplorerAssumption, FS_Subset
  <2>3. IsFiniteSet(Busy') /\ Cardinality(Busy') = Cardinality(Busy) - Cardinality(lost)
    <3>1. \A T : IsFiniteSet(Busy \ T)
                 /\ Cardinality(Busy \ T) = Cardinality(Busy) - Cardinality(Busy \cap T)
      BY <2>2, FS_Difference
    <3>2. IsFiniteSet(Busy \ lost)
          /\ Cardinality(Busy \ lost) = Cardinality(Busy) - Cardinality(Busy \cap lost)
      BY <3>1
    <3> HIDE DEF lost
    <3> QED
      BY <2>1, <3>2
  <2>4. lost \in SUBSET Busy
    BY <2>1, ZenonT(60)
  <2>5. owed' = owed - Cardinality(lost)
    BY DEF Leaves
  <2> HIDE DEF lost
  <2>6. IsFiniteSet(lost)
    BY <2>2, <2>4, FS_Subset
  <2>7. PICK a \in Nat, b \in Nat, c \in Nat :
            a = Cardinality(Busy) /\ b = Cardinality(Busy') /\ c = Cardinality(lost)
    BY <2>2, <2>3, <2>6, FS_CardinalityType
  <2>8. \A e \in Index : table'[e].count = table[e].count
    BY <1>2
  <2>9. Total' = Total /\ Total \in Nat
    BY <1>1, <1>2, <2>8, TotalSame, TotalType DEF SameCounts
  <2>10. PICK t \in Nat : t = Total
    BY <2>9
  <2>11. owed = t + dropped + a
    BY <1>1, <2>7, <2>10 DEF NothingLost, Total, Busy
  <2>12. owed' = t + dropped + b /\ t + dropped + b \in Nat
    <3>1. owed' = (t + dropped + a) - c /\ b = a - c
      BY <2>3, <2>5, <2>7, <2>11
    <3>2. PICK s \in Nat : s = t + dropped
      BY <1>3, Pair
    <3>3. (s + a) - c = s + (a - c)
      BY Withdraw
    <3>4. s + b \in Nat
      BY Pair
    <3> QED
      BY <3>1, <3>2, <3>3, <3>4
  <2>13. owed' = Total' + dropped' + Cardinality(Busy')
    BY <1>2, <2>7, <2>9, <2>10, <2>12
  <2> QED
    BY <2>12, <2>13 DEF NothingLost, Total, Busy
<1>15. TableTyped'
  <2>1. \A q \in Procs : at'[q].pc # "idle" => at'[q].site \in Sites
    BY <1>1, <1>7 DEF TableTyped
  <2> QED
    BY <1>1, <1>2, <1>3, <1>6, <1>14, <2>1 DEF TableTyped
<1>16. NoneFires
  BY <1>2 DEF NoneFires
<1> QED
  BY <1>2, <1>9, <1>11, <1>12, <1>13, <1>14, <1>15, <1>16 DEF TableInv

\* The region starts zeroed, and every process idle.
LEMMA InitTable ==
    ASSUME Init
    PROVE  TableInv
<1> USE ZenonT(60)
<1>1. /\ program \in Programs /\ next = 0 /\ dropped = 0 /\ owed = 0 /\ running = {Controller}
      /\ table = [e \in Index |-> Zeroed] /\ at = [p \in Procs |-> Idle(0)]
      /\ journal = [p \in Procs |-> {}]
  BY DEF Init, TableInit, Index
<1>2. {program.runs, program.capacity} \subseteq Nat \ {0} /\ MaxJournal \in Nat \ {0}
  BY <1>1, TableAssumption
<1>3. 0 \in Index /\ 0 \in 0 .. program.capacity
  BY <1>2, FromZero DEF Index
<1>4. Idle(0) \in Place
  <2>1. {0} \subseteq 0 .. 3 /\ 0 \in Nat
    BY FromZero
  <2> QED
    BY <1>3, <2>1, ZenonT(60) DEF Idle, Place, NoSite
<1>5. Zeroed \in Entry
  BY SMT DEF Zeroed, Entry
<1>6. TableTyped
  <2>1. \A p \in Procs : at[p].pc = "idle"
    BY <1>1, ZenonT(60) DEF Idle
  <2>2. running \in SUBSET Procs
    BY <1>1, ExplorerAssumption, ZenonT(60)
  <2>3. table \in [Index -> Entry]
    BY <1>1, <1>5, ZenonT(60)
  <2>4. at \in [Procs -> Place]
    BY <1>1, <1>4, ZenonT(60)
  <2>5. next \in Nat /\ dropped \in Nat /\ owed \in Nat
    BY <1>1, ZenonT(60)
  <2> QED
    BY <1>1, <2>1, <2>2, <2>3, <2>4, <2>5 DEF TableTyped
<1>7. \A p \in Procs : at[p].pc = "idle" /\ ~at[p].known /\ journal[p] = {}
  BY <1>1, ZenonT(60) DEF Idle
<1>8. \A e \in Index : table[e].state = "unused" /\ table[e].count = 0
  BY <1>1, ZenonT(60) DEF Zeroed
<1>9. NextSound
  <2>1. Overdrawn = {}
    BY <1>7, ZenonT(60) DEF Overdrawn
  <2> QED
    BY <2>1 DEF NextSound
<1>10. \A p \in Procs : ~Owns(p) /\ ~Uses(p) /\ ~Awaits(p) /\ ~InFlight(p)
  BY <1>7, ZenonT(60) DEF Owns, Uses, Awaits, InFlight
<1>11. ClaimedBelow
  BY <1>8, <1>10, ZenonT(60) DEF ClaimedBelow
<1>12. Unpublished
  BY <1>8, ZenonT(60) DEF Unpublished
<1>13. Owned /\ Apart
  BY <1>7, <1>10, ZenonT(60) DEF Owned, OwnedBy, Apart
<1>14. Used /\ Awaited /\ Unmarked /\ Ahead
  BY <1>7, <1>10, ZenonT(60) DEF Used, UsedBy, Awaited, AwaitedBy, Unmarked, Ahead, AheadOf
<1>15. Journals
  <2>1. IsFiniteSet({}) /\ Cardinality({}) = 0
    BY FS_EmptySet
  <2>2. 0 <= MaxJournal
    BY <1>2, SMT
  <2>3. Cardinality({}) <= MaxJournal
    BY <2>1, <2>2
  <2>4. \A p \in Procs : JournalOf(p)
    <3>1. ASSUME NEW p \in Procs PROVE JournalOf(p)
      <4>1. journal[p] = {}
        BY <1>7
      <4> QED
        BY <2>1, <2>3, <4>1 DEF JournalOf
    <3> QED
      BY <3>1
  <2>5. journal \in [Procs -> SUBSET Event]
    BY <1>1, ZenonT(60)
  <2> QED
    BY <2>4, <2>5 DEF Journals
<1>16. NothingLost
  <2> DEFINE f == [e \in Index |-> table[e].count]
  <2>1. IsFiniteSet(Index)
    BY <1>6, ProgramFacts DEF ProgramSound
  <2>2. \A e \in Index : f[e] = 0
    BY <1>8, ZenonT(60)
  <2> HIDE DEF f
  <2>3. SumFunctionOnSet(f, Index) = 0
    BY <2>1, <2>2, SumZero
  <2>4. {p \in Procs : InFlight(p)} = {}
    BY <1>10, ZenonT(60)
  <2>5. Cardinality({p \in Procs : InFlight(p)}) = 0
    BY <2>4, FS_EmptySet
  <2>6. owed = SumFunctionOnSet(f, Index) + dropped + Cardinality({p \in Procs : InFlight(p)})
    BY <1>1, <2>3, <2>5, NotZero
  <2> QED
    BY <2>6 DEF NothingLost, f
<1> QED
  BY <1>6, <1>9, <1>11, <1>12, <1>13, <1>14, <1>15, <1>16 DEF TableInv

=============================================================================
