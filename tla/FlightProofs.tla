---------------------------- MODULE FlightProofs ----------------------------
(***************************************************************************)
(* Flight, for every window, latency, duration and setting: the window     *)
(* accounts for every byte, and the stream keeps its order and its end.    *)
(***************************************************************************)
EXTENDS FlightInvariant, WellFoundedInduction, TLAPS

-----------------------------------------------------------------------------
(* Induction.                                                              *)

\* No sequence of natural numbers goes down for ever.
LEMMA Descent == IsWellFoundedOn({ss \in Nat \X Nat : ss[1] < ss[2]}, Nat)
BY NatLessThanWellFounded DEF OpToRel

\* A nonempty set of natural numbers has a least element.
LEMMA Smallest ==
    ASSUME NEW S \in SUBSET Nat, S # {}
    PROVE  \E m \in S : \A k \in S : m <= k
<1> DEFINE R == {ss \in Nat \X Nat : ss[1] < ss[2]}
<1>1. PICK m \in S : \A k \in S : ~(<<k, m>> \in R)
  BY Descent, WFMin, Zenon
<1>2. \A j, k \in Nat : <<j, k>> \in R <=> j < k
  OBVIOUS
<1>3. \A j, k \in Nat : ~(j < k) => k <= j
  OBVIOUS
<1> QED
  BY <1>1, <1>2, <1>3, Zenon

\* A set with 0 that is closed under successor holds every natural number.
LEMMA SetInduction ==
    ASSUME NEW S, 0 \in S, \A n \in Nat : n \in S => n + 1 \in S
    PROVE  Nat \subseteq S
<1>1. SUFFICES ASSUME Nat \ S # {} PROVE FALSE
  OBVIOUS
<1>2. PICK m \in Nat \ S : \A k \in Nat \ S : m <= k
  BY <1>1, Smallest, Zenon
<1>3. m # 0 /\ m - 1 \in Nat
  OBVIOUS
<1>4. m - 1 \in S
  BY <1>2, <1>3
<1> QED
  BY <1>3, <1>4

-----------------------------------------------------------------------------
(* Counts and sequences, once for the leaves below.                        *)

\* Bytes that are counted are added up.
LEMMA SumNat == \A a, b \in Nat : a + b \in Nat
BY SMT

\* Bytes that are taken from a window.
LEMMA WindowLess == \A w \in Int : \A n \in Nat : w - n \in Int
BY SMT

\* The bytes of one sequence after those of another one.
LEMMA Concatenated == \A S : \A s, t \in Seq(S) : s \o t \in Seq(S) /\ Len(t) \in Nat
BY SMT

\* What is left when the first n bytes are read.
LEMMA Remaining == \A S : \A s \in Seq(S) : \A n \in 1 .. Len(s) : SubSeq(s, n + 1, Len(s)) \in Seq(S)
BY SMT

-----------------------------------------------------------------------------
(* The bytes of a sequence of chunks.                                      *)

\* Sequences of the same length and elements are the same.
LEMMA SameSeq ==
    ASSUME NEW S, NEW s \in Seq(S), NEW t \in Seq(S),
           Len(s) = Len(t), \A i \in 1 .. Len(s) : s[i] = t[i]
    PROVE  s = t
  OBVIOUS

\* A sequence is its first n elements followed by the others.
LEMMA SubSeqJoin ==
    ASSUME NEW S, NEW s \in Seq(S), NEW n \in 0 .. Len(s)
    PROVE  SubSeq(s, 1, n) \o SubSeq(s, n + 1, Len(s)) = s
<1> DEFINE a == SubSeq(s, 1, n)
           b == SubSeq(s, n + 1, Len(s))
<1>1. a \in Seq(S) /\ Len(a) = n /\ \A i \in 1 .. n : a[i] = s[i]
  OBVIOUS
<1>2. b \in Seq(S) /\ Len(b) = Len(s) - n /\ \A i \in 1 .. (Len(s) - n) : b[i] = s[n + i]
  OBVIOUS
<1> HIDE DEF a, b
<1>3. a \o b \in Seq(S) /\ Len(a \o b) = Len(s)
  <2>1. a \in Seq(S) /\ b \in Seq(S)
    BY <1>1, <1>2, Zenon
  <2>2. Len(a) = n /\ Len(b) = Len(s) - n
    BY <1>1, <1>2, Zenon
  <2>3. a \o b \in Seq(S) /\ Len(a \o b) = Len(a) + Len(b)
    BY <2>1
  <2>4. n \in Int /\ Len(s) \in Int
    OBVIOUS
  <2>5. n + (Len(s) - n) = Len(s)
    BY <2>4
  <2> QED
    BY <2>2, <2>3, <2>5, Zenon
<1>4. ASSUME NEW i \in 1 .. Len(s) PROVE (a \o b)[i] = s[i]
  <2>1. CASE i <= n
    <3>1. (a \o b)[i] = a[i] /\ i \in 1 .. n
      BY <1>1, <1>2, <2>1
    <3> QED
      BY <1>1, <3>1
  <2>2. CASE ~(i <= n)
    <3>1. (a \o b)[i] = b[i - n] /\ i - n \in 1 .. (Len(s) - n) /\ n + (i - n) = i
      BY <1>1, <1>2, <2>2
    <3> QED
      BY <1>2, <3>1
  <2> QED
    BY <2>1, <2>2, Zenon
<1>5. a \o b = s
  BY <1>3, <1>4, SameSeq, Zenon
<1> QED
  BY <1>5, Zenon DEF a, b

\* The function FlattenSeq is defined with exists.
LEMMA FlatExists ==
    ASSUME NEW s, NEW n \in Nat
    PROVE  \E f : FlatTo(f, s, n)
<1> DEFINE N == {k \in Nat : \E f : FlatTo(f, s, k)}
<1>1. 0 \in N
  <2> DEFINE f == [i \in 1 .. 0 |-> s[i]]
  <2>1. f = [i \in 1 .. 0 |-> IF i = 1 THEN s[i] ELSE f[i - 1] \o s[i]]
    <3>1. 1 .. 0 = {}
      OBVIOUS
    <3> QED
      BY <3>1, Zenon
  <2> QED
    BY <2>1, Zenon DEF FlatTo
<1>2. ASSUME NEW k \in Nat, k \in N PROVE k + 1 \in N
  <2>1. PICK f : FlatTo(f, s, k)
    BY <1>2, Zenon
  <2> DEFINE At(h, i) == IF i = 1 THEN s[i] ELSE h[i - 1] \o s[i]
             g == [i \in 1 .. (k + 1) |-> At(f, i)]
  <2>2. ASSUME NEW i \in 1 .. (k + 1) PROVE At(f, i) = At(g, i)
    <3>1. i # 1 => i - 1 \in 1 .. k /\ i - 1 \in 1 .. (k + 1)
      OBVIOUS
    <3>2. ASSUME i # 1 PROVE f[i - 1] = g[i - 1]
      BY <2>1, <3>1, <3>2, Zenon DEF FlatTo
    <3> QED
      BY <3>2, Zenon
  <2>3. g = [i \in 1 .. (k + 1) |-> At(g, i)]
    BY <2>2, Zenon
  <2> HIDE DEF g
  <2>4. FlatTo(g, s, k + 1)
    BY <2>3, Zenon DEF FlatTo
  <2>5. k + 1 \in Nat
    OBVIOUS
  <2> QED
    BY <2>4, <2>5, Zenon
<1> HIDE DEF N
<1>3. Nat \subseteq N
  BY <1>1, <1>2, SetInduction, Zenon
<1> QED
  BY <1>3, Zenon DEF N

\* What FlattenSeq is, of a sequence that is not empty.
LEMMA FlatValue ==
    ASSUME NEW s, Len(s) \in Nat, Len(s) # 0
    PROVE  \E f : FlatTo(f, s, Len(s)) /\ FlattenSeq(s) = f[Len(s)]
<1> DEFINE g == CHOOSE f : FlatTo(f, s, Len(s))
<1>1. FlatTo(g, s, Len(s))
  BY FlatExists, Zenon
<1>2. s # <<>>
  OBVIOUS
<1>3. FlattenSeq(s) = g[Len(s)]
  BY <1>2, Zenon DEF FlattenSeq, FlatTo
<1> QED
  BY <1>1, <1>3, Zenon

\* The values of the function.
LEMMA FlatSteps ==
    ASSUME NEW f, NEW s, NEW n \in Nat, FlatTo(f, s, n)
    PROVE  Grows(f, s, n)
<1>1. \A i \in 1 .. n : f[i] = IF i = 1 THEN s[i] ELSE f[i - 1] \o s[i]
  BY Zenon DEF FlatTo
<1>2. \A i \in 1 .. n : i + 1 # 1 /\ (i + 1) - 1 = i
  OBVIOUS
<1>3. n >= 1 => 1 \in 1 .. n
  OBVIOUS
<1> QED
  BY <1>1, <1>2, <1>3, Zenon DEF Grows

\* Sequences with the same first chunks have the same first bytes.
LEMMA FlatAgree ==
    ASSUME NEW f, NEW s, NEW m \in Nat, FlatTo(f, s, m),
           NEW g, NEW t, NEW n \in Nat, FlatTo(g, t, n),
           NEW k \in Nat, k <= m, k <= n, Agree(s, t, k)
    PROVE  Agree(f, g, k)
<1> USE DEF Agree
<1> DEFINE N == {j \in Nat : j + 1 \in 1 .. k => f[j + 1] = g[j + 1]}
<1>0. Grows(f, s, m) /\ Grows(g, t, n)
  BY FlatSteps, Zenon
<1>5. \A i \in 1 .. m : i + 1 \in 1 .. m => f[i + 1] = f[i] \o s[i + 1]
  BY <1>0, Zenon DEF Grows
<1>6. \A i \in 1 .. n : i + 1 \in 1 .. n => g[i + 1] = g[i] \o t[i + 1]
  BY <1>0, Zenon DEF Grows
<1>1. 0 \in N
  <2>1. 0 + 1 = 1 /\ 0 \in Nat
    OBVIOUS
  <2>2. 1 \in 1 .. k => m >= 1 /\ n >= 1
    OBVIOUS
  <2>3. (m >= 1 => f[1] = s[1]) /\ (n >= 1 => g[1] = t[1])
    BY <1>0, Zenon DEF Grows
  <2> QED
    BY <2>1, <2>2, <2>3, Zenon
<1>2. ASSUME NEW j \in Nat, j \in N PROVE j + 1 \in N
  <2>0. j + 1 \in Nat
    OBVIOUS
  <2>1. SUFFICES ASSUME (j + 1) + 1 \in 1 .. k PROVE f[(j + 1) + 1] = g[(j + 1) + 1]
    BY <2>0, Zenon
  <2>2. j + 1 \in 1 .. k /\ j + 1 \in 1 .. m /\ j + 1 \in 1 .. n
        /\ (j + 1) + 1 \in 1 .. m /\ (j + 1) + 1 \in 1 .. n
    BY <2>1
  <2>3. f[j + 1] = g[j + 1]
    BY <1>2, <2>2, Zenon
  <2>4. f[(j + 1) + 1] = f[j + 1] \o s[(j + 1) + 1]
    BY <1>5, <2>2, Zenon
  <2>5. g[(j + 1) + 1] = g[j + 1] \o t[(j + 1) + 1]
    BY <1>6, <2>2, Zenon
  <2> QED
    BY <2>1, <2>3, <2>4, <2>5, Zenon
<1> HIDE DEF N
<1>3. Nat \subseteq N
  BY <1>1, <1>2, SetInduction, Zenon
<1>4. \A i \in 1 .. k : i - 1 \in Nat /\ (i - 1) + 1 = i
  OBVIOUS
<1> QED
  BY <1>3, <1>4, Zenon DEF N

\* No chunks are no bytes.
LEMMA FlatEmpty == FlattenSeq(<<>>) = <<>>
BY Zenon DEF FlattenSeq

\* Chunks of bytes are bytes.
LEMMA FlatType ==
    ASSUME NEW S, NEW s \in Seq(Seq(S))
    PROVE  FlattenSeq(s) \in Seq(S)
<1>1. CASE s = <<>>
  <2>1. <<>> \in Seq(S)
    OBVIOUS
  <2> QED
    BY <1>1, <2>1, FlatEmpty, Zenon
<1>2. CASE s # <<>>
  <2>1. Len(s) \in Nat /\ Len(s) # 0 /\ \A i \in 1 .. Len(s) : s[i] \in Seq(S)
    BY <1>2
  <2>2. PICK f : FlatTo(f, s, Len(s)) /\ FlattenSeq(s) = f[Len(s)]
    BY <2>1, FlatValue, Zenon
  <2> DEFINE N == {j \in Nat : j + 1 \in 1 .. Len(s) => f[j + 1] \in Seq(S)}
  <2>3. 0 \in N
    <3>1. 0 + 1 = 1 /\ 0 \in Nat /\ Len(s) >= 1 /\ 1 \in 1 .. Len(s)
      BY <2>1
    <3> QED
      BY <2>1, <2>2, <3>1, FlatSteps, Zenon DEF Grows
  <2>4. ASSUME NEW j \in Nat, j \in N PROVE j + 1 \in N
    <3>0. j + 1 \in Nat
      OBVIOUS
    <3>1. SUFFICES ASSUME (j + 1) + 1 \in 1 .. Len(s) PROVE f[(j + 1) + 1] \in Seq(S)
      BY <3>0, Zenon
    <3>2. j + 1 \in 1 .. Len(s)
      BY <2>1, <3>1
    <3>3. f[j + 1] \in Seq(S) /\ s[(j + 1) + 1] \in Seq(S)
      BY <2>1, <2>4, <3>1, <3>2, Zenon
    <3>4. f[(j + 1) + 1] = f[j + 1] \o s[(j + 1) + 1]
      BY <2>1, <2>2, <3>1, <3>2, FlatSteps, Zenon DEF Grows
    <3> QED
      BY <3>3, <3>4
  <2> HIDE DEF N
  <2>5. Nat \subseteq N
    BY <2>3, <2>4, SetInduction, Zenon
  <2>6. Len(s) - 1 \in Nat /\ (Len(s) - 1) + 1 = Len(s) /\ Len(s) \in 1 .. Len(s)
    BY <2>1
  <2> QED
    BY <2>2, <2>5, <2>6, Zenon DEF N
<1> QED
  BY <1>1, <1>2, Zenon

\* Bytes are put together in any grouping.
LEMMA ConcatGroups ==
    ASSUME NEW S, NEW s \in Seq(S), NEW t \in Seq(S), NEW u \in Seq(S)
    PROVE  Together(s, t, u)
BY SMTT(60) DEF Together

\* A chunk that follows adds its bytes.
LEMMA FlatAppend ==
    ASSUME NEW S, NEW s \in Seq(Seq(S)), NEW x \in Seq(S)
    PROVE  FlattenSeq(Append(s, x)) = FlattenSeq(s) \o x
<1> DEFINE t == Append(s, x)
<1>1. /\ Len(s) \in Nat /\ Len(t) = Len(s) + 1 /\ Len(t) \in Nat /\ Len(t) # 0
      /\ \A i \in 1 .. Len(s) : s[i] = t[i]
      /\ t[Len(s) + 1] = x
  OBVIOUS
<1> HIDE DEF t
<1>2. PICK g : FlatTo(g, t, Len(t)) /\ FlattenSeq(t) = g[Len(t)]
  BY <1>1, FlatValue, Zenon
<1>3. CASE s = <<>>
  <2>1. Len(t) = 1 /\ Len(s) + 1 = 1 /\ Len(t) >= 1 /\ <<>> \o x = x
    BY <1>1, <1>3
  <2>2. g[1] = t[1]
    BY <1>1, <1>2, <2>1, FlatSteps, Zenon DEF Grows
  <2>3. t[1] = x /\ FlattenSeq(t) = t[1]
    BY <1>1, <1>2, <2>1, <2>2, Zenon
  <2> QED
    BY <1>3, <2>1, <2>3, FlatEmpty, Zenon DEF t
<1>4. CASE s # <<>>
  <2>1. Len(s) # 0 /\ Len(s) \in 1 .. Len(s) /\ Len(s) \in 1 .. Len(t) /\ Len(s) + 1 \in 1 .. Len(t)
    BY <1>1, <1>4
  <2>2. PICK f : FlatTo(f, s, Len(s)) /\ FlattenSeq(s) = f[Len(s)]
    BY <1>1, <2>1, FlatValue, Zenon
  <2>3. Len(s) <= Len(s) /\ Len(s) <= Len(t)
    BY <1>1
  <2>7. Agree(s, t, Len(s))
    BY <1>1, Zenon DEF Agree
  <2>4. Agree(f, g, Len(s))
    BY <1>1, <1>2, <2>2, <2>3, <2>7, FlatAgree, Zenon
  <2>5. \A i \in 1 .. Len(t) : i + 1 \in 1 .. Len(t) => g[i + 1] = g[i] \o t[i + 1]
    BY <1>1, <1>2, FlatSteps, Zenon DEF Grows
  <2>6. g[Len(s) + 1] = g[Len(s)] \o x
    BY <1>1, <2>1, <2>5, Zenon
  <2> QED
    BY <1>1, <1>2, <2>1, <2>2, <2>4, <2>6, Zenon DEF t, Agree
<1> QED
  BY <1>3, <1>4, Zenon

\* The bytes of some chunks and of others behind them.
LEMMA FlatConcat ==
    ASSUME NEW S, NEW s \in Seq(Seq(S)), NEW t \in Seq(Seq(S))
    PROVE  FlattenSeq(s \o t) = FlattenSeq(s) \o FlattenSeq(t)
<1> DEFINE Up(k) == SubSeq(t, 1, k)
           N == {k \in Nat : k <= Len(t) =>
                    FlattenSeq(s \o Up(k)) = FlattenSeq(s) \o FlattenSeq(Up(k))}
<1>0. FlattenSeq(s) \in Seq(S)
  BY FlatType, Zenon
<1>1. 0 \in N
  <2>1. Up(0) = <<>> /\ s \o <<>> = s /\ FlattenSeq(s) \o <<>> = FlattenSeq(s) /\ 0 \in Nat
    BY <1>0
  <2> QED
    BY <2>1, FlatEmpty, Zenon
<1>2. ASSUME NEW k \in Nat, k \in N PROVE k + 1 \in N
  <2>0. k + 1 \in Nat
    OBVIOUS
  <2>1. SUFFICES ASSUME k + 1 <= Len(t)
                 PROVE  FlattenSeq(s \o Up(k + 1)) = FlattenSeq(s) \o FlattenSeq(Up(k + 1))
    BY <2>0, Zenon
  <2>2. k <= Len(t) /\ k + 1 \in 1 .. Len(t) /\ Len(t) \in Nat
    BY <2>1
  <2>3. Up(k) \in Seq(Seq(S)) /\ t[k + 1] \in Seq(S)
    BY <2>2
  <2>4. Up(k + 1) = Append(Up(k), t[k + 1])
    BY <2>2
  <2>5. s \o Up(k) \in Seq(Seq(S)) /\ s \o Append(Up(k), t[k + 1]) = Append(s \o Up(k), t[k + 1])
    <3> DEFINE u == Up(k)
               x == t[k + 1]
    <3>1. u \in Seq(Seq(S)) /\ x \in Seq(S)
      BY <2>3
    <3> HIDE DEF u, x
    <3>2. s \o u \in Seq(Seq(S))
      BY <3>1
    <3>3. s \o Append(u, x) = Append(s \o u, x)
      BY <3>1, SMTT(60)
    <3> QED
      BY <3>2, <3>3, Zenon DEF u, x
  <2>6. FlattenSeq(s \o Up(k)) = FlattenSeq(s) \o FlattenSeq(Up(k))
    BY <1>2, <2>2, Zenon
  <2> HIDE DEF Up
  <2>7. FlattenSeq(Append(s \o Up(k), t[k + 1])) = FlattenSeq(s \o Up(k)) \o t[k + 1]
    BY <2>3, <2>5, FlatAppend, Zenon
  <2>8. FlattenSeq(Append(Up(k), t[k + 1])) = FlattenSeq(Up(k)) \o t[k + 1]
    BY <2>3, FlatAppend, Zenon
  <2>9. FlattenSeq(Up(k)) \in Seq(S)
    BY <2>3, FlatType, Zenon
  <2>10. Together(FlattenSeq(s), FlattenSeq(Up(k)), t[k + 1])
    BY <1>0, <2>3, <2>9, ConcatGroups, Zenon
  <2> QED
    BY <2>4, <2>5, <2>6, <2>7, <2>8, <2>10, Zenon DEF Together
<1>3. Len(t) \in Nat /\ Len(t) <= Len(t) /\ Up(Len(t)) = t
  OBVIOUS
<1> HIDE DEF N
<1>4. Nat \subseteq N
  BY <1>1, <1>2, SetInduction, Zenon
<1>5. Len(t) \in N
  BY <1>3, <1>4, Zenon
<1> QED
  BY <1>3, <1>5, Zenon DEF N

\* The first chunk and the others.
LEMMA FlatHead ==
    ASSUME NEW S, NEW s \in Seq(Seq(S)), s # <<>>
    PROVE  FlattenSeq(s) = Head(s) \o FlattenSeq(Tail(s))
<1>1. Head(s) \in Seq(S) /\ Tail(s) \in Seq(Seq(S)) /\ <<Head(s)>> \in Seq(Seq(S))
  OBVIOUS
<1>2. s = <<Head(s)>> \o Tail(s)
  OBVIOUS
<1>3. FlattenSeq(<<Head(s)>> \o Tail(s)) = FlattenSeq(<<Head(s)>>) \o FlattenSeq(Tail(s))
  BY <1>1, FlatConcat, Zenon
<1>4. <<>> \in Seq(Seq(S)) /\ <<Head(s)>> = Append(<<>>, Head(s)) /\ <<>> \o Head(s) = Head(s)
  BY <1>1
<1>5. FlattenSeq(<<Head(s)>>) = Head(s)
  BY <1>1, <1>4, FlatAppend, FlatEmpty, Zenon
<1> QED
  BY <1>2, <1>3, <1>5, Zenon

\* A partial write splits the first chunk and loses nothing.
LEMMA RestFlat ==
    ASSUME NEW S, NEW s \in Seq(Seq(S) \ {<<>>}), s # <<>>, NEW n \in 1 .. Len(Head(s))
    PROVE  /\ Rest(s, n) \in Seq(Seq(S) \ {<<>>})
           /\ SubSeq(Head(s), 1, n) \in Seq(S) \ {<<>>}
           /\ SubSeq(Head(s), 1, n) \o FlattenSeq(Rest(s, n)) = FlattenSeq(s)
<1>0. Head(s) \in Seq(S) \ {<<>>} /\ Tail(s) \in Seq(Seq(S) \ {<<>>})
  OBVIOUS
<1>1. s \in Seq(Seq(S)) /\ Tail(s) \in Seq(Seq(S)) /\ Len(Head(s)) \in Nat
  BY <1>0
<1> DEFINE a == SubSeq(Head(s), 1, n)
           b == SubSeq(Head(s), n + 1, Len(Head(s)))
<1>2. a \in Seq(S) \ {<<>>} /\ b \in Seq(S) /\ a \o b = Head(s)
      /\ (n # Len(Head(s)) => b # <<>>) /\ (n = Len(Head(s)) => a = Head(s))
  <2> DEFINE h == Head(s)
  <2>1. h \in Seq(S) /\ Len(h) \in Nat /\ n \in 1 .. Len(h)
    BY <1>0, <1>1, Zenon
  <2> HIDE DEF h
  <2>2. SubSeq(h, 1, n) \in Seq(S) /\ SubSeq(h, n + 1, Len(h)) \in Seq(S)
    BY <2>1
  <2>3. Len(SubSeq(h, 1, n)) = n /\ Len(SubSeq(h, n + 1, Len(h))) = Len(h) - n
    BY <2>1
  <2>4. n \in 0 .. Len(h)
    BY <2>1
  <2>5. SubSeq(h, 1, n) \o SubSeq(h, n + 1, Len(h)) = h
    BY <2>1, <2>4, SubSeqJoin, Zenon
  <2>9. \A x : Len(x) # 0 => x # <<>>
    OBVIOUS
  <2>10. n # 0 /\ (n # Len(h) => Len(h) - n # 0)
    BY <2>1
  <2>6. SubSeq(h, 1, n) # <<>>
    BY <2>3, <2>9, <2>10, Zenon
  <2>7. n # Len(h) => SubSeq(h, n + 1, Len(h)) # <<>>
    BY <2>3, <2>9, <2>10, Zenon
  <2>8. n = Len(h) => SubSeq(h, 1, n) = h
    BY <2>1
  <2> QED
    BY <2>2, <2>5, <2>6, <2>7, <2>8, Zenon DEF h
<1>3. FlattenSeq(s) = Head(s) \o FlattenSeq(Tail(s))
  BY <1>1, FlatHead, Zenon
<1>4. FlattenSeq(Tail(s)) \in Seq(S)
  BY <1>1, FlatType, Zenon
<1>5. CASE n = Len(Head(s))
  <2>1. Rest(s, n) = Tail(s)
    <3>1. <<>> \o Tail(s) = Tail(s)
      BY <1>0
    <3> QED
      BY <1>5, <3>1, Zenon DEF Rest
  <2> QED
    BY <1>0, <1>2, <1>3, <1>5, <2>1, Zenon
<1>6. CASE n # Len(Head(s))
  <2>1. Rest(s, n) = <<b>> \o Tail(s)
    BY <1>6, Zenon DEF Rest
  <2> HIDE DEF a, b
  <2>2. <<b>> \in Seq(Seq(S) \ {<<>>}) /\ <<b>> \in Seq(Seq(S))
    BY <1>2, <1>6
  <2>3. <<b>> \o Tail(s) \in Seq(Seq(S) \ {<<>>})
    BY <1>0, <2>2
  <2>4. <<>> \in Seq(Seq(S)) /\ <<b>> = Append(<<>>, b) /\ <<>> \o b = b
    BY <1>2
  <2>5. FlattenSeq(<<b>>) = b
    BY <1>2, <2>4, FlatAppend, FlatEmpty, Zenon
  <2>6. FlattenSeq(<<b>> \o Tail(s)) = b \o FlattenSeq(Tail(s))
    BY <1>1, <2>2, <2>5, FlatConcat, Zenon
  <2>9. a \in Seq(S) /\ b \in Seq(S)
    BY <1>2, Zenon
  <2>7. Together(a, b, FlattenSeq(Tail(s)))
    BY <1>4, <2>9, ConcatGroups, Zenon
  <2>8. a \o FlattenSeq(Rest(s, n)) = FlattenSeq(s)
    BY <1>2, <1>3, <2>1, <2>6, <2>7, Zenon DEF Together
  <2> QED
    BY <1>2, <2>1, <2>3, <2>8, Zenon DEF a
<1> QED
  BY <1>5, <1>6, Zenon

-----------------------------------------------------------------------------
(* What is under way.                                                      *)

\* The fields of one end's ConnectionState have the types the record declares.
LEMMA ConnFields ==
    ASSUME NEW S, NEW R, NEW c \in Conn(S, R)
    PROVE  FieldTypes(c, S, R)
BY DEF Conn, FieldTypes

\* There are two ends, and each is the peer of the other.
LEMMA PeerFacts ==
    \A e \in Ends : /\ Peer(e) \in Ends /\ Peer(e) # e /\ Peer(Peer(e)) = e
                    /\ \A x \in Ends : x = e \/ x = Peer(e)
BY DEF Ends, Peer

\* max of two numbers, as the scheduling of arrivals after last_arrival takes it.
LEMMA MaxPair ==
    ASSUME NEW a \in Int, NEW b \in Int
    PROVE  Max({a, b}) \in {a, b} /\ Max({a, b}) >= a /\ Max({a, b}) >= b
<1>1. \E x \in {a, b} : \A y \in {a, b} : x >= y
  OBVIOUS
<1> QED
  BY <1>1 DEF Max

\* min of two numbers, as poll_write takes it of the write and the room left.
LEMMA MinPair ==
    ASSUME NEW a \in Int, NEW b \in Int
    PROVE  Min({a, b}) \in {a, b} /\ Min({a, b}) <= a /\ Min({a, b}) <= b
<1>1. \E x \in {a, b} : \A y \in {a, b} : x <= y
  OBVIOUS
<1> QED
  BY <1>1 DEF Min

\* The payloads of a send buffer or of what is in flight, entry by entry.
LEMMA DataFacts ==
    ASSUME NEW S, NEW q \in Seq(Item(S))
    PROVE  Data(q) \in Seq(Seq(S)) /\ Len(Data(q)) = Len(q)
           /\ \A i \in 1 .. Len(q) : Data(q)[i] = q[i].data
<1>1. Len(q) \in Nat /\ DOMAIN q = 1 .. Len(q) /\ \A i \in 1 .. Len(q) : q[i] \in Item(S)
  OBVIOUS
<1>2. \A i \in 1 .. Len(q) : q[i].data \in Seq(S)
  BY <1>1 DEF Item
<1> QED
  BY <1>1, <1>2 DEF Data

\* Queueing one more entry puts its payload last.
LEMMA DataAppend ==
    ASSUME NEW S, NEW q \in Seq(Item(S)), NEW x \in Item(S)
    PROVE  Data(Append(q, x)) = Append(Data(q), x.data) /\ x.data \in Seq(S)
<1>1. x.data \in Seq(S)
  BY DEF Item
<1>2. Append(q, x) \in Seq(Item(S)) /\ Len(Append(q, x)) = Len(q) + 1 /\ Len(q) \in Nat
      /\ \A i \in 1 .. Len(q) : Append(q, x)[i] = q[i]
      /\ Append(q, x)[Len(q) + 1] = x
  OBVIOUS
<1> DEFINE r == Append(q, x)
           a == Data(r)
           b == Append(Data(q), x.data)
<1>3. a \in Seq(Seq(S)) /\ Len(a) = Len(q) + 1 /\ \A i \in 1 .. Len(q) + 1 : a[i] = r[i].data
  <2> HIDE DEF r
  <2>1. r \in Seq(Item(S)) /\ Len(r) = Len(q) + 1
    BY <1>2 DEF r
  <2> QED
    BY <2>1, DataFacts, Zenon
<1>4. Data(q) \in Seq(Seq(S)) /\ Len(Data(q)) = Len(q) /\ \A i \in 1 .. Len(q) : Data(q)[i] = q[i].data
  BY DataFacts, Zenon
<1>5. b \in Seq(Seq(S)) /\ Len(b) = Len(q) + 1 /\ b[Len(q) + 1] = x.data
      /\ \A i \in 1 .. Len(q) : b[i] = Data(q)[i]
  BY <1>1, <1>2, <1>4
<1> HIDE DEF a, b
<1>6. \A i \in 1 .. Len(q) + 1 : i \in 1 .. Len(q) \/ i = Len(q) + 1
  BY <1>2
<1>7. ASSUME NEW i \in 1 .. Len(q) + 1 PROVE a[i] = b[i]
  <2>1. a[i] = r[i].data
    BY <1>3, Zenon
  <2>2. CASE i \in 1 .. Len(q)
    BY <1>2, <1>4, <1>5, <2>1, <2>2, Zenon
  <2>3. CASE i = Len(q) + 1
    <3>1. r[i] = x /\ b[i] = x.data
      BY <1>2, <1>5, <2>3
    <3> QED
      BY <2>1, <3>1, Zenon
  <2> QED
    BY <1>6, <2>2, <2>3, Zenon
<1>8. a = b
  BY <1>3, <1>5, <1>7, SameSeq
<1> QED
  BY <1>1, <1>8, Zenon DEF a, b

\* The first n items and the others.
LEMMA DataSplit ==
    ASSUME NEW S, NEW q \in Seq(Item(S)), NEW n \in 0 .. Len(q)
    PROVE  /\ SubSeq(q, 1, n) \in Seq(Item(S)) /\ SubSeq(q, n + 1, Len(q)) \in Seq(Item(S))
           /\ Data(q) = Data(SubSeq(q, 1, n)) \o Data(SubSeq(q, n + 1, Len(q)))
<1> DEFINE f == SubSeq(q, 1, n)
           g == SubSeq(q, n + 1, Len(q))
<1>1. /\ f \in Seq(Item(S)) /\ g \in Seq(Item(S)) /\ Len(q) \in Nat
      /\ Len(f) = n /\ Len(g) = Len(q) - n /\ n \in Nat /\ n <= Len(q)
      /\ \A i \in 1 .. n : f[i] = q[i]
      /\ \A i \in 1 .. (Len(q) - n) : g[i] = q[n + i]
  OBVIOUS
<1> HIDE DEF f, g
<1>2. Data(f) \in Seq(Seq(S)) /\ Len(Data(f)) = n /\ \A i \in 1 .. n : Data(f)[i] = q[i].data
  <2>1. Data(f) \in Seq(Seq(S)) /\ Len(Data(f)) = Len(f) /\ \A i \in 1 .. Len(f) : Data(f)[i] = f[i].data
    BY <1>1, DataFacts, Zenon
  <2> QED
    BY <1>1, <2>1, Zenon
<1>3. Data(g) \in Seq(Seq(S)) /\ Len(Data(g)) = Len(q) - n
      /\ \A i \in 1 .. (Len(q) - n) : Data(g)[i] = q[n + i].data
  <2>1. Data(g) \in Seq(Seq(S)) /\ Len(Data(g)) = Len(g) /\ \A i \in 1 .. Len(g) : Data(g)[i] = g[i].data
    BY <1>1, DataFacts, Zenon
  <2> QED
    BY <1>1, <2>1, Zenon
<1>4. Data(q) \in Seq(Seq(S)) /\ Len(Data(q)) = Len(q) /\ \A i \in 1 .. Len(q) : Data(q)[i] = q[i].data
  BY DataFacts, Zenon
<1> DEFINE a == Data(f) \o Data(g)
<1>5. a \in Seq(Seq(S)) /\ Len(a) = Len(q) /\ \A i \in 1 .. Len(q) : a[i] = q[i].data
  <2> DEFINE u == Data(f)
             v == Data(g)
  <2> HIDE DEF u, v
  <2>1. u \in Seq(Seq(S)) /\ v \in Seq(Seq(S)) /\ Len(u) = n /\ Len(v) = Len(q) - n
    BY <1>2, <1>3, Zenon DEF u, v
  <2>2. /\ u \o v \in Seq(Seq(S)) /\ Len(u \o v) = Len(q)
        /\ \A i \in 1 .. n : (u \o v)[i] = u[i]
        /\ \A i \in 1 .. Len(q) : ~(i \in 1 .. n) => (u \o v)[i] = v[i - n]
    BY <1>1, <2>1, SMTT(60)
  <2>3. \A i \in 1 .. Len(q) : ~(i \in 1 .. n) => i - n \in 1 .. (Len(q) - n) /\ n + (i - n) = i
    BY <1>1
  <2> QED
    BY <1>2, <1>3, <2>2, <2>3, ZenonT(60) DEF u, v
<1> HIDE DEF a
<1>6. Data(q) = a
  BY <1>4, <1>5, SameSeq
<1> QED
  BY <1>1, <1>6, Zenon DEF a, f, g

\* Re-timing changes no bytes.
LEMMA DataSame ==
    ASSUME NEW q, NEW r, DOMAIN r = DOMAIN q, \A i \in DOMAIN q : r[i].data = q[i].data
    PROVE  Data(r) = Data(q)
BY Zenon DEF Data

\* The bytes under way are bytes.
LEMMA WayType ==
    ASSUME NEW S, NEW c, c.queue \in Seq(Seq(S) \ {<<>>}), c.flight \in Seq(Item(S))
    PROVE  /\ FlattenSeq(c.queue) \in Seq(S) /\ Fly(c) \in Seq(S) /\ Way(c) \in Seq(S)
           /\ c.queue \in Seq(Seq(S)) /\ Data(c.flight) \in Seq(Seq(S))
<1>1. c.queue \in Seq(Seq(S))
  OBVIOUS
<1>2. Data(c.flight) \in Seq(Seq(S))
  BY DataFacts, Zenon
<1>3. FlattenSeq(c.queue) \in Seq(S) /\ Fly(c) \in Seq(S)
  BY <1>1, <1>2, FlatType, Zenon DEF Fly
<1>4. \A s, t \in Seq(S) : s \o t \in Seq(S)
  OBVIOUS
<1> QED
  BY <1>1, <1>2, <1>3, <1>4, Zenon DEF Way

\* put_in_flight adds the bytes of the item to the flight.
LEMMA FlyPut ==
    ASSUME NEW S, NEW c, c.flight \in Seq(Item(S)), NEW x \in Item(S),
           NEW d, d.flight = Append(c.flight, x)
    PROVE  Fly(d) = Fly(c) \o x.data
<1>1. Data(d.flight) = Append(Data(c.flight), x.data) /\ x.data \in Seq(S)
  BY DataAppend, Zenon
<1>2. Data(c.flight) \in Seq(Seq(S))
  BY DataFacts, Zenon
<1> QED
  BY <1>1, <1>2, FlatAppend, Zenon DEF Fly

\* Bytes that go from the queue to the flight stay where they were.
LEMMA WayPut ==
    ASSUME NEW S, NEW c, c.queue \in Seq(Seq(S) \ {<<>>}), c.flight \in Seq(Item(S)),
           NEW d, d.queue \in Seq(Seq(S) \ {<<>>}), NEW data \in Seq(S),
           Fly(d) = Fly(c) \o data, data \o FlattenSeq(d.queue) = FlattenSeq(c.queue)
    PROVE  Way(d) = Way(c)
<1>1. Fly(c) \in Seq(S)
  BY WayType, Zenon
<1>2. d.queue \in Seq(Seq(S))
  OBVIOUS
<1>3. FlattenSeq(d.queue) \in Seq(S)
  BY <1>2, FlatType, Zenon
<1>4. Together(Fly(c), data, FlattenSeq(d.queue))
  BY <1>1, <1>3, ConcatGroups, Zenon
<1> QED
  BY <1>4, Zenon DEF Together, Way

\* buffer_send adds the bytes it accepts behind the others.
LEMMA WayWrite ==
    ASSUME NEW S, NEW c, c.queue \in Seq(Seq(S) \ {<<>>}), c.flight \in Seq(Item(S)),
           NEW d, NEW x \in Seq(S), d.flight = c.flight, d.queue = Append(c.queue, x)
    PROVE  Joins(Way(d), Way(c), x)
<1> USE DEF Joins
<1>1. FlattenSeq(d.queue) = FlattenSeq(c.queue) \o x
  BY WayType, FlatAppend, Zenon
<1>2. Together(Fly(c), FlattenSeq(c.queue), x)
  BY WayType, ConcatGroups, Zenon
<1>3. Fly(d) = Fly(c)
  BY Zenon DEF Fly
<1> QED
  BY <1>1, <1>2, <1>3, Zenon DEF Together, Way

\* What lands is what was at the head.
LEMMA WayLand ==
    ASSUME NEW S, NEW c, c.queue \in Seq(Seq(S) \ {<<>>}), c.flight \in Seq(Item(S)),
           NEW d, NEW n \in 0 .. Len(c.flight),
           d.queue = c.queue, d.flight = SubSeq(c.flight, n + 1, Len(c.flight))
    PROVE  /\ FlattenSeq(Data(SubSeq(c.flight, 1, n))) \in Seq(S)
           /\ Joins(Way(c), FlattenSeq(Data(SubSeq(c.flight, 1, n))), Way(d))
<1> USE DEF Joins
<1> DEFINE f == SubSeq(c.flight, 1, n)
<1>1. f \in Seq(Item(S)) /\ d.flight \in Seq(Item(S)) /\ Data(c.flight) = Data(f) \o Data(d.flight)
  BY DataSplit, Zenon
<1> HIDE DEF f
<1>2. Data(f) \in Seq(Seq(S)) /\ Data(d.flight) \in Seq(Seq(S))
  BY <1>1, DataFacts, Zenon
<1>3. Fly(c) = FlattenSeq(Data(f)) \o Fly(d)
  BY <1>1, <1>2, FlatConcat, Zenon DEF Fly
<1>4. FlattenSeq(Data(f)) \in Seq(S) /\ Fly(d) \in Seq(S)
  BY <1>2, FlatType, Zenon DEF Fly
<1>5. FlattenSeq(c.queue) \in Seq(S)
  BY WayType, Zenon
<1>6. Together(FlattenSeq(Data(f)), Fly(d), FlattenSeq(c.queue))
  BY <1>4, <1>5, ConcatGroups, Zenon
<1> QED
  BY <1>3, <1>4, <1>6, Zenon DEF Together, Way, f

\* The numbering of two parts, one behind the other.
LEMMA NumberedConcat ==
    ASSUME NEW S, NEW s \in Seq(S), NEW t \in Seq(S), NEW b \in Int
    PROVE  /\ s \o t \in Seq(S) /\ Len(s \o t) = Len(s) + Len(t)
           /\ Len(s) \in Nat /\ Len(t) \in Nat
           /\ Numbered(s \o t, b) <=> Numbered(s, b) /\ Numbered(t, b + Len(s))
<1>1. /\ s \o t \in Seq(S) /\ Len(s \o t) = Len(s) + Len(t) /\ Len(s) \in Nat /\ Len(t) \in Nat
      /\ DOMAIN s = 1 .. Len(s) /\ DOMAIN t = 1 .. Len(t) /\ DOMAIN (s \o t) = 1 .. Len(s) + Len(t)
      /\ \A i \in 1 .. Len(s) : (s \o t)[i] = s[i]
      /\ \A i \in 1 .. Len(t) : (s \o t)[Len(s) + i] = t[i]
  OBVIOUS
<1> DEFINE u == s \o t
<1>2. ASSUME Numbered(u, b) PROVE Numbered(s, b) /\ Numbered(t, b + Len(s))
  <2>1. \A i \in 1 .. Len(s) : i \in 1 .. Len(s) + Len(t)
    BY <1>1
  <2>2. \A i \in 1 .. Len(t) : Len(s) + i \in 1 .. Len(s) + Len(t) /\ b + (Len(s) + i) = (b + Len(s)) + i
    BY <1>1
  <2> QED
    BY <1>1, <1>2, <2>1, <2>2, Zenon DEF Numbered
<1>3. ASSUME Numbered(s, b), Numbered(t, b + Len(s)) PROVE Numbered(u, b)
  <2>1. \A i \in 1 .. Len(s) + Len(t) : i \in 1 .. Len(s) \/ (i - Len(s) \in 1 .. Len(t)
            /\ Len(s) + (i - Len(s)) = i /\ (b + Len(s)) + (i - Len(s)) = b + i)
    BY <1>1
  <2>2. ASSUME NEW i \in 1 .. Len(s) + Len(t) PROVE (s \o t)[i] = b + i
    <3>1. CASE i \in 1 .. Len(s)
      BY <1>1, <1>3, <3>1, Zenon DEF Numbered
    <3>2. CASE i - Len(s) \in 1 .. Len(t) /\ Len(s) + (i - Len(s)) = i
               /\ (b + Len(s)) + (i - Len(s)) = b + i
      <4>1. (s \o t)[Len(s) + (i - Len(s))] = t[i - Len(s)]
        BY <1>1, <3>2, Zenon
      <4>2. t[i - Len(s)] = (b + Len(s)) + (i - Len(s))
        BY <1>1, <1>3, <3>2, Zenon DEF Numbered
      <4> QED
        BY <3>2, <4>1, <4>2, Zenon
    <3> QED
      BY <2>1, <3>1, <3>2, Zenon
  <2> QED
    BY <1>1, <2>2, Zenon DEF Numbered
<1> QED
  BY <1>1, <1>2, <1>3, Zenon

\* What is numbered has no gap.
LEMMA NumberedContiguous ==
    ASSUME NEW S, NEW s \in Seq(S), NEW b \in Int, Numbered(s, b)
    PROVE  Contiguous(s) /\ (s # <<>> => s[1] = b + 1)
<1>1. Len(s) \in Nat /\ DOMAIN s = 1 .. Len(s) /\ (s # <<>> => 1 \in DOMAIN s)
  OBVIOUS
<1>2. ASSUME NEW i \in 1 .. Len(s) - 1 PROVE s[i + 1] = s[i] + 1
  <2>1. i \in DOMAIN s /\ i + 1 \in DOMAIN s /\ b + (i + 1) = (b + i) + 1
    BY <1>1
  <2>2. s[i] = b + i /\ s[i + 1] = b + (i + 1)
    BY <2>1, Zenon DEF Numbered
  <2> QED
    BY <2>1, <2>2, Zenon
<1> QED
  BY <1>1, <1>2, Zenon DEF Contiguous, Numbered

\* An empty buffer continues the byte stream from anywhere.
LEMMA NumberedEmpty ==
    ASSUME NEW b
    PROVE  Numbered(<<>>, b) /\ Len(<<>>) = 0
BY DEF Numbered

\* The length and the numbering of a sequence, from those of its parts.
LEMMA JoinedParts ==
    ASSUME NEW S, NEW s, NEW t \in Seq(S), NEW u \in Seq(S), Joins(s, t, u), NEW b \in Int
    PROVE  Joined(s, t, u, b)
BY NumberedConcat, Zenon DEF Joins, Joined

-----------------------------------------------------------------------------
(* One direction.                                                          *)

\* A direction depends on these of the fields of its ends.
LEMMA DirectionFrame ==
    ASSUME NEW c, NEW p, NEW w, NEW g, NEW v, NEW lost, Direction(c, p, w, g, v, lost),
           NEW d, NEW q, SameSender(c, d), SameReceiver(p, q)
    PROVE  Direction(d, q, w, g, v, lost)
<1>1. /\ Data(d.flight) = Data(c.flight) /\ d.queue = c.queue /\ d.finPending = c.finPending
      /\ d.sendClosed = c.sendClosed /\ d.window = c.window /\ d.closed = c.closed
      /\ (~d.holed => ~c.holed)
  BY Zenon DEF SameSender, SameQueue
<1>2. Way(d) = Way(c)
  BY <1>1, Zenon DEF Way, Fly
<1>3. Reads(q) <=> Reads(p)
  BY Zenon DEF Reads, SameReceiver
<1>4. Accounts(d, q, v)
  BY <1>1, <1>2, Zenon DEF Direction, Accounts, SameReceiver
<1>5. ASSUME NEW b, Starts(c, p, w, g, lost, b) PROVE Starts(d, q, w, g, lost, b)
  BY <1>1, <1>2, <1>3, <1>5, Zenon DEF Starts, SameReceiver
<1>6. Stream(d, q, w, g, lost)
  BY <1>1, <1>3, <1>5, Zenon DEF Direction, Stream, SameReceiver
<1>7. Finished(d, q, lost)
  BY <1>1, <1>3, Zenon DEF Direction, Finished, Said, SameReceiver
<1> QED
  BY <1>4, <1>6, <1>7, Zenon DEF Direction

\* Bytes that move on, and an end that closes, keep the window and the stream.
LEMMA MoveDirection ==
    ASSUME NEW c, NEW p, NEW w, NEW g, NEW v, NEW lost, Direction(c, p, w, g, v, lost),
           NEW d, Moved(c, d), Finished(d, p, lost)
    PROVE  Direction(d, p, w, g, v, lost)
<1>1. Accounts(d, p, v)
  BY Zenon DEF Direction, Accounts, Moved
<1>2. ASSUME NEW b, Starts(c, p, w, g, lost, b) PROVE Starts(d, p, w, g, lost, b)
  BY <1>2, Zenon DEF Starts, Moved
<1>3. Stream(d, p, w, g, lost)
  BY <1>2, Zenon DEF Direction, Stream, Moved
<1> QED
  BY <1>1, <1>3, Zenon DEF Direction

\* An end that stops reading with nothing unread.
LEMMA StopDirection ==
    ASSUME NEW c, NEW p, NEW w, NEW g, NEW v, NEW lost, Direction(c, p, w, g, v, lost),
           NEW q, Stopped(p, q)
    PROVE  Direction(c, q, w, g, v, lost)
<1>1. q.inbox = p.inbox /\ q.finReceived = p.finReceived /\ (Reads(q) => Reads(p)) /\ q.inbox = <<>>
  BY Zenon DEF Stopped
<1>2. Accounts(c, q, v)
  BY <1>1, Zenon DEF Direction, Accounts
<1>3. ASSUME NEW b, Starts(c, p, w, g, lost, b) PROVE Starts(c, q, w, g, lost, b)
  BY <1>1, <1>3, Zenon DEF Starts
<1>4. Stream(c, q, w, g, lost)
  BY <1>1, <1>3, Zenon DEF Direction, Stream
<1>5. Finished(c, q, lost)
  BY <1>1, Zenon DEF Direction, Finished
<1> QED
  BY <1>2, <1>4, <1>5, Zenon DEF Direction

\* A direction that still has something to say has no FIN in flight.
LEMMA NoFin ==
    ASSUME NEW c, NEW p, NEW lost, Finished(c, p, lost), c.queue # <<>> \/ ~c.sendClosed \/ c.finPending
    PROVE  Clean(Data(c.flight)) /\ ~p.finReceived
BY Zenon DEF Finished, Said

\* Bytes that are written follow everything before them.
LEMMA WriteDirection ==
    ASSUME NEW S, NEW R, NEW c \in Conn(S, R), NEW d, NEW p, NEW w \in Nat, NEW g \in Nat, NEW v \in Nat,
           NEW lost, Direction(c, p, w, g, v, lost), p.inbox \in Seq(S),
           ~c.sendClosed, c.closed = "no", NEW x \in Seq(S),
           Numbered(x, w), c.window + Len(x) <= Capacity, Writes(c, d, x)
    PROVE  Direction(d, p, w + Len(x), g, v, lost)
<1>1. c.queue \in Seq(Seq(S) \ {<<>>}) /\ c.flight \in Seq(Item(S)) /\ Way(c) \in Seq(S)
  BY ConnFields, WayType, Zenon DEF FieldTypes
<1>2. /\ d.queue = Append(c.queue, x) /\ d.window = c.window + Len(x) /\ d.closed = c.closed
      /\ d.sendClosed = c.sendClosed
      /\ d.finPending = c.finPending /\ d.holed = c.holed /\ d.flight = c.flight
  BY Zenon DEF Writes
<1>3. Joins(Way(d), Way(c), x)
  BY <1>1, <1>2, WayWrite, Zenon
<1>4. \A b \in Int : Joined(Way(d), Way(c), x, b)
  BY <1>1, <1>3, JoinedParts, Zenon
<1>5. Len(Way(d)) = Len(Way(c)) + Len(x) /\ Len(Way(c)) \in Nat /\ Len(x) \in Nat /\ Len(p.inbox) \in Nat
  <2>1. 0 \in Int /\ Len(p.inbox) \in Nat
    OBVIOUS
  <2> QED
    BY <1>4, <2>1, Zenon DEF Joined
<1>6. Accounts(d, p, v)
  <2> DEFINE a == Len(Way(c))
             l == Len(Way(d))
             i == Len(p.inbox)
             k == Len(x)
  <2>1. c.window = a + i + v
    BY Zenon DEF Direction, Accounts
  <2>2. a \in Nat /\ k \in Nat /\ i \in Nat /\ l = a + k
    BY <1>5, Zenon
  <2> HIDE DEF a, l, i, k
  <2>3. (a + i + v) + k = l + i + v
    BY <2>2
  <2> QED
    BY <1>2, <2>1, <2>3, Zenon DEF Accounts, a, l, i, k
<1>7. ~lost /\ Clean(Data(c.flight)) /\ ~p.finReceived /\ ~c.finPending /\ c.closed # "aborted"
  <2>1. "no" # "aborted"
    OBVIOUS
  <2> QED
    BY <2>1, NoFin, Zenon DEF Direction, Finished
<1>8. Finished(d, p, lost)
  BY <1>2, <1>7, Zenon DEF Direction, Finished
<1>9. ASSUME NEW b \in Nat, Starts(c, p, w, g, lost, b) PROVE Starts(d, p, w + Len(x), g, lost, b)
  <2>1. /\ Numbered(Way(c), b)
        /\ Reads(p) => b = g + Len(p.inbox)
        /\ b + Len(Way(c)) = w
    BY <1>7, <1>9, Zenon DEF Starts
  <2>2. b \in Int /\ b + Len(Way(d)) = w + Len(x)
    BY <1>5, <2>1, SMTT(60)
  <2>3. Numbered(Way(d), b)
    BY <1>4, <2>1, <2>2, Zenon DEF Joined
  <2> QED
    BY <2>1, <2>2, <2>3, Zenon DEF Starts
<1>10. Stream(d, p, w + Len(x), g, lost)
  BY <1>2, <1>7, <1>9, Zenon DEF Direction, Stream
<1> QED
  BY <1>6, <1>8, <1>10, Zenon DEF Direction

\* What is left of a sequence.
LEMMA SubSeqBehead ==
    ASSUME NEW S, NEW q \in Seq(S), NEW n \in 0 .. Len(q)
    PROVE  Behead(q, SubSeq(q, n + 1, Len(q)), n) /\ SubSeq(q, n + 1, Len(q)) \in Seq(S)
BY DEF Behead

\* What is read leaves the inbox, and the window.
LEMMA ReadDirection ==
    ASSUME NEW S, NEW R, NEW c \in Conn(S, R), NEW p, NEW w \in Nat, NEW g \in Nat, NEW v \in Nat,
           NEW lost, Direction(c, p, w, g, v, lost), p.inbox \in Seq(S), Reads(p),
           NEW n \in 1 .. Len(p.inbox), NEW d, NEW r, ReadBy(c, d, p, r, n)
    PROVE  Direction(d, r, w, g + n, v, lost)
<1>1. c.queue \in Seq(Seq(S) \ {<<>>}) /\ c.flight \in Seq(Item(S)) /\ c.window \in Int /\ Way(c) \in Seq(S)
  BY ConnFields, WayType, Zenon DEF FieldTypes
<1>2. Len(Way(c)) \in Nat /\ n \in Nat /\ n \in 0 .. Len(p.inbox) /\ Len(p.inbox) \in Nat
  <2>1. Len(Way(c)) \in Nat
    BY <1>1
  <2>2. Len(p.inbox) \in Nat
    OBVIOUS
  <2> QED
    BY <2>1, <2>2
<1>3. /\ r.inbox = SubSeq(p.inbox, n + 1, Len(p.inbox)) /\ d.window = c.window - n
      /\ r.closed = p.closed /\ r.recvClosed = p.recvClosed /\ r.finReceived = p.finReceived
      /\ d.flight = c.flight /\ d.closed = c.closed /\ d.holed = c.holed
      /\ d.queue = c.queue /\ d.finPending = c.finPending /\ d.sendClosed = c.sendClosed
  BY Zenon DEF ReadBy, SameQueue
<1>4. /\ Accounts(c, p, v) /\ Stream(c, p, w, g, lost) /\ Finished(c, p, lost)
  BY Zenon DEF Direction
<1>5. Behead(p.inbox, r.inbox, n)
  BY <1>2, <1>3, SubSeqBehead, Zenon
<1>6. Way(d) = Way(c) /\ Reads(r) /\ (Said(d) <=> Said(c))
  BY <1>3, Zenon DEF Way, Fly, Reads, Said
<1>7. /\ c.window = Len(Way(c)) + Len(p.inbox) + v => c.window - n = Len(Way(c)) + Len(r.inbox) + v
      /\ g + Len(p.inbox) = g + n + Len(r.inbox)
      /\ c.window <= Capacity => c.window - n <= Capacity
  <2> DEFINE a == Len(Way(c))
             i == Len(p.inbox)
             j == Len(r.inbox)
  <2>1. a \in Nat /\ i \in Nat /\ j = i - n /\ Capacity \in Nat
    BY <1>2, <1>5, FlightAssumption, Zenon DEF Behead
  <2> HIDE DEF a, i, j
  <2>2. \A m \in Int : /\ m = a + i + v => m - n = a + j + v
                       /\ m <= Capacity => m - n <= Capacity
    BY <1>2, <2>1
  <2>3. g + i = g + n + j
    BY <1>2, <2>1
  <2> QED
    BY <1>1, <2>2, <2>3, Zenon DEF a, i, j
<1>8. Accounts(d, r, v)
  BY <1>3, <1>4, <1>6, <1>7, Zenon DEF Accounts
<1>9. Finished(d, r, lost)
  BY <1>3, <1>4, <1>6, Zenon DEF Finished
<1>10. Numbered(r.inbox, g + n)
  <2>1. ASSUME NEW i \in DOMAIN r.inbox PROVE r.inbox[i] = (g + n) + i
    <3>1. n + i \in DOMAIN p.inbox /\ r.inbox[i] = p.inbox[n + i]
      BY <1>5, <2>1, Zenon DEF Behead
    <3>2. p.inbox[n + i] = g + (n + i)
      BY <1>4, <3>1, Zenon DEF Stream, Numbered
    <3>3. i \in 1 .. (Len(p.inbox) - n)
      BY <1>5, <2>1, Zenon DEF Behead
    <3>4. g + (n + i) = (g + n) + i
      BY <1>2, <3>3
    <3> QED
      BY <3>1, <3>2, <3>4, Zenon
  <2> QED
    BY <2>1, Zenon DEF Numbered
<1>11. ASSUME NEW b, Starts(c, p, w, g, lost, b) PROVE Starts(d, r, w, g + n, lost, b)
  BY <1>3, <1>6, <1>7, <1>11, Zenon DEF Starts
<1>12. Stream(d, r, w, g + n, lost)
  BY <1>3, <1>4, <1>6, <1>7, <1>10, <1>11, Zenon DEF Stream
<1> QED
  BY <1>8, <1>9, <1>12, Zenon DEF Direction

\* A queue that is dropped, with its share of the window.
LEMMA DropQueueDirection ==
    ASSUME NEW S, NEW R, NEW c \in Conn(S, R), NEW p, NEW w \in Nat, NEW g \in Nat, NEW v \in Nat,
           NEW lost, Direction(c, p, w, g, v, lost), p.inbox \in Seq(S), NEW d, DropsQueue(c, d)
    PROVE  Direction(d, p, w, g, v, TRUE)
<1>1. /\ c.queue \in Seq(Seq(S) \ {<<>>}) /\ c.flight \in Seq(Item(S)) /\ c.window \in Int
      /\ Fly(c) \in Seq(S) /\ FlattenSeq(c.queue) \in Seq(S)
  BY ConnFields, WayType, Zenon DEF FieldTypes
<1>2. /\ d.queue = <<>> /\ d.sendClosed = TRUE /\ d.finPending = c.finPending
      /\ d.window = c.window - Len(FlattenSeq(c.queue))
      /\ d.flight = c.flight /\ d.closed = c.closed /\ d.holed = c.holed
  BY Zenon DEF DropsQueue, Queued
<1>3. Way(d) = Fly(c)
  <2>1. Fly(c) \o <<>> = Fly(c)
    BY <1>1
  <2> QED
    BY <1>2, <2>1, FlatEmpty, Zenon DEF Way, Fly
<1>4. \A b \in Int : Joined(Way(c), Fly(c), FlattenSeq(c.queue), b)
  <2>1. Joins(Way(c), Fly(c), FlattenSeq(c.queue))
    BY Zenon DEF Joins, Way
  <2> QED
    BY <1>1, <2>1, JoinedParts, Zenon
<1>5. Accounts(d, p, v)
  <2> DEFINE a == Len(Fly(c))
             k == Len(FlattenSeq(c.queue))
             i == Len(p.inbox)
             l == Len(Way(c))
             m == c.window
  <2>1. m = l + i + v /\ m <= Capacity /\ m \in Int
    BY <1>1, Zenon DEF Direction, Accounts
  <2>2. 0 \in Int /\ i \in Nat /\ Capacity \in Nat
    BY FlightAssumption
  <2>3. a \in Nat /\ k \in Nat /\ l = a + k
    BY <1>4, <2>2, Zenon DEF Joined
  <2> HIDE DEF a, l, i, k, m
  <2>4. m - k = a + i + v /\ m - k <= Capacity
    BY <2>1, <2>2, <2>3
  <2> QED
    BY <1>2, <1>3, <2>4, Zenon DEF Accounts, a, l, i, k, m
<1>6. ASSUME NEW b \in Nat, Starts(c, p, w, g, lost, b) PROVE Starts(d, p, w, g, TRUE, b)
  <2>1. b \in Int
    OBVIOUS
  <2> QED
    BY <1>3, <1>4, <1>6, <2>1, Zenon DEF Starts, Joined
<1>7. Stream(d, p, w, g, TRUE)
  BY <1>2, <1>6, Zenon DEF Direction, Stream
<1>8. Finished(d, p, TRUE)
  BY <1>2, Zenon DEF Direction, Finished, Said
<1> QED
  BY <1>5, <1>7, <1>8, Zenon DEF Direction

\* Unread bytes that are dropped, with their share of the window.
LEMMA DropInboxDirection ==
    ASSUME NEW S, NEW R, NEW c \in Conn(S, R), NEW p, NEW w \in Nat, NEW g \in Nat, NEW v \in Nat,
           NEW lost, Direction(c, p, w, g, v, lost), p.inbox \in Seq(S), NEW d, NEW r, DropsInbox(c, d, p, r)
    PROVE  Direction(d, r, w, g, v, lost)
<1>1. c.queue \in Seq(Seq(S) \ {<<>>}) /\ c.flight \in Seq(Item(S)) /\ c.window \in Int /\ Way(c) \in Seq(S)
  BY ConnFields, WayType, Zenon DEF FieldTypes
<1>2. /\ r.inbox = <<>> /\ ~Reads(r) /\ r.finReceived = p.finReceived
      /\ d.window = c.window - Len(p.inbox)
      /\ d.flight = c.flight /\ d.closed = c.closed /\ d.holed = c.holed
      /\ d.queue = c.queue /\ d.finPending = c.finPending /\ d.sendClosed = c.sendClosed
  BY Zenon DEF DropsInbox, SameQueue
<1>3. Way(d) = Way(c) /\ (Said(d) <=> Said(c))
  BY <1>2, Zenon DEF Way, Fly, Said
<1>4. Accounts(d, r, v)
  <2> DEFINE a == Len(Way(c))
             i == Len(p.inbox)
             m == c.window
  <2>1. m = a + i + v /\ m <= Capacity /\ m \in Int
    BY <1>1, Zenon DEF Direction, Accounts
  <2>2. i \in Nat /\ Capacity \in Nat
    BY FlightAssumption
  <2>3. a \in Nat
    BY <1>1
  <2> HIDE DEF a, i, m
  <2>4. m - i = a + 0 + v /\ m - i <= Capacity
    BY <2>1, <2>2, <2>3
  <2> QED
    BY <1>2, <1>3, <2>4, NumberedEmpty, Zenon DEF Accounts, a, i, m
<1>5. ASSUME NEW b, Starts(c, p, w, g, lost, b) PROVE Starts(d, r, w, g, lost, b)
  BY <1>2, <1>3, <1>5, Zenon DEF Starts
<1>6. Stream(d, r, w, g, lost)
  BY <1>2, <1>5, NumberedEmpty, Zenon DEF Direction, Stream
<1>7. Finished(d, r, lost)
  BY <1>2, <1>3, Zenon DEF Direction, Finished
<1> QED
  BY <1>4, <1>6, <1>7, Zenon DEF Direction

\* The direction of an end whose sides are shut: first the queue goes, then what
\* the peer has unread.
LEMMA CloseDirection ==
    ASSUME NEW S, NEW R, NEW c \in Conn(S, R), NEW p \in Conn(R, S), NEW w \in Nat, NEW g \in Nat, NEW v \in Nat,
           NEW lost, Direction(c, p, w, g, v, lost), NEW send \in BOOLEAN, NEW recv \in BOOLEAN,
           NEW L, L = (lost \/ send),
           NEW d, d = ShutSender(c, p, send, recv), NEW r, r = ShutReceiver(p, recv)
    PROVE  /\ d \in Conn(S, R) /\ r \in Conn(R, S)
           /\ SameReceiver(c, d) /\ SameSender(p, r)
           /\ Direction(d, r, w, g, v, L)
<1> DEFINE b == ShutFor(c, send)
           k == Unread(p, recv)
           m == c.window - Queued(c)
           n == b.window - k
           f == p.recvClosed \/ recv
           s == IF recv THEN <<>> ELSE p.inbox
<1>1. /\ c.queue \in Seq(Seq(S) \ {<<>>}) /\ c.flight \in Seq(Item(S)) /\ c.window \in Int
      /\ p.inbox \in Seq(S) /\ p.recvClosed \in BOOLEAN
  <2>1. FieldTypes(c, S, R) /\ FieldTypes(p, R, S)
    BY ConnFields, Zenon
  <2> QED
    BY <2>1, Zenon DEF FieldTypes
<1>2. k \in Nat /\ m \in Int
  <2>1. FlattenSeq(c.queue) \in Seq(S)
    BY <1>1, WayType, Zenon
  <2>2. Queued(c) \in Nat /\ Len(p.inbox) \in Nat
    BY <1>1, <2>1 DEF Queued
  <2>3. k \in Nat
    BY <2>2, 0 \in Nat, Zenon DEF Unread
  <2> QED
    BY <1>1, <2>2, <2>3, SMTT(60)
<1>3. /\ b \in Conn(S, R) /\ SameReceiver(c, b) /\ b.window \in Int
      /\ Direction(b, p, w, g, v, L)
  <2>1. CASE send
    <3> DEFINE a == [c EXCEPT !.queue = <<>>, !.window = m, !.sendClosed = TRUE]
    <3>1. b = a
      BY <2>1, Zenon DEF Discarded, ShutFor
    <3>2. m = c.window - Queued(c)
      OBVIOUS
    <3> HIDE DEF m
    <3>3. /\ a \in Conn(S, R) /\ a.queue = <<>> /\ a.window = m /\ a.sendClosed = TRUE
          /\ a.flight = c.flight /\ a.finPending = c.finPending /\ a.closed = c.closed
          /\ a.inbox = c.inbox /\ a.recvClosed = c.recvClosed /\ a.finReceived = c.finReceived
          /\ a.holed = c.holed
      <4>1. <<>> \in Seq(Seq(S) \ {<<>>})
        OBVIOUS
      <4>2. a \in Conn(S, R)
        BY <1>2, <4>1, Zenon DEF Conn
      <4>3. /\ a.queue = <<>> /\ a.window = m /\ a.sendClosed = TRUE
            /\ a.flight = c.flight /\ a.finPending = c.finPending /\ a.closed = c.closed
            /\ a.inbox = c.inbox /\ a.recvClosed = c.recvClosed /\ a.finReceived = c.finReceived
            /\ a.holed = c.holed
        BY DEF Conn
      <4> QED
        BY <4>2, <4>3, Zenon
    <3> HIDE DEF a
    <3>4. DropsQueue(c, a) /\ SameReceiver(c, a) /\ a.window \in Int
      BY <1>2, <3>2, <3>3 DEF DropsQueue, SameReceiver
    <3>5. Direction(a, p, w, g, v, TRUE)
      BY <1>1, <3>4, DropQueueDirection, Zenon
    <3>6. L = TRUE
      BY <2>1, Zenon
    <3> QED
      BY <3>1, <3>3, <3>4, <3>5, <3>6, ZenonT(60)
  <2>2. CASE ~send
    <3>1. b = c /\ (L <=> lost)
      BY <2>2, Zenon DEF ShutFor
    <3> QED
      BY <1>1, <3>1, Zenon DEF SameReceiver, Direction, Stream, Starts, Finished
  <2> QED
    BY <2>1, <2>2, Zenon
<1> HIDE DEF b
<1>4. n \in Int /\ s \in Seq(S) /\ f \in BOOLEAN
  BY <1>1, <1>2, <1>3
<1>5. d = [b EXCEPT !.window = n] /\ r = [p EXCEPT !.recvClosed = f, !.inbox = s]
  <2>1. [p EXCEPT !.recvClosed = f].inbox = p.inbox
    BY DEF Conn
  <2> QED
    BY <2>1, Zenon DEF b, ShutSender, ShutReceiver
<1> HIDE DEF n, s, f, m, k
<1>6. /\ d \in Conn(S, R) /\ d.queue = b.queue /\ d.finPending = b.finPending /\ d.sendClosed = b.sendClosed
      /\ d.flight = b.flight /\ d.window = n /\ d.closed = b.closed /\ d.holed = b.holed
      /\ d.inbox = b.inbox /\ d.recvClosed = b.recvClosed /\ d.finReceived = b.finReceived
  BY <1>3, <1>4, <1>5, ZenonT(60) DEF Conn
<1>7. /\ r \in Conn(R, S) /\ r.queue = p.queue /\ r.finPending = p.finPending /\ r.sendClosed = p.sendClosed
      /\ r.flight = p.flight /\ r.window = p.window /\ r.closed = p.closed /\ r.holed = p.holed
      /\ r.inbox = s /\ r.recvClosed = f /\ r.finReceived = p.finReceived
  BY <1>4, <1>5, Zenon DEF Conn
<1>8. SameReceiver(c, d) /\ SameSender(p, r)
  BY <1>3, <1>6, <1>7, Zenon DEF SameReceiver, SameSender, SameQueue
<1>9. Direction(d, r, w, g, v, L)
  <2>1. CASE recv
    <3>1. s = <<>> /\ f /\ k = Len(p.inbox)
      BY <2>1, Zenon DEF s, f, k, Unread
    <3>2. DropsInbox(b, d, p, r)
      <4>1. d.window = b.window - Len(p.inbox)
        BY <1>6, <3>1, Zenon DEF n
      <4> QED
        BY <1>6, <1>7, <3>1, <4>1, Zenon DEF DropsInbox, Reads, SameQueue
    <3> QED
      BY <1>1, <1>3, <3>2, DropInboxDirection, Zenon
  <2>2. CASE ~recv
    <3>1. s = p.inbox /\ f = p.recvClosed /\ n = b.window
      BY <1>1, <1>3, <2>2, SMTT(60) DEF s, f, n, k, Unread
    <3>2. SameSender(b, d) /\ SameReceiver(p, r)
      BY <1>6, <1>7, <3>1, Zenon DEF SameReceiver, SameSender, SameQueue
    <3> QED
      BY <1>3, <3>2, DirectionFrame, Zenon
  <2> QED
    BY <2>1, <2>2, Zenon
<1> QED
  BY <1>6, <1>7, <1>8, <1>9, Zenon

\* Nothing in flight has no chunks.
LEMMA DataEmpty == Data(<<>>) = <<>>
<1>1. <<>> \in Seq(Item({})) /\ Len(<<>>) = 0
  OBVIOUS
<1>2. Data(<<>>) \in Seq(Seq({})) /\ Len(Data(<<>>)) = 0
  BY <1>1, DataFacts, Zenon
<1> QED
  BY <1>2

\* A reset returns the window of everything but what vanished.
LEMMA ResetDirection ==
    ASSUME NEW S, NEW R, NEW c \in Conn(S, R), NEW p, NEW w \in Nat, NEW g \in Nat, NEW v \in Nat,
           NEW lost, Direction(c, p, w, g, v, lost), p.inbox \in Seq(S), NEW d, NEW r, Resets(c, d, p, r)
    PROVE  Direction(d, r, w, g, v, lost)
<1>1. /\ c.queue \in Seq(Seq(S) \ {<<>>}) /\ c.flight \in Seq(Item(S)) /\ c.window \in Int
      /\ Fly(c) \in Seq(S) /\ FlattenSeq(c.queue) \in Seq(S)
  BY ConnFields, WayType, Zenon DEF FieldTypes
<1>2. /\ d.queue = <<>> /\ d.flight = <<>> /\ d.closed = "aborted"
      /\ d.sendClosed = TRUE /\ d.finPending = FALSE
      /\ d.window = c.window - Len(FlattenSeq(c.queue)) - Len(Fly(c)) - Len(p.inbox)
      /\ r.inbox = <<>> /\ r.closed = "aborted"
  BY Zenon DEF Resets, Queued, Flying, Fly, Data
<1>3. ~Reads(r)
  <2>1. "aborted" # "no"
    OBVIOUS
  <2> QED
    BY <1>2, <2>1, Zenon DEF Reads
<1>4. Way(d) = <<>> /\ Data(d.flight) = <<>>
  <2>1. <<>> \o <<>> = <<>>
    OBVIOUS
  <2> QED
    BY <1>2, <2>1, DataEmpty, FlatEmpty, Zenon DEF Way, Fly
<1>5. Accounts(d, r, v)
  <2> DEFINE a == Len(Fly(c))
             k == Len(FlattenSeq(c.queue))
             i == Len(p.inbox)
             l == Len(Way(c))
             m == c.window
  <2>1. m = l + i + v /\ m <= Capacity /\ m \in Int
    BY <1>1, Zenon DEF Direction, Accounts
  <2>2. 0 \in Int /\ i \in Nat /\ Capacity \in Nat
    BY FlightAssumption
  <2>3. Joins(Way(c), Fly(c), FlattenSeq(c.queue))
    BY Zenon DEF Joins, Way
  <2>4. Joined(Way(c), Fly(c), FlattenSeq(c.queue), 0)
    BY <1>1, <2>2, <2>3, JoinedParts, Zenon
  <2>5. a \in Nat /\ k \in Nat /\ l = a + k
    BY <2>4, Zenon DEF Joined
  <2> HIDE DEF a, l, i, k, m
  <2>6. m - k - a - i = 0 + 0 + v /\ m - k - a - i <= Capacity
    BY <2>1, <2>2, <2>5
  <2> QED
    BY <1>2, <1>4, <2>6, NumberedEmpty, Zenon DEF Accounts, a, l, i, k, m
<1>6. 0 \in Nat /\ Starts(d, r, w, g, lost, 0)
  BY <1>2, <1>3, <1>4, NumberedEmpty, Zenon DEF Starts
<1>7. Stream(d, r, w, g, lost)
  BY <1>2, <1>3, <1>6, NumberedEmpty, Zenon DEF Stream
<1>8. FinLast(<<>>) /\ Clean(<<>>)
  BY DEF FinLast, Clean
<1>9. Finished(d, r, lost)
  BY <1>2, <1>3, <1>4, <1>8, Zenon DEF Finished, Said
<1> QED
  BY <1>5, <1>7, <1>9, Zenon DEF Direction

\* The FIN among some chunks and others behind them.
LEMMA FinHeads ==
    ASSUME NEW T, NEW z \in Seq(T), NEW y \in Seq(T)
    PROVE  Heads(z, y)
<1> DEFINE u == z \o y
<1>1. /\ Len(z) \in Nat /\ Len(y) \in Nat /\ u \in Seq(T) /\ Len(u) = Len(z) + Len(y)
      /\ DOMAIN z = 1 .. Len(z) /\ DOMAIN y = 1 .. Len(y) /\ DOMAIN u = 1 .. Len(z) + Len(y)
      /\ \A i \in 1 .. Len(z) : u[i] = z[i]
      /\ \A i \in 1 .. Len(y) : u[Len(z) + i] = y[i]
      /\ (Len(y) = 0 => y = <<>>) /\ (Len(z) = 0 => z = <<>>) /\ (u = <<>> => Len(u) = 0)
  OBVIOUS
<1> HIDE DEF u
<1>7. Len(z) \in Nat /\ Len(y) \in Nat /\ Len(u) = Len(z) + Len(y) /\ DOMAIN u = 1 .. Len(z) + Len(y)
  BY <1>1, Zenon
<1>2. /\ \A i \in 1 .. Len(z) : i \in DOMAIN u
      /\ \A i \in 1 .. Len(y) : Len(z) + i \in DOMAIN u /\ (Len(z) + i = Len(u) => i = Len(y))
      /\ \A i \in 1 .. Len(z) : i = Len(u) => Len(y) = 0
      /\ Len(u) = 0 => Len(y) = 0 /\ Len(z) = 0
  BY <1>7
<1>3. FinLast(u) => FinLast(y)
  BY <1>1, <1>2, ZenonT(60) DEF FinLast
<1>4. Clean(u) => Clean(y) /\ Clean(z)
  BY <1>1, <1>2, Zenon DEF Clean
<1>5. FinLast(u) /\ ~Clean(z) => y = <<>>
  BY <1>1, <1>2, Zenon DEF FinLast, Clean
<1>6. u = <<>> => y = <<>> /\ z = <<>>
  BY <1>1, <1>2, Zenon
<1> QED
  BY <1>3, <1>4, <1>5, <1>6, Zenon DEF Heads, u

\* A FIN that lands had everything else before it.
LEMMA LandFinished ==
    ASSUME NEW T, NEW c, NEW p, NEW lost, Finished(c, p, lost), NEW z \in Seq(T), NEW d,
           Data(d.flight) \in Seq(T), Flown(c, d, z), NEW q, Told(p, q, z)
    PROVE  /\ Finished(d, q, lost) /\ (Reads(q) <=> Reads(p))
           /\ q.finReceived => Data(d.flight) = <<>> /\ d.queue = <<>>
           /\ p.finReceived => z = <<>>
           /\ c.closed = "aborted" => z = <<>>
<1> DEFINE y == Data(d.flight)
<1>1. /\ Data(c.flight) = z \o y /\ d.queue = c.queue /\ d.finPending = c.finPending
      /\ d.sendClosed = c.sendClosed /\ d.closed = c.closed
  BY Zenon DEF Flown, SameQueue
<1>2. (Said(d) <=> Said(c)) /\ (Reads(q) <=> Reads(p))
  BY <1>1, Zenon DEF Said, Reads, Told
<1>3. Heads(z, y)
  BY FinHeads, Zenon
<1>4. FinLast(z \o y) /\ (~Clean(z \o y) => Said(c)) /\ (p.finReceived => z \o y = <<>> /\ Said(c))
      /\ (c.closed = "aborted" => z \o y = <<>>)
  BY <1>1, Zenon DEF Finished
<1> HIDE DEF y
<1>5. FinLast(y) /\ (~Clean(y) => Said(d))
  BY <1>2, <1>3, <1>4, Zenon DEF Heads
<1>6. q.finReceived => y = <<>> /\ Said(d)
  BY <1>2, <1>3, <1>4, Zenon DEF Heads, Told
<1>7. (p.finReceived => z = <<>>) /\ (c.closed = "aborted" => z = <<>> /\ y = <<>>)
  BY <1>3, <1>4, Zenon DEF Heads
<1>8. Finished(d, q, lost)
  BY <1>1, <1>2, <1>5, <1>6, <1>7, Zenon DEF Finished, y
<1> QED
  BY <1>2, <1>6, <1>7, <1>8, Zenon DEF Said, y

\* What lands is the first part of what was under way.
LEMMA LandParts ==
    ASSUME NEW S, NEW c, NEW d, NEW z \in Seq(Seq(S)), Flown(c, d, z),
           d.queue \in Seq(Seq(S) \ {<<>>}), d.flight \in Seq(Item(S))
    PROVE  Data(d.flight) \in Seq(Seq(S)) /\ FlattenSeq(z) \in Seq(S) /\ Parts(c, d, z)
<1>1. Way(d) \in Seq(S) /\ Data(d.flight) \in Seq(Seq(S)) /\ FlattenSeq(z) \in Seq(S)
  BY WayType, FlatType, Zenon
<1>2. \A b \in Int : Joined(Way(c), FlattenSeq(z), Way(d), b)
  BY <1>1, JoinedParts, Zenon DEF Flown
<1>3. 0 \in Int
  OBVIOUS
<1> QED
  BY <1>1, <1>2, <1>3, Zenon DEF Joined, Parts

\* A black hole swallows what lands, and keeps its share of the window.
LEMMA VanishDirection ==
    ASSUME NEW S, NEW R, NEW d \in Conn(S, R), NEW c, NEW p, NEW w \in Nat, NEW g \in Nat, NEW v \in Nat,
           NEW lost, Direction(c, p, w, g, v, lost), p.inbox \in Seq(S),
           NEW z \in Seq(Seq(S)), Flown(c, d, z), c.holed, d.window = c.window
    PROVE  Direction(d, p, w, g, v + Len(FlattenSeq(z)), lost)
<1>1. d.queue \in Seq(Seq(S) \ {<<>>}) /\ d.flight \in Seq(Item(S)) /\ d.holed = c.holed
  BY ConnFields, Zenon DEF FieldTypes, Flown
<1>2. Data(d.flight) \in Seq(Seq(S)) /\ Parts(c, d, z)
  BY <1>1, LandParts, Zenon
<1>3. Finished(d, p, lost)
  <2>1. Told(p, p, z)
    BY Zenon DEF Told
  <2> QED
    BY <1>2, <2>1, LandFinished, Zenon DEF Direction
<1>4. Accounts(d, p, v + Len(FlattenSeq(z)))
  <2> DEFINE l == Len(Way(c))
             i == Len(p.inbox)
             k == Len(FlattenSeq(z))
             y == Len(Way(d))
  <2>1. d.window = l + i + v /\ d.window <= Capacity
    BY Zenon DEF Direction, Accounts
  <2>2. i \in Nat
    OBVIOUS
  <2>3. l = k + y /\ k \in Nat /\ y \in Nat
    BY <1>2, Zenon DEF Parts
  <2> HIDE DEF l, i, k, y
  <2>4. l + i + v = y + i + (v + k)
    BY <2>2, <2>3
  <2> QED
    BY <2>1, <2>4, Zenon DEF Accounts, l, i, k, y
<1>5. Stream(d, p, w, g, lost)
  BY <1>1, Zenon DEF Direction, Stream
<1> QED
  BY <1>3, <1>4, <1>5, Zenon DEF Direction

\* A peer that no longer reads discards what lands, and returns the window.
LEMMA DiscardDirection ==
    ASSUME NEW S, NEW R, NEW d \in Conn(S, R), NEW c, NEW p, NEW w \in Nat, NEW g \in Nat, NEW v \in Nat,
           NEW lost, Direction(c, p, w, g, v, lost), p.inbox \in Seq(S), c.window \in Int,
           NEW z \in Seq(Seq(S)), Flown(c, d, z), d.window = c.window - Len(FlattenSeq(z)),
           ~Reads(p), NEW q, q.inbox = p.inbox, Told(p, q, z)
    PROVE  Direction(d, q, w, g, v, lost)
<1>1. /\ d.queue \in Seq(Seq(S) \ {<<>>}) /\ d.flight \in Seq(Item(S)) /\ d.holed = c.holed
      /\ d.closed = c.closed
  BY ConnFields, Zenon DEF FieldTypes, Flown
<1>2. Data(d.flight) \in Seq(Seq(S)) /\ Parts(c, d, z)
  BY <1>1, LandParts, Zenon
<1>3. Finished(d, q, lost) /\ ~Reads(q)
  BY <1>2, LandFinished, Zenon DEF Direction
<1>4. Accounts(d, q, v)
  <2> DEFINE l == Len(Way(c))
             i == Len(p.inbox)
             k == Len(FlattenSeq(z))
             y == Len(Way(d))
             m == c.window
  <2>1. m = l + i + v /\ m <= Capacity
    BY Zenon DEF Direction, Accounts
  <2>2. i \in Nat /\ Capacity \in Nat
    BY FlightAssumption
  <2>3. l = k + y /\ k \in Nat /\ y \in Nat /\ m \in Int
    BY <1>2, Zenon DEF Parts
  <2> HIDE DEF l, i, k, y, m
  <2>4. m - k = y + i + v /\ m - k <= Capacity
    BY <2>1, <2>2, <2>3
  <2> QED
    BY <2>4, Zenon DEF Accounts, l, i, k, y, m
<1>5. ASSUME NEW b \in Nat, Starts(c, p, w, g, lost, b)
      PROVE  \E a \in Nat : Starts(d, q, w, g, lost, a)
  <2> DEFINE k == Len(FlattenSeq(z))
             y == Len(Way(d))
  <2>1. k \in Nat /\ y \in Nat /\ Len(Way(c)) = k + y
    BY <1>2, Zenon DEF Parts
  <2> HIDE DEF k, y
  <2>2. b + k \in Nat /\ b \in Int /\ b + (k + y) = (b + k) + y
    BY <2>1
  <2>3. Numbered(Way(d), b + k)
    BY <1>2, <1>5, <2>2, Zenon DEF Starts, Joined, Parts, k
  <2>4. Starts(d, q, w, g, lost, b + k)
    BY <1>1, <1>3, <1>5, <2>1, <2>2, <2>3, Zenon DEF Starts, y
  <2> QED
    BY <2>2, <2>4, Zenon
<1>6. Stream(d, q, w, g, lost)
  BY <1>1, <1>3, <1>5, Zenon DEF Direction, Stream
<1> QED
  BY <1>3, <1>4, <1>6, Zenon DEF Direction

\* Bytes that land follow what is unread.
LEMMA ArriveDirection ==
    ASSUME NEW S, NEW R, NEW d \in Conn(S, R), NEW c, NEW p, NEW w \in Nat, NEW g \in Nat, NEW v \in Nat,
           NEW lost, Direction(c, p, w, g, v, lost), p.inbox \in Seq(S),
           NEW z \in Seq(Seq(S)), Flown(c, d, z), d.window = c.window, ~c.holed,
           Reads(p), NEW q, Joins(q.inbox, p.inbox, FlattenSeq(z)), Told(p, q, z)
    PROVE  Direction(d, q, w, g, v, lost)
<1>1. /\ d.queue \in Seq(Seq(S) \ {<<>>}) /\ d.flight \in Seq(Item(S)) /\ d.holed = c.holed
      /\ d.closed = c.closed
  BY ConnFields, Zenon DEF FieldTypes, Flown
<1> DEFINE k == Len(FlattenSeq(z))
           y == Len(Way(d))
           i == Len(p.inbox)
           j == Len(q.inbox)
           l == Len(Way(c))
<1>17. Data(d.flight) \in Seq(Seq(S)) /\ FlattenSeq(z) \in Seq(S) /\ Parts(c, d, z)
  BY <1>1, LandParts, Zenon
<1>2. l = k + y /\ k \in Nat /\ y \in Nat
  BY <1>17, Zenon DEF Parts
<1>3. g \in Int
  OBVIOUS
<1>4. Joined(q.inbox, p.inbox, FlattenSeq(z), g)
  BY <1>17, <1>3, JoinedParts, Zenon
<1>5. j = i + k /\ i \in Nat
  BY <1>4, Zenon DEF Joined
<1>6. /\ Finished(d, q, lost) /\ Reads(q)
      /\ q.finReceived => Data(d.flight) = <<>> /\ d.queue = <<>>
  BY <1>17, LandFinished, Zenon DEF Direction
<1>7. c.closed # "aborted"
  BY Zenon DEF Direction, Finished
<1>8. PICK b \in Nat : Starts(c, p, w, g, lost, b)
  BY Zenon DEF Direction, Stream
<1>9. b = g + i /\ Numbered(Way(c), b) /\ (~lost => b + l = w)
  BY <1>7, <1>8, Zenon DEF Starts
<1> HIDE DEF k, y, i, j, l
<1>10. /\ b + k \in Nat /\ b \in Int /\ b + (k + y) = (b + k) + y
       /\ b + k = g + j /\ l + i + v = y + j + v
  BY <1>2, <1>5, <1>9
<1>11. Numbered(FlattenSeq(z), b) /\ Numbered(Way(d), b + k)
  BY <1>17, <1>9, <1>10, Zenon DEF Joined, Parts, k
<1>12. Numbered(q.inbox, g)
  <2>1. Numbered(p.inbox, g)
    BY Zenon DEF Direction, Stream
  <2> QED
    BY <1>4, <1>9, <1>11, <2>1, Zenon DEF Joined, i
<1>13. Starts(d, q, w, g, lost, b + k)
  BY <1>2, <1>9, <1>10, <1>11, Zenon DEF Starts, j, y
<1>14. ASSUME q.finReceived, ~lost PROVE g + j = w
  <2>1. Way(d) = <<>>
    <3>1. <<>> \o <<>> = <<>>
      OBVIOUS
    <3> QED
      BY <1>6, <1>14, <3>1, FlatEmpty, Zenon DEF Way, Fly
  <2>2. y = 0
    BY <2>1, NumberedEmpty, Zenon DEF y
  <2>3. l = k
    BY <1>2, <2>2
  <2> QED
    BY <1>9, <1>10, <1>14, <2>3, Zenon
<1>15. Stream(d, q, w, g, lost)
  BY <1>6, <1>10, <1>12, <1>13, <1>14, Zenon DEF Stream, j
<1>16. Accounts(d, q, v)
  <2>1. d.window = l + i + v /\ d.window <= Capacity
    BY Zenon DEF Direction, Accounts, l, i
  <2> QED
    BY <1>10, <2>1, Zenon DEF Accounts, y, j
<1> QED
  BY <1>6, <1>15, <1>16, Zenon DEF Direction

-----------------------------------------------------------------------------
(* put_in_flight.                                                          *)

\* What is put in flight is behind everything else there.
LEMMA PutFields ==
    ASSUME NEW S, NEW R, NEW c \in Conn(S, R), NEW e, NEW data \in Seq(S), NEW delay \in Nat
    PROVE  PutGone(c, Put(c, e, data, delay), data, S, R)
<1> DEFINE at == Max({delay, c.last + 1})
           x == [seq |-> c.next, at |-> at, data |-> data, owed |-> delay]
           f == Append(c.flight, x)
           h == IF Cut(cuts, e) /\ c.held = None THEN 0 ELSE c.held
           d == [c EXCEPT !.flight = f, !.next = c.next + 1, !.last = at, !.held = h]
<1>1. FieldTypes(c, S, R)
  BY ConnFields, Zenon
<1>2. c.last \in Int /\ c.next \in Nat /\ c.held \in Int /\ c.flight \in Seq(Item(S))
  BY <1>1, Zenon DEF FieldTypes
<1>3. at \in Int
  <2>1. c.last + 1 \in Int /\ delay \in Int
    BY <1>2
  <2>2. at \in {delay, c.last + 1}
    BY <2>1, MaxPair, Zenon
  <2> HIDE DEF at
  <2> QED
    BY <2>1, <2>2
<1>4. Put(c, e, data, delay) = d
  BY Zenon DEF Put
<1> HIDE DEF at
<1>5. x \in Item(S) /\ x.data = data
  BY <1>2, <1>3 DEF Item
<1> HIDE DEF x
<1>6. f \in Seq(Item(S)) /\ h \in Int /\ c.next + 1 \in Nat
  BY <1>2, <1>5 DEF None
<1> HIDE DEF f, h
<1>8. d \in Conn(S, R)
  BY <1>3, <1>6, Zenon DEF Conn
<1>9. /\ d.flight = f
      /\ d.queue = c.queue /\ d.inbox = c.inbox /\ d.window = c.window /\ d.closed = c.closed
      /\ d.sendClosed = c.sendClosed /\ d.recvClosed = c.recvClosed
      /\ d.finPending = c.finPending /\ d.finReceived = c.finReceived /\ d.holed = c.holed
  BY DEF Conn
<1> HIDE DEF d
<1>10. SameReceiver(c, d) /\ SameQueue(c, d)
  BY <1>9, Zenon DEF SameReceiver, SameQueue
<1>11. Data(d.flight) = Append(Data(c.flight), data)
  BY <1>2, <1>5, <1>9, DataAppend, Zenon DEF f
<1>12. Joins(Fly(d), Fly(c), data)
  BY <1>2, <1>5, <1>9, FlyPut, Zenon DEF f, Joins
<1> QED
  BY <1>4, <1>8, <1>9, <1>10, <1>11, <1>12, Zenon DEF PutGone

\* A FIN behind chunks that are not FINs is the last, and data leaves none.
LEMMA AppendFin ==
    ASSUME NEW T, NEW s \in Seq(T), NEW x \in T, Clean(s)
    PROVE  FinLast(Append(s, x)) /\ (x # <<>> => Clean(Append(s, x)))
BY DEF Clean, FinLast

\* Nothing is added by an empty chunk.
LEMMA WayFin ==
    ASSUME NEW S, NEW c, c.queue \in Seq(Seq(S) \ {<<>>}), c.flight \in Seq(Item(S)),
           NEW d, d.queue = c.queue, Joins(Fly(d), Fly(c), <<>>)
    PROVE  Way(d) = Way(c)
<1>1. Fly(c) \in Seq(S)
  BY WayType, Zenon
<1>2. Fly(c) \o <<>> = Fly(c)
  BY <1>1
<1> QED
  BY <1>2, Zenon DEF Way, Joins

\* A direction whose send side shuts says its end behind everything.
LEMMA FinDirection ==
    ASSUME NEW S, NEW R, NEW c \in Conn(S, R), NEW p, NEW w, NEW g, NEW v, NEW lost,
           Direction(c, p, w, g, v, lost), ~c.sendClosed \/ c.finPending, c.closed # "aborted",
           NEW d, Closing(c, d)
    PROVE  Direction(d, p, w, g, v, lost)
<1>1. c.queue \in Seq(Seq(S) \ {<<>>}) /\ c.flight \in Seq(Item(S))
  BY ConnFields, Zenon DEF FieldTypes
<1>2. Clean(Data(c.flight)) /\ ~p.finReceived
  BY NoFin, Zenon DEF Direction
<1>3. CASE FinSent(c, d)
  <2>1. Moved(c, d)
    BY <1>1, <1>3, WayFin, Zenon DEF Closing, Moved, FinSent
  <2>2. <<>> \in Seq(S) /\ Data(c.flight) \in Seq(Seq(S))
    BY <1>1, DataFacts
  <2>3. FinLast(Append(Data(c.flight), <<>>))
    BY <1>2, <2>2, AppendFin, Zenon
  <2>4. Finished(d, p, lost)
    BY <1>2, <1>3, <2>3, Zenon DEF Finished, Closing, FinSent, Said
  <2> QED
    BY <2>1, <2>4, MoveDirection, Zenon
<1>4. CASE FinWaits(c, d)
  <2>1. Moved(c, d)
    BY <1>4, Zenon DEF Closing, Moved, FinWaits, Way, Fly
  <2>2. FinLast(Data(c.flight))
    BY Zenon DEF Direction, Finished
  <2>3. Finished(d, p, lost)
    BY <1>2, <1>4, <2>2, Zenon DEF Finished, Closing, FinWaits
  <2> QED
    BY <2>1, <2>3, MoveDirection, Zenon
<1> QED
  BY <1>3, <1>4, Zenon DEF Closing

\* FinAfter: the FIN of an end waits behind its queue, or goes out at once.
LEMMA FinAfterGone ==
    ASSUME NEW S, NEW R, NEW c \in Conn(S, R), NEW e
    PROVE  FinGone(c, FinAfter(c, e), S, R)
<1> DEFINE f == FinAfter(c, e)
<1>1. CASE c.sending \/ c.queue # <<>>
  <2>1. f = [c EXCEPT !.finPending = TRUE]
    BY <1>1, Zenon DEF FinAfter
  <2> HIDE DEF f
  <2>2. /\ f \in Conn(S, R) /\ f.finPending = TRUE /\ f.queue = c.queue
        /\ f.inbox = c.inbox /\ f.closed = c.closed /\ f.recvClosed = c.recvClosed
        /\ f.finReceived = c.finReceived /\ f.flight = c.flight
        /\ f.window = c.window /\ f.holed = c.holed
    BY <2>1, Zenon DEF Conn
  <2> QED
    BY <2>2, Zenon DEF FinGone, SameReceiver, FinWaits, f
<1>2. CASE ~(c.sending \/ c.queue # <<>>)
  <2>1. f = Put(c, e, <<>>, 1)
    BY <1>2, Zenon DEF FinAfter, PutFin
  <2>2. <<>> \in Seq(S) /\ 1 \in Nat /\ c.finPending \in BOOLEAN
    BY DEF Conn
  <2>3. PutGone(c, f, <<>>, S, R)
    BY <2>1, <2>2, PutFields, Zenon
  <2> HIDE DEF f
  <2>4. f.finPending = c.finPending
    BY <2>3, Zenon DEF PutGone, SameQueue
  <2>5. ~c.finPending => f.finPending = FALSE
    BY <2>2, <2>4
  <2> QED
    BY <1>2, <2>3, <2>5, Zenon DEF PutGone, FinGone, SameQueue, FinSent, f
<1> QED
  BY <1>1, <1>2, Zenon

\* Drained: a queue that has nothing more sends the FIN that waited for it.
LEMMA DrainDirection ==
    ASSUME NEW S, NEW R, NEW c \in Conn(S, R), NEW e, NEW p, NEW w, NEW g, NEW v, NEW lost,
           Direction(c, p, w, g, v, lost), c.queue = <<>>
    PROVE  /\ Drained(c, e) \in Conn(S, R) /\ SameReceiver(c, Drained(c, e))
           /\ Direction(Drained(c, e), p, w, g, v, lost)
<1> DEFINE b == [c EXCEPT !.sending = FALSE, !.finPending = FALSE]
           d == Drained(c, e)
<1>1. /\ b \in Conn(S, R) /\ b.finPending = FALSE /\ b.sendClosed = c.sendClosed /\ b.queue = c.queue
      /\ b.inbox = c.inbox /\ b.closed = c.closed /\ b.recvClosed = c.recvClosed
      /\ b.finReceived = c.finReceived /\ b.flight = c.flight
      /\ b.window = c.window /\ b.holed = c.holed
  BY Zenon DEF Conn
<1> HIDE DEF b
<1>2. SameReceiver(c, b)
  BY <1>1, Zenon DEF SameReceiver
<1>3. CASE ~c.finPending
  <2>1. d = b
    BY <1>3, Zenon DEF Drained, b
  <2>2. c.finPending = FALSE
    BY <1>3 DEF Conn
  <2>3. SameSender(c, b) /\ SameReceiver(p, p)
    BY <1>1, <2>2, Zenon DEF SameSender, SameQueue, SameReceiver
  <2> QED
    BY <1>1, <1>2, <2>1, <2>3, DirectionFrame, Zenon
<1>4. CASE c.finPending
  <2>1. d = Put(b, e, <<>>, 1)
    BY <1>4, Zenon DEF Drained, PutFin, b
  <2>2. <<>> \in Seq(S) /\ 1 \in Nat
    OBVIOUS
  <2>3. PutGone(b, d, <<>>, S, R)
    BY <1>1, <2>1, <2>2, PutFields, Zenon
  <2> HIDE DEF d
  <2>4. c.sendClosed /\ c.closed # "aborted"
    BY <1>4, Zenon DEF Direction, Finished
  <2>5. c.sendClosed = TRUE
    BY <2>4 DEF Conn
  <2>6. FinSent(c, d)
    BY <1>1, <2>3, Zenon DEF PutGone, SameQueue, FinSent, Fly
  <2>7. Closing(c, d)
    BY <1>1, <2>3, <2>4, <2>5, <2>6, Zenon DEF PutGone, SameQueue, SameReceiver, Closing
  <2>8. Direction(d, p, w, g, v, lost)
    BY <1>4, <2>4, <2>7, FinDirection, Zenon
  <2>9. SameReceiver(c, d) /\ d \in Conn(S, R)
    BY <1>2, <2>3, Zenon DEF PutGone, SameReceiver
  <2> QED
    BY <2>8, <2>9, Zenon DEF d
<1> QED
  BY <1>3, <1>4, Zenon

\* Send: a part of the first chunk of the queue goes on the wire.
LEMMA ChunkPut ==
    ASSUME NEW S, NEW R, NEW c \in Conn(S, R), NEW e, c.queue # <<>>,
           NEW n \in 1 .. Len(Head(c.queue)), NEW delay \in Nat
    PROVE  /\ ChunkGone(c, Sent(c, e, n, delay), SubSeq(Head(c.queue), 1, n), S, R)
           /\ Sent(c, e, n, delay).queue = Rest(c.queue, n)
<1> DEFINE rest == Rest(c.queue, n)
           data == SubSeq(Head(c.queue), 1, n)
           b == [c EXCEPT !.queue = rest]
           d == Put(b, e, data, delay)
<1>1. c.queue \in Seq(Seq(S) \ {<<>>}) /\ c.flight \in Seq(Item(S))
  BY ConnFields, Zenon DEF FieldTypes
<1>2. /\ rest \in Seq(Seq(S) \ {<<>>}) /\ data \in Seq(S) \ {<<>>}
      /\ data \o FlattenSeq(rest) = FlattenSeq(c.queue)
  BY <1>1, RestFlat, Zenon
<1> HIDE DEF rest, data
<1>3. /\ b \in Conn(S, R) /\ b.finPending = c.finPending /\ b.sendClosed = c.sendClosed /\ b.queue = rest
      /\ b.inbox = c.inbox /\ b.closed = c.closed /\ b.recvClosed = c.recvClosed
      /\ b.finReceived = c.finReceived /\ b.flight = c.flight
      /\ b.window = c.window /\ b.holed = c.holed
  BY <1>2, Zenon DEF Conn
<1> HIDE DEF b
<1>4. PutGone(b, d, data, S, R)
  BY <1>2, <1>3, PutFields, Zenon
<1> HIDE DEF d
<1>0. Sent(c, e, n, delay) = d
  BY Zenon DEF Sent, rest, data, b, d
<1>5. /\ d \in Conn(S, R) /\ d.queue = rest /\ d.finPending = c.finPending /\ d.sendClosed = c.sendClosed
      /\ SameReceiver(c, d) /\ d.closed = c.closed /\ d.window = c.window /\ d.holed = c.holed
  BY <1>3, <1>4, Zenon DEF PutGone, SameQueue, SameReceiver
<1>6. Data(d.flight) = Append(Data(c.flight), data) /\ Fly(d) = Fly(c) \o data
  BY <1>3, <1>4, Zenon DEF PutGone, Joins, Fly
<1>7. Way(d) = Way(c)
  BY <1>1, <1>2, <1>5, <1>6, WayPut, Zenon
<1> QED
  BY <1>0, <1>2, <1>5, <1>6, <1>7, Zenon DEF ChunkGone, Moved, rest, data

\* And the stream goes on.
LEMMA ChunkDirection ==
    ASSUME NEW S, NEW R, NEW c \in Conn(S, R), NEW p, NEW w, NEW g, NEW v, NEW lost,
           Direction(c, p, w, g, v, lost), c.queue # <<>>, NEW d, NEW data, ChunkGone(c, d, data, S, R)
    PROVE  Direction(d, p, w, g, v, lost)
<1>1. Clean(Data(c.flight)) /\ ~p.finReceived
  BY NoFin, Zenon DEF Direction
<1>2. Data(c.flight) \in Seq(Seq(S))
  BY DataFacts, ConnFields, Zenon DEF FieldTypes
<1>3. Data(d.flight) = Append(Data(c.flight), data) /\ data \in Seq(S) /\ data # <<>>
  BY Zenon DEF ChunkGone
<1>4. FinLast(Data(d.flight)) /\ Clean(Data(d.flight))
  BY <1>1, <1>2, <1>3, AppendFin, Zenon
<1>5. Finished(d, p, lost)
  BY <1>1, <1>4, Zenon DEF Direction, Finished, ChunkGone, SameReceiver
<1> QED
  BY <1>5, MoveDirection, Zenon DEF ChunkGone

-----------------------------------------------------------------------------
(* The invariant and its parts.                                            *)

\* What the invariant says of the two ends.
LEMMA PairFacts ==
    ASSUME IInv, NEW e \in Ends
    PROVE  Pair(e, Peer(e))
<1> DEFINE p == Peer(e)
<1>1. p \in Ends /\ p # e /\ Peer(p) = e /\ \A x \in Ends : x = e \/ x = p
  BY PeerFacts, Zenon
<1> HIDE DEF p
<1>2. Sound(e) /\ Sound(p) /\ conn = [x \in Ends |-> conn[x]]
  BY <1>1, Zenon DEF IInv
<1>3. Peer(e) = p
  BY Zenon DEF p
<1>4. conn[e] \in Conn(Bytes(e), Bytes(p)) /\ conn[p] \in Conn(Bytes(p), Bytes(e))
  BY <1>1, <1>2, <1>3, Zenon DEF Sound
<1>5. conn[e].inbox \in Seq(Bytes(p)) /\ conn[p].inbox \in Seq(Bytes(e))
  BY <1>4, ConnFields, Zenon DEF FieldTypes
<1>6. written \in [Ends -> Nat] /\ got \in [Ends -> Nat] /\ vanished \in [Ends -> Nat]
  BY Zenon DEF IInv, Tidy, Counted
<1>7. /\ written[e] \in Nat /\ got[e] \in Nat /\ vanished[e] \in Nat
      /\ written[p] \in Nat /\ got[p] \in Nat /\ vanished[p] \in Nat
  BY <1>1, <1>6, Zenon
<1>8. /\ Direction(conn[e], conn[p], written[e], got[e], vanished[e], e \in broken)
      /\ Direction(conn[p], conn[e], written[p], got[p], vanished[p], p \in broken)
  BY <1>1, <1>2, <1>3, Zenon DEF Sound
<1> QED
  BY <1>1, <1>2, <1>3, <1>4, <1>5, <1>7, <1>8, ZenonT(60) DEF Pair

\* The parts of the invariant make the whole.
LEMMA Assembled ==
    ASSUME NEW e, NEW p, Pair(e, p), world \in Worlds, Orderly, Counted(written', got', vanished'),
           NEW d \in Conn(Bytes(e), Bytes(p)), NEW q \in Conn(Bytes(p), Bytes(e)), Leaves(e, d, p, q),
           Direction(d, q, written'[e], got'[e], vanished'[e], e \in broken'),
           Direction(q, d, written'[p], got'[p], vanished'[p], p \in broken')
    PROVE  IInv'
<1>1. world' = world /\ \A x : Bytes(x)' = Bytes(x)
  BY Zenon DEF Bytes, Orderly
<1>2. Tidy'
  BY <1>1, Zenon DEF Tidy, Orderly, Counted
<1>3. Sound(e)' /\ Sound(p)'
  BY <1>1, Zenon DEF Sound, Pair, Leaves
<1>4. \A x \in Ends : Sound(x)'
  BY <1>3, Zenon DEF Pair
<1>5. (\A x \in Ends : Sound(x))'
  BY <1>4, Zenon
<1> QED
  BY <1>2, <1>5, Zenon DEF IInv, Leaves

\* A step of one end that leaves what it receives alone.
LEMMA SenderStep ==
    ASSUME IInv, NEW e, NEW p, Pair(e, p), Orderly, SameHistory,
           NEW d \in Conn(Bytes(e), Bytes(p)), conn' = [conn EXCEPT ![e] = d], SameReceiver(conn[e], d),
           Direction(d, conn[p], written[e], got[e], vanished[e], e \in broken)
    PROVE  IInv'
<1>1. Leaves(e, d, p, conn[p])
  BY DEF Leaves, Pair
<1>2. SameSender(conn[p], conn[p])
  BY Zenon DEF SameSender, SameQueue
<1>3. Direction(conn[p], d, written[p], got[p], vanished[p], p \in broken)
  BY <1>2, DirectionFrame, Zenon DEF Pair
<1>4. world \in Worlds /\ Counted(written', got', vanished')
  BY Zenon DEF IInv, Tidy, SameHistory
<1>5. conn[p] \in Conn(Bytes(p), Bytes(e))
  BY Zenon DEF Pair
<1>6. /\ Direction(d, conn[p], written'[e], got'[e], vanished'[e], e \in broken')
      /\ Direction(conn[p], d, written'[p], got'[p], vanished'[p], p \in broken')
  BY <1>3, Zenon DEF SameHistory
<1> QED
  BY <1>1, <1>4, <1>5, <1>6, Assembled, ZenonT(60)

\* A step that moves no byte.
LEMMA QuietStep ==
    ASSUME IInv, Orderly, SameHistory, conn' = [x \in Ends |-> conn'[x]],
           \A x \in Ends : Quiet(conn[x], conn'[x], Bytes(x), Bytes(Peer(x)))
    PROVE  IInv'
<1>1. 1 \in Ends
  BY DEF Ends
<1> DEFINE p == Peer(1)
<1>2. Pair(1, p)
  BY <1>1, PairFacts, Zenon
<1> HIDE DEF p
<1>3. /\ Quiet(conn[1], conn'[1], Bytes(1), Bytes(p)) /\ Quiet(conn[p], conn'[p], Bytes(p), Bytes(1))
      /\ Leaves(1, conn'[1], p, conn'[p])
  BY <1>1, <1>2, Zenon DEF Pair, Leaves
<1>4. world \in Worlds /\ Counted(written', got', vanished')
  BY Zenon DEF IInv, Tidy, SameHistory
<1>5. /\ Direction(conn'[1], conn'[p], written[1], got[1], vanished[1], 1 \in broken)
      /\ Direction(conn'[p], conn'[1], written[p], got[p], vanished[p], p \in broken)
  BY <1>2, <1>3, DirectionFrame, Zenon DEF Pair, Quiet
<1>6. /\ Direction(conn'[1], conn'[p], written'[1], got'[1], vanished'[1], 1 \in broken')
      /\ Direction(conn'[p], conn'[1], written'[p], got'[p], vanished'[p], p \in broken')
  BY <1>5, Zenon DEF SameHistory
<1> QED
  BY <1>2, <1>3, <1>4, <1>6, Assembled, Zenon DEF Quiet

\* A connection is like itself.
LEMMA QuietSelf ==
    ASSUME NEW S, NEW R, NEW c \in Conn(S, R)
    PROVE  Quiet(c, c, S, R)
BY Zenon DEF Quiet, SameSender, SameReceiver, SameQueue

\* A step that leaves the connections alone.
LEMMA IdleStep ==
    ASSUME IInv, Orderly, SameHistory, conn' = conn
    PROVE  IInv'
<1>1. \A x \in Ends : conn[x] \in Conn(Bytes(x), Bytes(Peer(x)))
  BY Zenon DEF IInv, Sound
<1>2. \A x \in Ends : Quiet(conn[x], conn'[x], Bytes(x), Bytes(Peer(x)))
  BY <1>1, QuietSelf, Zenon
<1>3. conn' = [x \in Ends |-> conn'[x]]
  BY Zenon DEF IInv
<1> QED
  BY <1>2, <1>3, QuietStep, Zenon

\* A step of one end that moves no byte.
LEMMA QuietEnd ==
    ASSUME IInv, Orderly, SameHistory, NEW e \in Ends, NEW d, conn' = [conn EXCEPT ![e] = d],
           Quiet(conn[e], d, Bytes(e), Bytes(Peer(e)))
    PROVE  IInv'
<1>1. Pair(e, Peer(e))
  BY PairFacts, Zenon
<1>2. SameReceiver(conn[Peer(e)], conn[Peer(e)])
  BY Zenon DEF SameReceiver
<1>3. Direction(d, conn[Peer(e)], written[e], got[e], vanished[e], e \in broken)
  BY <1>1, <1>2, DirectionFrame, Zenon DEF Pair, Quiet
<1> QED
  BY <1>1, <1>3, SenderStep, Zenon DEF Quiet

-----------------------------------------------------------------------------
(* Tasks, faults and events.                                               *)

\* Waking tasks leaves them tasks.
LEMMA TasksWoken ==
    ASSUME NEW T, NEW tasks \in [Ends -> T], "running" \in T
    PROVE  /\ \A e, registry : Woken(tasks, e, registry) \in [Ends -> T]
           /\ WokenAll(tasks) \in [Ends -> T]
           /\ \A e : \A x \in T : [tasks EXCEPT ![e] = x] \in [Ends -> T]
BY Zenon DEF Woken, WokenAll

\* The states of the tasks.
LEMMA TaskStates ==
    /\ {"running", "parked", "clogged", "eof", "reset", "gone"} = ReaderStates
    /\ {"running", "parked", "clogged", "ended", "gone"} = WriterStates
    /\ "running" \in ReaderStates /\ "running" \in WriterStates
    /\ "gone" \in ReaderStates /\ "gone" \in WriterStates
BY Zenon DEF ReaderStates, WriterStates

\* Before a step.
LEMMA TidyFacts ==
    ASSUME IInv
    PROVE  /\ world \in Worlds /\ faults \in 0 .. world.faults
           /\ reader \in [Ends -> ReaderStates] /\ writer \in [Ends -> WriterStates]
           /\ Counted(written, got, vanished) /\ Addressed(events)
           /\ conn = [x \in Ends |-> conn[x]]
BY Zenon DEF IInv, Tidy

\* A fault is one of those there are.
LEMMA FaultsStay ==
    ASSUME IInv, NEW kind, Fault(kind)
    PROVE  faults' \in 0 .. world.faults
<1>1. world.faults \in Nat /\ faults \in 0 .. world.faults
  BY TidyFacts, FlightAssumption, Zenon
<1> QED
  BY <1>1 DEF Fault

\* Sets of events.
LEMMA AddressedSets ==
    ASSUME NEW E, NEW F, Addressed(E)
    PROVE  Addressed(E \ F) /\ (Addressed(F) => Addressed(E \cup F))
BY Zenon DEF Addressed

\* Events that are scheduled.
LEMMA AddressedEvents ==
    /\ \A e \in Ends : \A n, t : /\ Addressed({Event("Delivery", e, n, t)})
                                 /\ Addressed({Event("Process", e, n, t)})
    /\ \A kind, x, n, t : kind \notin {"Delivery", "Process"} => Addressed({Event(kind, x, n, t)})
    /\ Addressed({})
BY Zenon DEF Addressed

\* The events of an end name it.
LEMMA EventEnd ==
    ASSUME NEW E, Addressed(E), NEW ev \in E, ev.what \in {"Delivery", "Process"}
    PROVE  ev.end \in Ends
<1>1. PICK what, x, n, t : ev = Event(what, x, n, t) /\ (what \in {"Delivery", "Process"} => x \in Ends)
  BY Zenon DEF Addressed
<1>2. ev.what = what /\ ev.end = x
  BY <1>1 DEF Event
<1> QED
  BY <1>1, <1>2, Zenon

\* What lands is an event of the end that sent it.
LEMMA LandingAddressed ==
    ASSUME NEW e \in Ends
    PROVE  /\ \A c : Addressed({Landing(c, e)})
           /\ \A c : Addressed(FinEvents(c, e)) /\ Addressed(DrainedEvents(c, e))
<1>1. \A c : Addressed({Landing(c, e)})
  BY AddressedEvents, Zenon DEF Landing
<1>2. Addressed({})
  BY AddressedEvents, Zenon
<1>3. \A c : Addressed(FinEvents(c, e)) /\ Addressed(DrainedEvents(c, e))
  BY <1>1, <1>2, Zenon DEF FinEvents, DrainedEvents
<1> QED
  BY <1>1, <1>3, Zenon

-----------------------------------------------------------------------------
(* The first state, and what the invariant implies.                        *)

\* A connection that was just made.
LEMMA InitInv ==
    ASSUME Init
    PROVE  IInv
<1> DEFINE N == NewConnection
<1>1. /\ world \in Worlds /\ faults = world.faults /\ conn = [e \in Ends |-> N] /\ events = {}
      /\ reader = [e \in Ends |-> "running"] /\ writer = [e \in Ends |-> "running"]
      /\ written = [e \in Ends |-> 0] /\ got = [e \in Ends |-> 0] /\ vanished = [e \in Ends |-> 0]
      /\ broken = {}
  BY Zenon DEF Init
<1>2. world.faults \in Nat /\ Capacity \in Nat /\ \A e \in Ends : world.bytes[e] \in Nat
  BY <1>1, FlightAssumption, ZenonT(60) DEF Ends
<1>3. Tidy
  <2>1. faults \in 0 .. world.faults
    BY <1>1, <1>2, SMTT(60)
  <2>2. reader \in [Ends -> ReaderStates] /\ writer \in [Ends -> WriterStates]
    BY <1>1, ZenonT(60) DEF ReaderStates, WriterStates
  <2>3. Counted(written, got, vanished)
    BY <1>1, <1>2, SMTT(60) DEF Counted
  <2>4. Addressed(events)
    BY <1>1, AddressedEvents, ZenonT(60)
  <2> QED
    BY <1>1, <2>1, <2>2, <2>3, <2>4, ZenonT(60) DEF Tidy
<1>4. /\ N.queue = <<>> /\ N.flight = <<>> /\ N.inbox = <<>> /\ N.window = 0 /\ N.closed = "no"
      /\ N.sendClosed = FALSE /\ N.recvClosed = FALSE /\ N.finPending = FALSE /\ N.finReceived = FALSE
      /\ N.holed = FALSE
  BY ZenonT(60) DEF NewConnection
<1>5. ASSUME NEW S, NEW R PROVE N \in Conn(S, R)
  <2>1. None \in Int /\ <<>> \in Seq(Seq(S) \ {<<>>}) /\ <<>> \in Seq(Item(S)) /\ <<>> \in Seq(R)
    BY DEF None
  <2> QED
    BY <2>1 DEF NewConnection, Conn
<1> HIDE DEF N
<1>6. Direction(N, N, 0, 0, 0, FALSE)
  <2>1. Data(N.flight) = <<>> /\ FlattenSeq(N.queue) = <<>> /\ FlattenSeq(<<>>) = <<>>
    BY <1>4, DataEmpty, FlatEmpty, Zenon
  <2>2. Way(N) = <<>>
    <3>1. Way(N) = <<>> \o <<>>
      BY <2>1, Zenon DEF Way, Fly
    <3> QED
      BY <3>1
  <2>3. Len(<<>>) = 0 /\ 0 + 0 + 0 = 0 /\ 0 + 0 = 0 /\ 0 \in Nat /\ 0 <= Capacity /\ DOMAIN <<>> = {}
    BY <1>2
  <2>4. Accounts(N, N, 0)
    BY <1>4, <2>2, <2>3, Zenon DEF Accounts
  <2>5. Stream(N, N, 0, 0, FALSE)
    <3>1. Numbered(<<>>, 0)
      BY NumberedEmpty, Zenon
    <3>2. Starts(N, N, 0, 0, FALSE, 0)
      BY <1>4, <2>2, <2>3, <3>1, Zenon DEF Starts
    <3> QED
      BY <1>4, <2>3, <3>1, <3>2, Zenon DEF Stream
  <2>6. Finished(N, N, FALSE)
    <3>1. FinLast(<<>>) /\ Clean(<<>>) /\ N.closed # "aborted"
      BY <1>4, <2>3 DEF FinLast, Clean
    <3> QED
      BY <1>4, <2>1, <3>1, ZenonT(60) DEF Finished
  <2> QED
    BY <2>4, <2>5, <2>6, Zenon DEF Direction
<1>7. ASSUME NEW x \in Ends PROVE Sound(x)
  <2>1. /\ conn[x] = N /\ conn[Peer(x)] = N /\ written[x] = 0 /\ got[x] = 0 /\ vanished[x] = 0
        /\ (x \in broken) = FALSE
    <3>1. Peer(x) \in Ends
      BY PeerFacts, Zenon
    <3> QED
      BY <1>1, <3>1, SMTT(60)
  <2> QED
    BY <1>5, <1>6, <2>1, ZenonT(60) DEF Sound
<1>8. conn = [x \in Ends |-> conn[x]]
  BY <1>1
<1> QED
  BY <1>3, <1>7, <1>8, Zenon DEF IInv

\* The invariant says what the window holds.
LEMMA InvWindow ==
    ASSUME IInv
    PROVE  WindowAccounts
<1>1. /\ world \in Worlds /\ faults \in 0 .. world.faults
      /\ reader \in [Ends -> ReaderStates] /\ writer \in [Ends -> WriterStates]
  BY TidyFacts, Zenon
<1>2. ASSUME NEW e \in Ends
      PROVE  /\ conn[e].queue \in Seq(Seq(Bytes(e))) /\ conn[e].inbox \in Seq(Bytes(Peer(e)))
             /\ \A i \in DOMAIN conn[e].flight :
                 conn[e].flight[i] \in [seq : Nat, at : Int, data : Seq(Bytes(e)), owed : Nat]
             /\ conn[e].closed \in {"no", "graceful", "aborted"}
             /\ reader[e] \in {"running", "parked", "clogged", "eof", "reset", "gone"}
             /\ writer[e] \in {"running", "parked", "clogged", "ended", "gone"}
             /\ conn[e].window = Queued(conn[e]) + Flying(conn[e]) + Len(conn[Peer(e)].inbox) + vanished[e]
             /\ conn[e].window <= Capacity
  <2> DEFINE c == conn[e]
             p == conn[Peer(e)]
             S == Bytes(e)
             R == Bytes(Peer(e))
  <2>1. /\ c \in Conn(S, R) /\ p.inbox \in Seq(S) /\ vanished[e] \in Nat
        /\ Direction(c, p, written[e], got[e], vanished[e], e \in broken)
    BY PairFacts, Zenon DEF Pair
  <2>2. /\ reader[e] \in {"running", "parked", "clogged", "eof", "reset", "gone"}
        /\ writer[e] \in {"running", "parked", "clogged", "ended", "gone"}
    BY <1>1 DEF ReaderStates, WriterStates
  <2> HIDE DEF c, p, S, R
  <2>3. /\ c.queue \in Seq(Seq(S) \ {<<>>}) /\ c.flight \in Seq(Item(S)) /\ c.inbox \in Seq(R)
        /\ c.closed \in {"no", "graceful", "aborted"}
    BY <2>1, ConnFields, Zenon DEF FieldTypes
  <2>4. /\ c.queue \in Seq(Seq(S)) /\ FlattenSeq(c.queue) \in Seq(S) /\ Fly(c) \in Seq(S)
    BY <2>3, WayType, Zenon
  <2>5. \A i \in DOMAIN c.flight : c.flight[i] \in [seq : Nat, at : Int, data : Seq(S), owed : Nat]
    <3>1. \A i \in DOMAIN c.flight : c.flight[i] \in Item(S)
      BY <2>3
    <3> QED
      BY <3>1, Zenon DEF Item
  <2>6. c.window = Queued(c) + Flying(c) + Len(p.inbox) + vanished[e] /\ c.window <= Capacity
    <3> DEFINE m == Len(Fly(c))
               n == Len(FlattenSeq(c.queue))
               k == Len(p.inbox)
               v == vanished[e]
               l == Len(Way(c))
    <3>1. m \in Nat /\ n \in Nat /\ k \in Nat /\ v \in Nat /\ l = m + n
      BY <2>1, <2>4, SMTT(60) DEF Way
    <3>2. c.window = l + k + v /\ c.window <= Capacity
      BY <2>1, Zenon DEF Direction, Accounts
    <3>3. Queued(c) = n /\ Flying(c) = m
      BY Zenon DEF Queued, Flying, Fly, Data
    <3> HIDE DEF m, n, k, v, l
    <3>4. c.window = n + m + k + v
      BY <3>1, <3>2, SMTT(60)
    <3> QED
      BY <3>2, <3>3, <3>4, ZenonT(60) DEF k, v
  <2> QED
    BY <2>2, <2>3, <2>4, <2>5, <2>6, ZenonT(60) DEF c, p, S, R
<1>3. FlightTypeOK
  BY <1>1, <1>2, Zenon DEF FlightTypeOK
<1> QED
  BY <1>2, <1>3, Zenon DEF WindowAccounts

\* The invariant says what the stream is.
LEMMA InvStream ==
    ASSUME IInv
    PROVE  StreamKept
<1>1. ASSUME NEW e \in Ends
      PROVE  /\ Contiguous(conn[Peer(e)].inbox)
             /\ conn[Peer(e)].inbox # <<>> => conn[Peer(e)].inbox[1] = got[e] + 1
             /\ ~conn[e].holed => Contiguous(Pipe(e))
             /\ (/\ conn[Peer(e)].finReceived
                 /\ e \notin broken
                 /\ conn[Peer(e)].closed = "no"
                 /\ ~conn[Peer(e)].recvClosed)
                 => got[e] + Len(conn[Peer(e)].inbox) = written[e]
  <2> DEFINE c == conn[e]
             p == conn[Peer(e)]
             S == Bytes(e)
             R == Bytes(Peer(e))
             g == got[e]
  <2>1. /\ c \in Conn(S, R) /\ p.inbox \in Seq(S) /\ g \in Nat
        /\ Direction(c, p, written[e], g, vanished[e], e \in broken)
    BY PairFacts, Zenon DEF Pair
  <2>0. Pipe(e) = (p.inbox \o Fly(c)) \o FlattenSeq(c.queue)
    BY Zenon DEF Pipe, Fly, Data
  <2> HIDE DEF c, p, S, R, g
  <2>2. g \in Int
    BY <2>1
  <2>3. Stream(c, p, written[e], g, e \in broken)
    BY <2>1, Zenon DEF Direction
  <2>4. /\ Contiguous(p.inbox) /\ (p.inbox # <<>> => p.inbox[1] = g + 1)
    BY <2>1, <2>2, <2>3, NumberedContiguous, Zenon DEF Stream
  <2>5. ASSUME ~c.holed PROVE Contiguous(Pipe(e))
    <3> DEFINE y == Way(c)
               s == p.inbox
    <3>1. PICK b \in Nat : Starts(c, p, written[e], g, e \in broken, b)
      BY <2>3, <2>5, Zenon DEF Stream
    <3>2. c.queue \in Seq(Seq(S) \ {<<>>}) /\ c.flight \in Seq(Item(S))
      BY <2>1, ConnFields, Zenon DEF FieldTypes
    <3>3. FlattenSeq(c.queue) \in Seq(S) /\ Fly(c) \in Seq(S) /\ y \in Seq(S)
      BY <3>2, WayType, Zenon
    <3>4. Pipe(e) = s \o y
      <4>1. Together(s, Fly(c), FlattenSeq(c.queue))
        BY <2>1, <3>3, ConcatGroups, Zenon
      <4> QED
        BY <2>0, <4>1, Zenon DEF Together, Way
    <3>5. /\ Numbered(y, b) /\ Numbered(s, g) /\ (Reads(p) => b = g + Len(s)) /\ (~Reads(p) => s = <<>>)
      BY <2>3, <3>1, Zenon DEF Starts, Stream
    <3> HIDE DEF y, s
    <3>6. \E k \in Int : Numbered(s \o y, k)
      <4>1. CASE Reads(p)
        <5>1. Numbered(s \o y, g) <=> Numbered(s, g) /\ Numbered(y, g + Len(s))
          BY <2>1, <2>2, <3>3, NumberedConcat, Zenon DEF s
        <5> QED
          BY <2>2, <3>5, <4>1, <5>1, Zenon
      <4>2. CASE ~Reads(p)
        <5>1. s = <<>> /\ b \in Int
          BY <3>5, <4>2, SMTT(60)
        <5>2. s \o y = y
          BY <3>3, <5>1, SMTT(60)
        <5> QED
          BY <3>5, <5>1, <5>2, Zenon
      <4> QED
        BY <4>1, <4>2, Zenon
    <3>7. s \o y \in Seq(S)
      BY <2>1, <3>3, SMTT(60) DEF s
    <3>8. Contiguous(s \o y)
      BY <3>6, <3>7, NumberedContiguous, Zenon
    <3> QED
      BY <3>4, <3>8, Zenon
  <2>6. p.finReceived /\ e \notin broken /\ p.closed = "no" /\ ~p.recvClosed => g + Len(p.inbox) = written[e]
    BY <2>3, Zenon DEF Stream, Reads
  <2> QED
    BY <2>4, <2>5, <2>6, Zenon DEF c, p, g
<1> QED
  BY <1>1, Zenon DEF StreamKept

-----------------------------------------------------------------------------
(* The clock, and a random close.                                          *)

\* A flight whose items are timed anew, and nothing else.
LEMMA QuietFlight ==
    ASSUME NEW S, NEW R, NEW c \in Conn(S, R), NEW f \in Seq(Item(S)), DOMAIN f = DOMAIN c.flight,
           \A i \in DOMAIN f : f[i].data = c.flight[i].data, NEW l \in Int, NEW h \in Int,
           NEW d, d = [c EXCEPT !.flight = f, !.last = l, !.held = h]
    PROVE  Quiet(c, d, S, R)
<1>1. Data(f) = Data(c.flight)
  BY DataSame, Zenon
<1>2. /\ d \in Conn(S, R) /\ d.queue = c.queue /\ d.finPending = c.finPending /\ d.sendClosed = c.sendClosed
      /\ d.flight = f /\ d.window = c.window /\ d.closed = c.closed /\ d.holed = c.holed
      /\ d.inbox = c.inbox /\ d.recvClosed = c.recvClosed /\ d.finReceived = c.finReceived
  BY Zenon DEF Conn
<1> QED
  BY <1>1, <1>2, Zenon DEF Quiet, SameSender, SameQueue, SameReceiver

\* The types of a connection and of its peer.
LEMMA ConnTypes ==
    ASSUME IInv
    PROVE  \A x \in Ends : conn[x] \in Conn(Bytes(x), Bytes(Peer(x)))
  BY PairFacts, Zenon DEF Pair

\* The clock: every item flies on, and every event comes nearer.
LEMMA TickStep ==
    ASSUME IInv, Tick
    PROVE  IInv'
<1> DEFINE Fl(x) == [i \in DOMAIN conn[x].flight |-> [conn[x].flight[i] EXCEPT
                        !.at = @ - 1, !.owed = IF Cut(cuts, x) THEN @ ELSE Max({@ - 1, 0})]]
           La(x) == IF conn[x].held = None THEN Max({conn[x].last - 1, None}) ELSE conn[x].last - 1
           He(x) == IF conn[x].held = None THEN None ELSE conn[x].held + 1
           After(x) == [conn[x] EXCEPT !.flight = Fl(x), !.last = La(x), !.held = He(x)]
<1>1. /\ events' = {[ev EXCEPT !.in = @ - 1] : ev \in events}
      /\ conn' = [x \in Ends |-> After(x)]
      /\ UNCHANGED <<world, faults, reader, writer, history>>
  BY Zenon DEF Tick
<1>2. /\ world \in Worlds /\ faults \in 0 .. world.faults /\ Addressed(events)
      /\ reader \in [Ends -> ReaderStates] /\ writer \in [Ends -> WriterStates]
  BY TidyFacts, Zenon
<1>3. Addressed(events')
  <2> DEFINE Sooner(ev) == [ev EXCEPT !.in = @ - 1]
  <2>1. ASSUME NEW ev \in events
        PROVE  \E what, x, n, t :
                  /\ Sooner(ev) = Event(what, x, n, t)
                  /\ what \in {"Delivery", "Process"} => x \in Ends
    <3>1. PICK what, x, n, t : ev = Event(what, x, n, t) /\ (what \in {"Delivery", "Process"} => x \in Ends)
      BY <1>2, Zenon DEF Addressed
    <3>2. Sooner(ev) = Event(what, x, n, t - 1)
      BY <3>1 DEF Event
    <3> QED
      BY <3>1, <3>2, Zenon
  <2>2. \A y \in events' : \E ev \in events : y = Sooner(ev)
    BY <1>1, Zenon
  <2> HIDE DEF Sooner
  <2>3. ASSUME NEW y \in events'
        PROVE  \E what, x, n, t : y = Event(what, x, n, t) /\ (what \in {"Delivery", "Process"} => x \in Ends)
    <3>1. PICK ev \in events : y = Sooner(ev)
      BY <2>2, <2>3, Zenon
    <3>2. PICK what, x, n, t : Sooner(ev) = Event(what, x, n, t) /\ (what \in {"Delivery", "Process"} => x \in Ends)
      BY <2>1, Zenon
    <3> QED
      BY <3>1, <3>2, Zenon
  <2> QED
    BY <2>3, Zenon DEF Addressed
<1>4. ASSUME NEW x \in Ends
      PROVE  Quiet(conn[x], After(x), Bytes(x), Bytes(Peer(x)))
  <2> DEFINE c == conn[x]
             S == Bytes(x)
             R == Bytes(Peer(x))
             f == Fl(x)
             l == La(x)
             h == He(x)
             Older(i) == [c.flight[i] EXCEPT !.at = @ - 1,
                                             !.owed = IF Cut(cuts, x) THEN @ ELSE Max({@ - 1, 0})]
  <2>1. c \in Conn(S, R)
    BY ConnTypes, Zenon
  <2>0. f = [i \in DOMAIN c.flight |-> Older(i)]
    BY Zenon
  <2>2. c.flight \in Seq(Item(S)) /\ c.held \in Int /\ c.last \in Int
    BY <2>1, ConnFields, Zenon DEF FieldTypes
  <2>3. l \in Int /\ h \in Int
    <3>1. None \in Int /\ c.last - 1 \in Int /\ c.held + 1 \in Int
      BY <2>2 DEF None
    <3> DEFINE k == c.last - 1
               m == Max({k, None})
    <3>2. m \in {k, None}
      <4> HIDE DEF k
      <4> QED
        BY <3>1, MaxPair, Zenon DEF k
    <3>3. m \in Int
      <4> HIDE DEF m, k
      <4> QED
        BY <3>1, <3>2, ZenonT(60) DEF k
    <3> QED
      BY <3>1, <3>3, Zenon
  <2>4. Len(c.flight) \in Nat /\ DOMAIN c.flight = 1 .. Len(c.flight) /\ \A i \in DOMAIN c.flight : c.flight[i] \in Item(S)
    <3> HIDE DEF c
    <3> QED
      BY <2>2
  <2>5. ASSUME NEW i \in DOMAIN c.flight
        PROVE  Older(i) \in Item(S) /\ Older(i).data = c.flight[i].data
    <3> DEFINE y == c.flight[i]
               m == Max({y.owed - 1, 0})
               o == IF Cut(cuts, x) THEN y.owed ELSE m
               a == y.at - 1
    <3>1. y \in Item(S)
      BY <2>4, Zenon
    <3> HIDE DEF y
    <3>2. y.owed \in Nat /\ y.at \in Int
      BY <3>1 DEF Item
    <3>3. y.owed - 1 \in Int /\ a \in Int
      BY <3>2
    <3>4. m \in {y.owed - 1, 0} /\ m >= 0
      BY <3>3, MaxPair, 0 \in Int, Zenon
    <3> HIDE DEF m
    <3>5. m \in Nat
      BY <3>3, <3>4
    <3>6. o \in Nat
      BY <3>2, <3>5, Zenon
    <3> HIDE DEF o, a
    <3>7. [y EXCEPT !.at = a, !.owed = o] \in Item(S) /\ [y EXCEPT !.at = a, !.owed = o].data = y.data
      BY <3>1, <3>3, <3>6, Zenon DEF Item
    <3>8. Older(i) = [y EXCEPT !.at = a, !.owed = o]
      <4>1. [y EXCEPT !.at = a].owed = y.owed
        BY <3>1 DEF Item
      <4> QED
        BY <4>1, Zenon DEF o, a, y, m
    <3> QED
      BY <3>7, <3>8, Zenon DEF y
  <2> HIDE DEF Older, f
  <2>6. DOMAIN f = DOMAIN c.flight /\ \A i \in DOMAIN f : f[i] \in Item(S) /\ f[i].data = c.flight[i].data
    BY <2>0, <2>5, Zenon
  <2>7. f \in Seq(Item(S))
    <3>1. f = [i \in 1 .. Len(c.flight) |-> f[i]]
      BY <2>0, <2>4, <2>6, Zenon
    <3> HIDE DEF c
    <3> QED
      BY <2>4, <2>6, <3>1, SMTT(60)
  <2>8. After(x) = [c EXCEPT !.flight = f, !.last = l, !.held = h]
    BY Zenon DEF f
  <2> HIDE DEF After, c, l, h, S, R
  <2>9. Quiet(c, After(x), S, R)
    BY <2>1, <2>3, <2>6, <2>7, <2>8, QuietFlight, ZenonT(60)
  <2> QED
    BY <2>9, Zenon DEF c, S, R
<1> HIDE DEF After
<1>5. Orderly /\ SameHistory
  BY <1>1, <1>2, <1>3, Zenon DEF Orderly, SameHistory, history
<1>6. conn' = [x \in Ends |-> conn'[x]] /\ \A x \in Ends : conn'[x] = After(x)
  BY <1>1
<1> QED
  BY <1>4, <1>5, <1>6, QuietStep, ZenonT(60)

\* close_asymmetric.
LEMMA RandomCloseStep ==
    ASSUME IInv, RandomClose
    PROVE  IInv'
<1> DEFINE Own(e, sides) == IF "send" \in sides THEN Woken(reader, e, "parked") ELSE reader
           After(e, sides) == ShutSender(conn[e], conn[Peer(e)], "send" \in sides, "recv" \in sides)
           Left(e, sides) == Unread(conn[Peer(e)], "recv" \in sides)
<1>1. PICK e \in Ends, sides \in (SUBSET {"send", "recv"}) \ {{}} :
        /\ Fault("close")
        /\ conn' = [conn EXCEPT ![e] = After(e, sides),
                                ![Peer(e)].recvClosed = @ \/ "recv" \in sides,
                                ![Peer(e)].inbox = IF "recv" \in sides THEN <<>> ELSE @]
        /\ reader' = IF "recv" \in sides THEN Woken(Own(e, sides), Peer(e), "parked") ELSE Own(e, sides)
        /\ writer' = IF "send" \in sides THEN Woken(writer, e, "parked") ELSE Credited(e, Left(e, sides))
        /\ broken' = IF "send" \in sides THEN broken \cup {e} ELSE broken
        /\ UNCHANGED <<world, environment, events, written, got, vanished>>
  BY Zenon DEF RandomClose, ShutSender, ShutFor, Unread
<1> DEFINE p == Peer(e)
           c == conn[e]
           q == conn[p]
           S == Bytes(e)
           R == Bytes(p)
           send == "send" \in sides
           recv == "recv" \in sides
           k == Left(e, sides)
           d == After(e, sides)
           r == ShutReceiver(q, recv)
<1>2. Pair(e, p)
  BY PairFacts, Zenon
<1>3. /\ c \in Conn(S, R) /\ q \in Conn(R, S)
      /\ Direction(c, q, written[e], got[e], vanished[e], e \in broken)
      /\ Direction(q, c, written[p], got[p], vanished[p], p \in broken)
      /\ written[e] \in Nat /\ got[e] \in Nat /\ vanished[e] \in Nat
  BY <1>2, Zenon DEF Pair
<1>4. /\ world \in Worlds /\ Addressed(events) /\ Counted(written, got, vanished)
      /\ reader \in [Ends -> ReaderStates] /\ writer \in [Ends -> WriterStates]
  BY TidyFacts, ZenonT(60)
<1>5. Leaves(e, d, p, r)
  <2> HIDE DEF After
  <2>1. conn' = [conn EXCEPT ![e] = d, ![p].recvClosed = @ \/ recv, ![p].inbox = IF recv THEN <<>> ELSE @]
    BY <1>1, Zenon
  <2>2. p \in Ends /\ p # e /\ conn = [z \in Ends |-> conn[z]] /\ q \in Conn(R, S)
    BY <1>2, <1>3, Zenon DEF Pair
  <2> HIDE DEF p, d, recv, S, R
  <2> QED
    BY <2>1, <2>2, Zenon DEF Leaves, ShutReceiver, Conn
<1>6. /\ d = ShutSender(c, q, send, recv) /\ r = ShutReceiver(q, recv)
      /\ send \in BOOLEAN /\ recv \in BOOLEAN
  OBVIOUS
<1>7. Orderly /\ written' = written /\ got' = got /\ vanished' = vanished
  <2>1. faults' \in 0 .. world.faults
    BY <1>1, FaultsStay, Zenon
  <2>2. reader' \in [Ends -> ReaderStates]
    <3> DEFINE own == Own(e, sides)
    <3>1. reader' = IF recv THEN Woken(own, p, "parked") ELSE own
      BY <1>1, Zenon
    <3> HIDE DEF send, recv
    <3>2. own \in [Ends -> ReaderStates]
      BY <1>4, TasksWoken, TaskStates, ZenonT(60)
    <3> HIDE DEF own
    <3>3. Woken(own, p, "parked") \in [Ends -> ReaderStates]
      BY <3>2, TasksWoken, TaskStates, ZenonT(60)
    <3> QED
      BY <3>1, <3>2, <3>3, Zenon
  <2>3. writer' \in [Ends -> WriterStates]
    <3>1. writer' = IF send THEN Woken(writer, e, "parked") ELSE Credited(e, k)
      BY <1>1, Zenon
    <3> HIDE DEF send, k
    <3>2. Woken(writer, e, "parked") \in [Ends -> WriterStates]
      BY <1>4, TasksWoken, TaskStates, ZenonT(60)
    <3> QED
      BY <1>4, <3>1, <3>2, ZenonT(60) DEF Credited
  <2> QED
    BY <1>1, <1>4, <2>1, <2>2, <2>3, ZenonT(60) DEF Orderly
<1>8. /\ (e \in broken') <=> (e \in broken \/ send)
      /\ (p \in broken') <=> (p \in broken)
  <2>1. broken' = IF send THEN broken \cup {e} ELSE broken
    BY <1>1, Zenon
  <2>2. p # e
    BY <1>2, Zenon DEF Pair
  <2> HIDE DEF send, p
  <2> QED
    BY <2>1, <2>2, ZenonT(60)
<1> HIDE DEF p, c, q, S, R, send, recv, k, d, r
<1> DEFINE was == e \in broken
           is == e \in broken'
<1>0. /\ is = (was \/ send) /\ (p \in broken') = (p \in broken)
      /\ Direction(c, q, written[e], got[e], vanished[e], was)
  BY <1>3, <1>8, SMTT(60)
<1> HIDE DEF was, is
<1>9. /\ d \in Conn(S, R) /\ r \in Conn(R, S) /\ SameReceiver(c, d) /\ SameSender(q, r)
      /\ Direction(d, r, written[e], got[e], vanished[e], is)
  BY <1>0, <1>3, <1>6, CloseDirection, SMTT(60)
<1>10. Direction(r, d, written[p], got[p], vanished[p], p \in broken)
  BY <1>3, <1>9, DirectionFrame, Zenon
<1>11. /\ Direction(d, r, written'[e], got'[e], vanished'[e], e \in broken')
       /\ Direction(r, d, written'[p], got'[p], vanished'[p], p \in broken')
  BY <1>0, <1>7, <1>9, <1>10, ZenonT(60) DEF is
<1> QED
  BY <1>2, <1>4, <1>5, <1>7, <1>9, <1>11, Assembled, ZenonT(60) DEF S, R

-----------------------------------------------------------------------------
(* poll_write and poll_read.                                               *)

\* buffer_send.
LEMMA WriteStep ==
    ASSUME IInv, NEW e \in Ends, ~SendShut(conn[e]), NEW n \in Nat \ {0},
           conn[e].window + n <= Capacity, written[e] + n <= world.bytes[e], BufferSend(e, n),
           UNCHANGED <<world, faults, reader, writer, got, vanished, broken>>
    PROVE  IInv'
<1> DEFINE c == conn[e]
           p == Peer(e)
           w == written[e]
           x == [i \in 1 .. n |-> w + i]
           S == Bytes(e)
           R == Bytes(p)
           d == [c EXCEPT !.queue = Append(c.queue, x), !.window = c.window + n, !.sending = TRUE]
<1>0. /\ reader' = reader /\ writer' = writer /\ world' = world /\ faults' = faults
      /\ got' = got /\ vanished' = vanished /\ broken' = broken
  BY Zenon
<1>1. /\ world \in Worlds /\ faults \in 0 .. world.faults
      /\ reader \in [Ends -> ReaderStates] /\ writer \in [Ends -> WriterStates]
      /\ Counted(written, got, vanished) /\ Addressed(events)
  BY TidyFacts, Zenon
<1>2. /\ conn' = [conn EXCEPT ![e].queue = Append(@, x), ![e].window = @ + n, ![e].sending = TRUE]
      /\ written' = [written EXCEPT ![e] = w + n]
      /\ events' = events \cup (IF c.sending THEN {} ELSE {Event("Process", e, 0, 0)})
  BY Zenon DEF BufferSend
<1>3. Pair(e, p)
  BY PairFacts, Zenon
<1>4. Leaves(e, d, p, conn[p])
  <2> HIDE DEF x
  <2> QED
    BY <1>2, <1>3, Zenon DEF Pair, Leaves
<1>5. /\ w \in Nat /\ w + n <= world.bytes[e] /\ world.bytes[e] \in Nat /\ got[e] \in Nat /\ vanished[e] \in Nat
  <2>1. world.bytes \in [Ends -> Nat]
    BY <1>1, FlightAssumption, Zenon DEF Ends
  <2> QED
    BY <1>3, <2>1, Zenon DEF Pair
<1>6. /\ c \in Conn(S, R) /\ conn[p] \in Conn(R, S) /\ conn[p].inbox \in Seq(S)
      /\ Direction(c, conn[p], w, got[e], vanished[e], e \in broken)
      /\ Direction(conn[p], c, written[p], got[p], vanished[p], p \in broken)
  BY <1>3, Zenon DEF Pair
<1>7. ~c.sendClosed /\ c.closed = "no" /\ c.window + n <= Capacity
  BY Zenon DEF SendShut
<1>8. x \in Seq(S) /\ Len(x) = n /\ x # <<>> /\ Numbered(x, w)
  <2>1. \A i \in 1 .. n : w + i \in 1 .. world.bytes[e]
    <3> HIDE DEF w
    <3> QED
      BY <1>5
  <2> HIDE DEF w
  <2> QED
    BY <2>1, SMTT(60) DEF Bytes, Numbered
<1> HIDE DEF c, p, w, x, S, R
<1>9. /\ d \in Conn(S, R) /\ d.finPending = c.finPending /\ d.sendClosed = c.sendClosed
      /\ d.queue = Append(c.queue, x) /\ d.window = c.window + n
      /\ d.inbox = c.inbox /\ d.closed = c.closed /\ d.recvClosed = c.recvClosed
      /\ d.finReceived = c.finReceived /\ d.flight = c.flight /\ d.holed = c.holed
  <2> DEFINE q == Append(c.queue, x)
             m == c.window + n
  <2>1. q \in Seq(Seq(S) \ {<<>>}) /\ m \in Int
    BY <1>6, <1>8, SMTT(60) DEF Conn
  <2> HIDE DEF q, m
  <2>2. /\ d \in Conn(S, R) /\ d.finPending = c.finPending /\ d.sendClosed = c.sendClosed
        /\ d.queue = q /\ d.window = m
        /\ d.inbox = c.inbox /\ d.closed = c.closed /\ d.recvClosed = c.recvClosed
        /\ d.finReceived = c.finReceived /\ d.flight = c.flight /\ d.holed = c.holed
    BY <1>6, <2>1, Zenon DEF Conn, q, m
  <2> QED
    BY <2>2, ZenonT(60) DEF q, m
<1> HIDE DEF d
<1>10. Writes(c, d, x)
  BY <1>8, <1>9, Zenon DEF Writes
<1>12. Direction(d, conn[p], w + n, got[e], vanished[e], e \in broken)
  <2>1. Direction(d, conn[p], w + Len(x), got[e], vanished[e], e \in broken)
    BY <1>5, <1>6, <1>7, <1>8, <1>10, WriteDirection, ZenonT(60)
  <2> QED
    BY <1>8, <2>1, Zenon
<1>13. Direction(conn[p], d, written[p], got[p], vanished[p], p \in broken)
  <2>1. SameReceiver(c, d) /\ SameSender(conn[p], conn[p])
    BY <1>9, Zenon DEF SameReceiver, SameSender, SameQueue
  <2> QED
    BY <1>6, <2>1, DirectionFrame, Zenon
<1>14. Counted(written', got', vanished') /\ written'[p] = written[p] /\ written'[e] = w + n
  <2>1. w + n \in Nat
    BY <1>5
  <2>2. written \in [Ends -> Nat]
    BY <1>1, Zenon DEF Counted
  <2>3. /\ written' \in [Ends -> Nat] /\ written'[e] = w + n
        /\ \A y \in Ends : y # e => written'[y] = written[y]
    BY <1>2, <2>1, <2>2, ZenonT(60)
  <2> QED
    BY <1>0, <1>1, <1>3, <1>5, <2>3, ZenonT(60) DEF Counted, Pair
<1>15. Orderly
  <2>1. Addressed(events')
    BY <1>1, <1>2, AddressedSets, AddressedEvents, Zenon
  <2> QED
    BY <1>0, <1>1, <2>1, Zenon DEF Orderly
<1> QED
  BY <1>0, <1>1, <1>3, <1>4, <1>6, <1>9, <1>12, <1>13, <1>14, <1>15, Assembled, ZenonT(60) DEF c, S, R

\* poll_write.
LEMMA PollWriteStep ==
    ASSUME IInv, NEW e \in Ends, PollWrite(e)
    PROVE  IInv'
<1> DEFINE room == Capacity - conn[e].window
           shut == SendShut(conn[e])
           full == ~shut /\ room = 0
           clogged == ~shut /\ ~full /\ clogs["write"][e] > 0
           v == IF shut THEN "ended" ELSE IF full THEN "parked" ELSE "clogged"
<1>1. /\ \/ /\ writer' = [writer EXCEPT ![e] = v]
            /\ UNCHANGED <<conn, events, written>>
         \/ /\ ~shut
            /\ \E n \in 1 .. Min({room, world.bytes[e] - written[e]}) : BufferSend(e, n)
            /\ UNCHANGED writer
      /\ UNCHANGED <<world, faults, environment, reader, got, vanished, broken>>
  BY Zenon DEF PollWrite
<1>2. /\ world \in Worlds /\ faults \in 0 .. world.faults
      /\ reader \in [Ends -> ReaderStates] /\ writer \in [Ends -> WriterStates] /\ Addressed(events)
  BY TidyFacts, Zenon
<1>3. written[e] \in Nat /\ world.bytes[e] \in Nat /\ Capacity \in Nat /\ conn[e].window \in Int
  <2>1. world.bytes \in [Ends -> Nat] /\ Capacity \in Nat
    BY <1>2, FlightAssumption, Zenon DEF Ends
  <2>2. Pair(e, Peer(e))
    BY PairFacts, Zenon
  <2>3. conn[e].window \in Int
    BY <2>2, ConnFields, Zenon DEF Pair, FieldTypes
  <2> QED
    BY <2>1, <2>2, <2>3, Zenon DEF Pair
<1>4. CASE /\ writer' = [writer EXCEPT ![e] = v]
           /\ UNCHANGED <<conn, events, written>>
  <2>1. v \in WriterStates
    BY DEF WriterStates
  <2>2. writer' = [writer EXCEPT ![e] = v]
    BY <1>4, Zenon
  <2> HIDE DEF v
  <2>3. writer' \in [Ends -> WriterStates]
    BY <1>2, <2>1, <2>2, ZenonT(60)
  <2>4. Orderly /\ SameHistory /\ conn' = conn
    BY <1>1, <1>2, <1>4, <2>3, Zenon DEF Orderly, SameHistory
  <2> QED
    BY <2>4, IdleStep, Zenon
<1>5. ASSUME ~shut, NEW n \in 1 .. Min({room, world.bytes[e] - written[e]}), BufferSend(e, n), UNCHANGED writer
      PROVE  IInv'
  <2> DEFINE left == world.bytes[e] - written[e]
  <2>1. room \in Int /\ left \in Int
    BY <1>3
  <2>2. Min({room, left}) \in {room, left} /\ Min({room, left}) <= room /\ Min({room, left}) <= left
    <3> HIDE DEF room, left
    <3> QED
      BY <2>1, MinPair, Zenon
  <2>3. n \in Nat \ {0} /\ n <= room /\ n <= left
    <3> DEFINE m == Min({room, left})
    <3>1. n \in 1 .. m /\ m \in Int /\ m <= room /\ m <= left
      BY <1>5, <2>1, <2>2, Zenon
    <3> HIDE DEF m, room, left
    <3> QED
      BY <2>1, <3>1
  <2>4. conn[e].window + n <= Capacity /\ written[e] + n <= world.bytes[e]
    BY <1>3, <2>3
  <2>5. UNCHANGED <<world, faults, reader, writer, got, vanished, broken>>
    BY <1>1, <1>5, Zenon
  <2> QED
    BY <1>5, <2>3, <2>4, <2>5, WriteStep, ZenonT(60)
<1> QED
  BY <1>1, <1>4, <1>5, Zenon

\* NetworkEngine::read.
LEMMA ReadStep ==
    ASSUME IInv, NEW e \in Ends, conn[e].closed = "no", ~conn[e].recvClosed,
           NEW n \in 1 .. Len(conn[e].inbox),
           conn' = [conn EXCEPT ![e].inbox = SubSeq(@, n + 1, Len(@)), ![Peer(e)].window = @ - n],
           got' = [got EXCEPT ![Peer(e)] = @ + n], writer' = Credited(Peer(e), n),
           UNCHANGED <<world, faults, events, reader, written, vanished, broken>>
    PROVE  IInv'
<1> DEFINE p == Peer(e)
           c == conn[e]
           b == conn[p]
           s == SubSeq(c.inbox, n + 1, Len(c.inbox))
           m == b.window - n
           d == [c EXCEPT !.inbox = s]
           q == [b EXCEPT !.window = m]
           S == Bytes(e)
           R == Bytes(p)
<1>0. /\ reader' = reader /\ events' = events /\ vanished' = vanished /\ broken' = broken
      /\ faults' = faults /\ world' = world /\ written' = written
  BY Zenon
<1>1. /\ world \in Worlds /\ faults \in 0 .. world.faults
      /\ reader \in [Ends -> ReaderStates] /\ writer \in [Ends -> WriterStates]
      /\ Counted(written, got, vanished) /\ Addressed(events)
  BY TidyFacts, Zenon
<1>2. Pair(e, p)
  BY PairFacts, Zenon
<1>3. Leaves(e, d, p, q)
  <2>1. p # e /\ p \in Ends /\ conn = [x \in Ends |-> conn[x]]
    BY <1>2, Zenon DEF Pair
  <2>2. conn' = [conn EXCEPT ![e].inbox = SubSeq(@, n + 1, Len(@)), ![p].window = @ - n]
    OBVIOUS
  <2> HIDE DEF p
  <2> QED
    BY <2>1, <2>2, Zenon DEF Leaves
<1>4. /\ c \in Conn(S, R) /\ b \in Conn(R, S) /\ c.inbox \in Seq(R)
      /\ Direction(c, b, written[e], got[e], vanished[e], e \in broken)
      /\ Direction(b, c, written[p], got[p], vanished[p], p \in broken)
      /\ written[p] \in Nat /\ got[p] \in Nat /\ vanished[p] \in Nat
  BY <1>2, Zenon DEF Pair
<1>5. n \in 1 .. Len(c.inbox) /\ Reads(c) /\ n > 0
  BY DEF Reads
<1>6. got' = [got EXCEPT ![p] = got[p] + n] /\ writer' = Woken(writer, p, "parked")
  BY <1>5, Zenon DEF Credited
<1> HIDE DEF c, b, S, R
<1>7. b.window \in Int /\ n \in Nat
  <2>1. b.window \in Int
    BY <1>4, ConnFields, Zenon DEF FieldTypes
  <2>2. n \in Nat
    OBVIOUS
  <2> QED
    BY <2>1, <2>2, Zenon
<1>8. s \in Seq(R) /\ m \in Int
  BY <1>4, <1>5, <1>7, Remaining, WindowLess, ZenonT(60)
<1> HIDE DEF s, m
<1>9. /\ d \in Conn(S, R) /\ d.finPending = c.finPending /\ d.sendClosed = c.sendClosed
      /\ d.queue = c.queue /\ d.window = c.window
      /\ d.inbox = s /\ d.closed = c.closed /\ d.recvClosed = c.recvClosed
      /\ d.finReceived = c.finReceived /\ d.flight = c.flight /\ d.holed = c.holed
  BY <1>4, <1>8, Zenon DEF Conn
<1>10. /\ q \in Conn(R, S) /\ q.finPending = b.finPending /\ q.sendClosed = b.sendClosed
       /\ q.queue = b.queue /\ q.window = m
       /\ q.inbox = b.inbox /\ q.closed = b.closed /\ q.recvClosed = b.recvClosed
       /\ q.finReceived = b.finReceived /\ q.flight = b.flight /\ q.holed = b.holed
  BY <1>4, <1>8, Zenon DEF Conn
<1> HIDE DEF d, q
<1>11. /\ SameSender(c, d) /\ SameQueue(b, q) /\ SameReceiver(b, q)
  BY <1>9, <1>10, Zenon DEF SameQueue, SameReceiver, SameSender
<1>12. ReadBy(b, q, c, d, n)
  BY <1>9, <1>10, <1>11, Zenon DEF ReadBy, s, m
<1>14. Direction(q, d, written[p], got[p] + n, vanished[p], p \in broken)
  BY <1>4, <1>5, <1>12, ReadDirection, Zenon
<1>15. Direction(d, q, written[e], got[e], vanished[e], e \in broken)
  BY <1>4, <1>11, DirectionFrame, ZenonT(60)
<1>17. got' \in [Ends -> Nat] /\ got'[p] = got[p] + n /\ got'[e] = got[e]
  <2>1. got[p] + n \in Nat /\ got \in [Ends -> Nat]
    BY <1>1, <1>4, <1>7, SumNat, ZenonT(60) DEF Counted
  <2>2. p \in Ends /\ p # e
    BY <1>2, Zenon DEF Pair
  <2> QED
    BY <1>6, <2>1, <2>2, ZenonT(60)
<1>18. Counted(written', got', vanished')
  BY <1>0, <1>1, <1>17, Zenon DEF Counted
<1>19. Orderly
  <2>1. Woken(writer, p, "parked") \in [Ends -> WriterStates]
    BY <1>1, TasksWoken, TaskStates, Zenon
  <2>2. writer' \in [Ends -> WriterStates]
    BY <1>6, <2>1
  <2> QED
    BY <2>2, <1>0, <1>1, <2>1, Zenon DEF Orderly
<1> QED
  BY <1>0, <1>1, <1>2, <1>3, <1>9, <1>10, <1>14, <1>15, <1>17, <1>18, <1>19, Assembled, ZenonT(60) DEF S, R

\* poll_read.
LEMMA PollReadStep ==
    ASSUME IInv, NEW e \in Ends, PollRead(e)
    PROVE  IInv'
<1> DEFINE c == conn[e]
           shut == c.closed # "no" \/ c.recvClosed
           clogged == ~shut /\ clogs["read"][e] > 0
           becomes == IF c.closed = "aborted" THEN "reset"
                      ELSE IF shut THEN "eof"
                      ELSE IF clogged THEN "clogged"
                      ELSE IF c.finReceived THEN "eof" ELSE "parked"
<1>1. /\ \/ ~shut /\ Read(e)
         \/ reader' = [reader EXCEPT ![e] = becomes] /\ UNCHANGED <<conn, got, writer>>
      /\ UNCHANGED <<world, faults, environment, events, written, vanished, broken>>
  BY Zenon DEF PollRead
<1>2. /\ world \in Worlds /\ faults \in 0 .. world.faults
      /\ reader \in [Ends -> ReaderStates] /\ writer \in [Ends -> WriterStates] /\ Addressed(events)
  BY TidyFacts, Zenon
<1>3. ASSUME ~shut, Read(e) PROVE IInv'
  <2>1. PICK n \in 1 .. Len(conn[e].inbox) :
            /\ conn' = [conn EXCEPT ![e].inbox = SubSeq(@, n + 1, Len(@)), ![Peer(e)].window = @ - n]
            /\ got' = [got EXCEPT ![Peer(e)] = @ + n]
            /\ writer' = Credited(Peer(e), n)
            /\ UNCHANGED reader
    BY <1>3, Zenon DEF Read
  <2>2. UNCHANGED <<world, faults, events, reader, written, vanished, broken>>
    BY <1>1, <2>1, ZenonT(60)
  <2> QED
    BY <1>3, <2>1, <2>2, ReadStep, Zenon
<1>4. ASSUME reader' = [reader EXCEPT ![e] = becomes], UNCHANGED <<conn, got, writer>> PROVE IInv'
  <2>1. becomes \in ReaderStates
    BY DEF ReaderStates
  <2>2. reader' = [reader EXCEPT ![e] = becomes]
    BY <1>4, Zenon
  <2> HIDE DEF becomes
  <2>3. reader' \in [Ends -> ReaderStates]
    BY <1>2, <2>1, <2>2, TasksWoken, TaskStates, Zenon
  <2>4. Orderly /\ SameHistory /\ conn' = conn
    BY <1>1, <1>2, <1>4, <2>3, Zenon DEF Orderly, SameHistory
  <2> QED
    BY <2>4, IdleStep, Zenon
<1> QED
  BY <1>1, <1>3, <1>4, Zenon

-----------------------------------------------------------------------------
(* Shutting down and closing.                                              *)

\* poll_close, shutdown_send.
LEMMA ShutdownSendStep ==
    ASSUME IInv, NEW e \in Ends, ShutdownSend(e)
    PROVE  IInv'
<1> DEFINE c == conn[e]
           p == Peer(e)
           f == FinAfter(c, e)
           d == [f EXCEPT !.sendClosed = TRUE]
           S == Bytes(e)
           R == Bytes(p)
<1>1. /\ ~c.sendClosed /\ c.closed = "no" /\ conn' = [conn EXCEPT ![e] = [FinAfter(@, e) EXCEPT !.sendClosed = TRUE]]
      /\ events' = events \cup FinEvents(c, e) /\ writer' = Woken(writer, e, "parked")
      /\ UNCHANGED <<world, faults, environment, reader, history>>
  BY Zenon DEF ShutdownSend
<1>2. Pair(e, p) /\ c \in Conn(S, R)
      /\ Direction(c, conn[p], written[e], got[e], vanished[e], e \in broken)
  BY PairFacts, Zenon DEF Pair
<1>3. conn' = [conn EXCEPT ![e] = d]
  <2> HIDE DEF p
  <2> QED
    BY <1>1, <1>2, ZenonT(60) DEF Pair
<1>4. c.closed # "aborted"
  BY <1>1
<1> HIDE DEF c, p, S, R
<1>5. FinGone(c, f, S, R)
  BY <1>2, FinAfterGone, Zenon
<1> HIDE DEF f
<1>6. /\ f \in Conn(S, R) /\ SameReceiver(c, f) /\ f.queue = c.queue /\ f.window = c.window
      /\ f.holed = c.holed /\ (~c.finPending => FinSent(c, f) \/ FinWaits(c, f))
  BY <1>5, Zenon DEF FinGone
<1>7. /\ d \in Conn(S, R) /\ d.finPending = f.finPending /\ d.sendClosed = TRUE
      /\ d.queue = f.queue /\ d.window = f.window
      /\ d.inbox = f.inbox /\ d.closed = f.closed /\ d.recvClosed = f.recvClosed
      /\ d.finReceived = f.finReceived /\ d.flight = f.flight /\ d.holed = f.holed
  BY <1>6, Zenon DEF Conn
<1> HIDE DEF d
<1>8. SameReceiver(c, d) /\ d.closed # "aborted"
  BY <1>4, <1>6, <1>7, Zenon DEF SameReceiver
<1>9. ~c.finPending
  BY <1>1, <1>2, Zenon DEF Direction, Finished
<1>10. FinSent(c, d) \/ FinWaits(c, d)
  BY <1>6, <1>7, <1>9, Zenon DEF FinSent, FinWaits, Fly
<1>11. Closing(c, d)
  BY <1>6, <1>7, <1>8, <1>10, Zenon DEF Closing
<1>12. Direction(d, conn[p], written[e], got[e], vanished[e], e \in broken)
  BY <1>1, <1>2, <1>4, <1>11, FinDirection, ZenonT(60)
<1>13. /\ world \in Worlds /\ faults \in 0 .. world.faults
       /\ reader \in [Ends -> ReaderStates] /\ writer \in [Ends -> WriterStates] /\ Addressed(events)
  BY TidyFacts, Zenon
<1>14. Orderly /\ SameHistory
  <2>1. writer' \in [Ends -> WriterStates]
    BY <1>1, <1>13, TasksWoken, TaskStates, Zenon
  <2>2. Addressed(events')
    BY <1>1, <1>13, LandingAddressed, AddressedSets, ZenonT(60)
  <2> QED
    BY <1>1, <1>13, <2>1, <2>2, Zenon DEF Orderly, SameHistory, history
<1> QED
  BY <1>2, <1>3, <1>7, <1>8, <1>12, <1>14, SenderStep, ZenonT(60) DEF c, S, R

\* What a reset leaves of an end (close_aborted).
LEMMA ClearedFields ==
    ASSUME NEW S, NEW R, NEW c \in Conn(S, R), NEW k \in Int
    PROVE  Cleared(c, k) \in Conn(S, R) /\ Emptied(Cleared(c, k), k)
<1>1. None \in Int /\ <<>> \in Seq(Seq(S) \ {<<>>}) /\ <<>> \in Seq(Item(S)) /\ <<>> \in Seq(R)
  BY DEF None
<1>2. Cleared(c, k) \in Conn(S, R)
  BY <1>1, Zenon DEF Conn, Cleared
<1>3. /\ Cleared(c, k).closed = "aborted"
      /\ Cleared(c, k).sendClosed = TRUE /\ Cleared(c, k).finPending = FALSE
      /\ Cleared(c, k).queue = <<>> /\ Cleared(c, k).flight = <<>>
      /\ Cleared(c, k).inbox = <<>> /\ Cleared(c, k).window = k
  BY DEF Conn, Cleared
<1> QED
  BY <1>2, <1>3, Zenon DEF Emptied

\* A reset of the connection, whatever it does to the tasks.
LEMMA ResetStep ==
    ASSUME IInv, Orderly, SameHistory, conn' = Reset
    PROVE  IInv'
<1> DEFINE p == Peer(1)
           c == conn[1]
           b == conn[p]
           S == Bytes(1)
           R == Bytes(p)
           m == c.window - Queued(c) - Flying(c) - Len(b.inbox)
           n == b.window - Queued(b) - Flying(b) - Len(c.inbox)
           d == Cleared(c, m)
           q == Cleared(b, n)
<1>1. 1 \in Ends
  BY DEF Ends
<1>2. Pair(1, p)
  BY <1>1, PairFacts, ZenonT(60)
<1>3. Leaves(1, d, p, q)
  <2>1. p \in Ends /\ Peer(p) = 1 /\ Peer(1) = p
    BY <1>2, Zenon DEF Pair
  <2> HIDE DEF p
  <2> QED
    BY <1>1, <2>1, Zenon DEF Leaves, Reset, Cleared
<1>4. /\ c \in Conn(S, R) /\ b \in Conn(R, S) /\ c.inbox \in Seq(R) /\ b.inbox \in Seq(S)
      /\ Direction(c, b, written[1], got[1], vanished[1], 1 \in broken)
      /\ Direction(b, c, written[p], got[p], vanished[p], p \in broken)
      /\ written[1] \in Nat /\ got[1] \in Nat /\ vanished[1] \in Nat
      /\ written[p] \in Nat /\ got[p] \in Nat /\ vanished[p] \in Nat
  BY <1>2, Zenon DEF Pair
<1>5. /\ world \in Worlds /\ Counted(written', got', vanished')
      /\ written' = written /\ got' = got /\ vanished' = vanished /\ broken' = broken
  BY TidyFacts, Zenon DEF SameHistory
<1> HIDE DEF c, b, S, R, p
<1>6. m \in Int /\ n \in Int
  <2>1. ASSUME NEW U, NEW V, NEW x \in Conn(U, V), NEW y \in Conn(V, U)
        PROVE  x.window - Queued(x) - Flying(x) - Len(y.inbox) \in Int
    <3> DEFINE i == Queued(x)
               j == Flying(x)
               k == Len(y.inbox)
               w == x.window
    <3>1. FieldTypes(x, U, V) /\ FieldTypes(y, V, U)
      BY <2>1, ConnFields, Zenon
    <3>2. x.queue \in Seq(Seq(U) \ {<<>>}) /\ x.flight \in Seq(Item(U)) /\ y.inbox \in Seq(U) /\ w \in Int
      BY <3>1, Zenon DEF FieldTypes
    <3>3. FlattenSeq(x.queue) \in Seq(U) /\ FlattenSeq(Data(x.flight)) \in Seq(U)
      BY <3>2, WayType, Zenon DEF Fly
    <3>4. i \in Nat /\ j \in Nat /\ k \in Nat
      BY <3>2, <3>3, SMTT(60) DEF Queued, Flying, Data
    <3> HIDE DEF i, j, k, w
    <3>5. w - i - j - k \in Int
      BY <3>2, <3>4
    <3> QED
      BY <3>5, Zenon DEF i, j, k, w
  <2> QED
    BY <1>4, <2>1, Zenon
<1> HIDE DEF m, n
<1>7. /\ m = c.window - Queued(c) - Flying(c) - Len(b.inbox)
      /\ n = b.window - Queued(b) - Flying(b) - Len(c.inbox)
  BY Zenon DEF m, n
<1>8. d \in Conn(S, R) /\ q \in Conn(R, S)
  BY <1>4, <1>6, ClearedFields, Zenon
<1>9. Emptied(d, m) /\ Emptied(q, n)
  BY <1>4, <1>6, ClearedFields, Zenon
<1> HIDE DEF d, q
<1>10. Resets(c, d, b, q) /\ Resets(b, q, c, d)
  BY <1>7, <1>9 DEF Resets, Emptied
<1>11. Direction(d, q, written[1], got[1], vanished[1], 1 \in broken)
  BY <1>4, <1>10, ResetDirection, Zenon
<1>12. Direction(q, d, written[p], got[p], vanished[p], p \in broken)
  BY <1>4, <1>10, ResetDirection, Zenon
<1> QED
  BY <1>2, <1>3, <1>5, <1>8, <1>11, <1>12, Assembled, ZenonT(60) DEF S, R

\* An end is closed for good, with nothing unread.
LEMMA GracefulStep ==
    ASSUME IInv, Orderly, SameHistory, NEW e \in Ends, conn[e].inbox = <<>>, conn[e].closed = "no",
           conn' = Graceful(e)
    PROVE  IInv'
<1> DEFINE c == conn[e]
           p == Peer(e)
           b == conn[p]
           f == IF c.sendClosed THEN c ELSE FinAfter(c, e)
           d == [f EXCEPT !.closed = "graceful", !.sendClosed = TRUE]
           S == Bytes(e)
           R == Bytes(p)
<1>1. Pair(e, p)
  BY PairFacts, Zenon
<1>2. Leaves(e, d, p, b)
  <2>1. p \in Ends /\ p # e /\ conn = [x \in Ends |-> conn[x]] /\ conn' = [conn EXCEPT ![e] = d]
    BY <1>1, Zenon DEF Pair, Graceful
  <2> HIDE DEF p, d
  <2> QED
    BY <2>1 DEF Leaves
<1>3. /\ c \in Conn(S, R) /\ b \in Conn(R, S)
      /\ Direction(c, b, written[e], got[e], vanished[e], e \in broken)
      /\ Direction(b, c, written[p], got[p], vanished[p], p \in broken)
      /\ c.inbox = <<>> /\ c.closed = "no"
  BY <1>1, Zenon DEF Pair
<1>4. /\ world \in Worlds /\ Counted(written', got', vanished')
      /\ written' = written /\ got' = got /\ vanished' = vanished /\ broken' = broken
  BY TidyFacts, Zenon DEF SameHistory
<1> HIDE DEF c, b, S, R, p
<1>5. /\ f \in Conn(S, R) /\ SameReceiver(c, f)
      /\ f.queue = c.queue /\ f.window = c.window /\ f.holed = c.holed
      /\ ~c.sendClosed /\ ~c.finPending => FinSent(c, f) \/ FinWaits(c, f)
      /\ c.sendClosed => f = c
  <2>1. CASE c.sendClosed
    BY <1>3, <2>1, Zenon DEF SameReceiver
  <2>2. CASE ~c.sendClosed
    <3>1. f = FinAfter(c, e)
      BY <2>2, Zenon
    <3>2. FinGone(c, f, S, R)
      BY <1>3, <3>1, FinAfterGone, Zenon
    <3> HIDE DEF f
    <3> QED
      BY <2>2, <3>2, Zenon DEF FinGone
  <2> QED
    BY <2>1, <2>2, Zenon
<1> HIDE DEF f
<1>6. /\ d \in Conn(S, R) /\ d.finPending = f.finPending /\ d.sendClosed = TRUE
      /\ d.queue = f.queue /\ d.window = f.window
      /\ d.inbox = f.inbox /\ d.closed = "graceful" /\ d.recvClosed = f.recvClosed
      /\ d.finReceived = f.finReceived /\ d.flight = f.flight /\ d.holed = f.holed
  BY <1>5, ZenonT(60) DEF Conn
<1> HIDE DEF d
<1>7. Stopped(c, d) /\ d.closed # "aborted" /\ c.closed # "aborted" /\ d.closed # "no"
  BY <1>3, <1>5, <1>6 DEF Stopped, SameReceiver, Reads
<1>8. Direction(d, b, written[e], got[e], vanished[e], e \in broken)
  <2>1. CASE ~c.sendClosed
    <3>1. ~c.finPending
      BY <1>3, <2>1, Zenon DEF Direction, Finished
    <3>2. FinSent(c, d) \/ FinWaits(c, d)
      BY <1>5, <1>6, <2>1, <3>1, Zenon DEF FinSent, FinWaits, Fly
    <3>3. Closing(c, d)
      BY <1>5, <1>6, <1>7, <3>2, Zenon DEF Closing
    <3> QED
      BY <1>3, <1>7, <2>1, <3>3, FinDirection, ZenonT(60)
  <2>2. CASE c.sendClosed
    <3>1. /\ d.flight = c.flight /\ d.queue = c.queue /\ d.window = c.window /\ d.holed = c.holed
          /\ d.finPending = c.finPending
      BY <1>5, <1>6, <2>2, Zenon
    <3>2. Moved(c, d)
      BY <1>7, <3>1, Zenon DEF Moved, Way, Fly
    <3>3. Finished(d, b, e \in broken)
      BY <1>3, <1>6, <1>7, <2>2, <3>1, ZenonT(60) DEF Direction, Finished, Said
    <3> QED
      BY <1>3, <3>2, <3>3, MoveDirection, Zenon
  <2> QED
    BY <2>1, <2>2, Zenon
<1>9. Direction(b, d, written[p], got[p], vanished[p], p \in broken)
  BY <1>3, <1>7, StopDirection, Zenon
<1> QED
  BY <1>1, <1>2, <1>3, <1>4, <1>6, <1>8, <1>9, Assembled, ZenonT(60) DEF S, R

\* The drop of a stream.
LEMMA DropStreamStep ==
    ASSUME IInv, NEW e \in Ends, DropStream(e)
    PROVE  IInv'
<1>1. UNCHANGED <<world, faults, environment, history>>
  BY Zenon DEF DropStream
<1>2. /\ world \in Worlds /\ faults \in 0 .. world.faults
      /\ reader \in [Ends -> ReaderStates] /\ writer \in [Ends -> WriterStates] /\ Addressed(events)
  BY TidyFacts, Zenon
<1>3. SameHistory /\ world' = world /\ faults' \in 0 .. world.faults
  BY <1>1, <1>2, Zenon DEF SameHistory, history
<1>4. ASSUME conn' = Reset, reader' = [WokenAll(reader) EXCEPT ![e] = "gone"],
             writer' = [WokenAll(writer) EXCEPT ![e] = "gone"], UNCHANGED events
      PROVE  IInv'
  <2>1. WokenAll(reader) \in [Ends -> ReaderStates] /\ WokenAll(writer) \in [Ends -> WriterStates]
    BY <1>2, TasksWoken, TaskStates, Zenon
  <2>2. reader' \in [Ends -> ReaderStates] /\ writer' \in [Ends -> WriterStates]
    BY <1>4, <2>1, TasksWoken, TaskStates, Zenon
  <2>3. Orderly
    BY <1>2, <1>3, <1>4, <2>2, ZenonT(60) DEF Orderly
  <2> QED
    BY <1>3, <1>4, <2>3, ResetStep, Zenon
<1>5. ASSUME conn[e].inbox = <<>>, conn' = IF conn[e].closed = "no" THEN Graceful(e) ELSE conn,
             events' = events \cup (IF conn[e].closed # "no" \/ conn[e].sendClosed THEN {}
                                    ELSE FinEvents(conn[e], e)),
             reader' = [reader EXCEPT ![e] = "gone"], writer' = [writer EXCEPT ![e] = "gone"]
      PROVE  IInv'
  <2>1. reader' \in [Ends -> ReaderStates] /\ writer' \in [Ends -> WriterStates]
    BY <1>2, <1>5, TasksWoken, TaskStates, ZenonT(60)
  <2>2. Addressed(IF conn[e].closed # "no" \/ conn[e].sendClosed THEN {} ELSE FinEvents(conn[e], e))
    BY AddressedEvents, LandingAddressed, Zenon
  <2>3. Addressed(events')
    BY <1>2, <1>5, <2>2, AddressedSets, ZenonT(60)
  <2>4. Orderly
    BY <1>3, <2>1, <2>3, Zenon DEF Orderly
  <2> QED
    BY <1>3, <1>5, <2>4, GracefulStep, IdleStep, ZenonT(60)
<1> QED
  BY <1>4, <1>5, Zenon DEF DropStream

-----------------------------------------------------------------------------
(* What lands.                                                             *)

\* A bounded set of natural numbers has a greatest element.
LEMMA MaxBounded ==
    ASSUME NEW m \in Nat, NEW M \in SUBSET (0 .. m), M # {}
    PROVE  Max(M) \in M /\ \A k \in M : Max(M) >= k
<1> DEFINE T == {m - k : k \in M}
<1>1. T \in SUBSET Nat /\ T # {}
  <2>1. \A k \in M : m - k \in Nat
    OBVIOUS
  <2> QED
    BY <2>1, Zenon
<1>2. PICK t \in T : \A k \in T : t <= k
  <2> HIDE DEF T
  <2> QED
    BY <1>1, Smallest, Zenon
<1>3. PICK x \in M : t = m - x
  OBVIOUS
<1>4. \A k \in M : x >= k
  BY <1>2, <1>3, SMTT(60)
<1> QED
  BY <1>4, Zenon DEF Max

\* What lands is the head of the flight.
LEMMA LandedFacts ==
    ASSUME NEW S, NEW c, c.flight \in Seq(Item(S))
    PROVE  \E n \in 0 .. Len(c.flight) : Landed(c) = SubSeq(c.flight, 1, n)
<1> DEFINE Here(k) == \A i \in 1 .. k : c.flight[i].at <= 0
           M == {0} \cup {k \in DOMAIN c.flight : Here(k)}
<1>1. Len(c.flight) \in Nat /\ DOMAIN c.flight = 1 .. Len(c.flight)
  OBVIOUS
<1>2. M \in SUBSET (0 .. Len(c.flight)) /\ M # {}
  BY <1>1
<1>3. Max(M) \in M
  <2> HIDE DEF M
  <2> QED
    BY <1>1, <1>2, MaxBounded, Zenon
<1>4. Max(M) \in 0 .. Len(c.flight)
  BY <1>2, <1>3, Zenon
<1>5. Landed(c) = SubSeq(c.flight, 1, Max(M))
  BY Zenon DEF Landed
<1> QED
  BY <1>4, <1>5, Zenon

\* What a direction has under way when n items of its flight land.
LEMMA FlightLands ==
    ASSUME NEW S, NEW R, NEW c \in Conn(S, R), NEW n \in 0 .. Len(c.flight),
           NEW d, d.flight = SubSeq(c.flight, n + 1, Len(c.flight)),
           SameQueue(c, d), d.closed = c.closed, d.holed = c.holed
    PROVE  /\ Data(SubSeq(c.flight, 1, n)) \in Seq(Seq(S))
           /\ Len(FlattenSeq(Data(SubSeq(c.flight, 1, n)))) \in Nat
           /\ FlattenSeq(Data(SubSeq(c.flight, 1, n))) \in Seq(S)
           /\ Flown(c, d, Data(SubSeq(c.flight, 1, n)))
<1> DEFINE h == SubSeq(c.flight, 1, n)
<1>1. c.queue \in Seq(Seq(S) \ {<<>>}) /\ c.flight \in Seq(Item(S))
  BY ConnFields, Zenon DEF FieldTypes
<1>2. h \in Seq(Item(S)) /\ Data(c.flight) = Data(h) \o Data(d.flight)
  BY <1>1, DataSplit, Zenon
<1>3. d.queue = c.queue
  BY Zenon DEF SameQueue
<1>4. FlattenSeq(Data(h)) \in Seq(S) /\ Joins(Way(c), FlattenSeq(Data(h)), Way(d))
  BY <1>1, <1>3, WayLand, Zenon
<1> HIDE DEF h
<1>5. Data(h) \in Seq(Seq(S))
  BY <1>2, DataFacts, Zenon
<1>6. Len(FlattenSeq(Data(h))) \in Nat
  BY <1>4
<1>7. Flown(c, d, Data(h))
  BY <1>2, <1>4, Zenon DEF Flown
<1> QED
  BY <1>4, <1>5, <1>6, <1>7, Zenon DEF h

\* land: bytes and FIN of a direction that is not a black hole.
LEMMA ArriveStep ==
    ASSUME IInv, NEW e \in Ends, Orderly, NEW n \in 0 .. Len(conn[e].flight), ~conn[e].holed,
           SameHistory, NEW bytes, NEW fin, NEW m, NEW s, NEW f,
           bytes = FlattenSeq(Data(SubSeq(conn[e].flight, 1, n))),
           fin => ~Clean(Data(SubSeq(conn[e].flight, 1, n))),
           m = IF Reads(conn[Peer(e)]) THEN conn[e].window ELSE conn[e].window - Len(bytes),
           s = IF Reads(conn[Peer(e)]) THEN conn[Peer(e)].inbox \o bytes ELSE conn[Peer(e)].inbox,
           f \in BOOLEAN, f => conn[Peer(e)].finReceived \/ fin,
           Leaves(e, [conn[e] EXCEPT !.flight = SubSeq(conn[e].flight, n + 1, Len(conn[e].flight)),
                                     !.window = m],
                  Peer(e), [conn[Peer(e)] EXCEPT !.inbox = s, !.finReceived = f])
    PROVE  IInv'
<1> DEFINE p == Peer(e)
           c == conn[e]
           b == conn[p]
           S == Bytes(e)
           R == Bytes(p)
           y == SubSeq(c.flight, n + 1, Len(c.flight))
           z == Data(SubSeq(c.flight, 1, n))
           d == [c EXCEPT !.flight = y, !.window = m]
           q == [b EXCEPT !.inbox = s, !.finReceived = f]
<1>1. Pair(e, p)
  BY PairFacts, Zenon
<1>2. /\ c \in Conn(S, R) /\ b \in Conn(R, S) /\ b.inbox \in Seq(S)
      /\ Direction(c, b, written[e], got[e], vanished[e], e \in broken)
      /\ Direction(b, c, written[p], got[p], vanished[p], p \in broken)
      /\ written[e] \in Nat /\ got[e] \in Nat /\ vanished[e] \in Nat
  BY <1>1, Zenon DEF Pair
<1>3. /\ world \in Worlds /\ Counted(written', got', vanished')
      /\ written' = written /\ got' = got /\ vanished' = vanished /\ broken' = broken
  BY TidyFacts, Zenon DEF SameHistory
<1>4. /\ n \in 0 .. Len(c.flight) /\ ~c.holed /\ bytes = FlattenSeq(z) /\ (fin => ~Clean(z))
      /\ m = IF Reads(b) THEN c.window ELSE c.window - Len(bytes)
      /\ s = IF Reads(b) THEN b.inbox \o bytes ELSE b.inbox
      /\ f \in BOOLEAN /\ (f => b.finReceived \/ fin)
      /\ Leaves(e, d, p, q)
  OBVIOUS
<1> HIDE DEF p, c, b, S, R
<1>5. c.flight \in Seq(Item(S)) /\ c.window \in Int
  BY <1>2, ConnFields, Zenon DEF FieldTypes
<1>6. y \in Seq(Item(S))
  BY <1>4, <1>5, DataSplit, Zenon
<1>7. SubSeq(c.flight, 1, n) \in Seq(Item(S))
  BY <1>4, <1>5, DataSplit, Zenon
<1>8. z \in Seq(Seq(S))
  BY <1>7, DataFacts, Zenon
<1>9. bytes \in Seq(S)
  BY <1>4, <1>8, FlatType, Zenon
<1> HIDE DEF y, z
<1>10. m \in Int /\ s \in Seq(S)
  <2> DEFINE k == c.window - Len(bytes)
  <2>1. k \in Int /\ b.inbox \o bytes \in Seq(S)
    BY <1>2, <1>5, <1>9, Concatenated, WindowLess, ZenonT(60)
  <2>2. m = IF Reads(b) THEN c.window ELSE k
    BY <1>4, ZenonT(60)
  <2> HIDE DEF k
  <2> QED
    BY <1>2, <1>4, <1>5, <2>1, <2>2, ZenonT(60)
<1>11. /\ d \in Conn(S, R) /\ d.queue = c.queue /\ d.finPending = c.finPending /\ d.sendClosed = c.sendClosed
       /\ d.flight = y /\ d.window = m /\ d.closed = c.closed /\ d.holed = c.holed
       /\ d.inbox = c.inbox /\ d.recvClosed = c.recvClosed /\ d.finReceived = c.finReceived
  BY <1>2, <1>6, <1>10, ZenonT(60) DEF Conn
<1>12. /\ q \in Conn(R, S) /\ q.queue = b.queue /\ q.finPending = b.finPending /\ q.sendClosed = b.sendClosed
       /\ q.flight = b.flight /\ q.window = b.window /\ q.closed = b.closed /\ q.holed = b.holed
       /\ q.inbox = s /\ q.recvClosed = b.recvClosed /\ q.finReceived = f
  BY <1>2, <1>4, <1>10, Zenon DEF Conn
<1> HIDE DEF d, q
<1>13. SameQueue(c, d) /\ SameReceiver(c, d) /\ SameSender(b, q) /\ d.flight = SubSeq(c.flight, n + 1, Len(c.flight))
  BY <1>11, <1>12, Zenon DEF SameQueue, SameReceiver, SameSender, y
<1>14. Flown(c, d, z)
  BY <1>2, <1>4, <1>11, <1>13, FlightLands, ZenonT(60) DEF z
<1>15. Told(b, q, z)
  BY <1>4, <1>12, Zenon DEF Told
<1>16. Direction(d, q, written[e], got[e], vanished[e], e \in broken)
  <2>1. CASE Reads(b)
    <3>1. d.window = c.window /\ Joins(q.inbox, b.inbox, FlattenSeq(z))
      BY <1>4, <1>11, <1>12, <2>1, Zenon DEF Joins
    <3> QED
      BY <1>2, <1>4, <1>8, <1>11, <1>14, <1>15, <2>1, <3>1, ArriveDirection, ZenonT(60)
  <2>2. CASE ~Reads(b)
    <3>1. d.window = c.window - Len(FlattenSeq(z)) /\ q.inbox = b.inbox
      BY <1>4, <1>11, <1>12, <2>2, ZenonT(60)
    <3> QED
      BY <1>2, <1>5, <1>8, <1>11, <1>14, <1>15, <2>2, <3>1, DiscardDirection, ZenonT(60)
  <2> QED
    BY <2>1, <2>2, Zenon
<1>17. Direction(q, d, written[p], got[p], vanished[p], p \in broken)
  BY <1>2, <1>13, DirectionFrame, ZenonT(60)
<1> QED
  BY <1>1, <1>3, <1>4, <1>11, <1>12, <1>16, <1>17, Assembled, ZenonT(60) DEF S, R

\* land: a black hole swallows what lands.
LEMMA VanishStep ==
    ASSUME IInv, NEW e \in Ends, Orderly, NEW n \in 0 .. Len(conn[e].flight), conn[e].holed,
           written' = written, got' = got, broken' = broken, NEW k,
           k = Len(FlattenSeq(Data(SubSeq(conn[e].flight, 1, n)))),
           vanished' = [vanished EXCEPT ![e] = @ + k],
           conn' = [conn EXCEPT ![e].flight = SubSeq(conn[e].flight, n + 1, Len(conn[e].flight))]
    PROVE  IInv'
<1> DEFINE p == Peer(e)
           c == conn[e]
           b == conn[p]
           S == Bytes(e)
           R == Bytes(p)
           y == SubSeq(c.flight, n + 1, Len(c.flight))
           z == Data(SubSeq(c.flight, 1, n))
           d == [c EXCEPT !.flight = y]
<1>1. Pair(e, p)
  BY PairFacts, Zenon
<1>2. /\ c \in Conn(S, R) /\ b \in Conn(R, S) /\ b.inbox \in Seq(S)
      /\ Direction(c, b, written[e], got[e], vanished[e], e \in broken)
      /\ Direction(b, c, written[p], got[p], vanished[p], p \in broken)
      /\ written[e] \in Nat /\ got[e] \in Nat /\ vanished[e] \in Nat
  BY <1>1, Zenon DEF Pair
<1>3. world \in Worlds /\ Counted(written, got, vanished)
  BY TidyFacts, Zenon
<1>4. /\ n \in 0 .. Len(c.flight) /\ c.holed /\ k = Len(FlattenSeq(z))
  OBVIOUS
<1>5. Leaves(e, d, p, b)
  <2>1. p \in Ends /\ p # e /\ conn = [x \in Ends |-> conn[x]] /\ conn' = [conn EXCEPT ![e] = d]
    BY <1>1, Zenon DEF Pair
  <2> HIDE DEF p, d
  <2> QED
    BY <2>1, Zenon DEF Leaves
<1> HIDE DEF c, b, S, R
<1>6. c.flight \in Seq(Item(S)) /\ c.window \in Int
  BY <1>2, ConnFields, Zenon DEF FieldTypes
<1>7. y \in Seq(Item(S)) /\ SubSeq(c.flight, 1, n) \in Seq(Item(S))
  BY <1>4, <1>6, DataSplit, Zenon
<1>8. z \in Seq(Seq(S))
  BY <1>7, DataFacts, Zenon
<1>9. FlattenSeq(z) \in Seq(S)
  BY <1>8, FlatType, Zenon
<1> HIDE DEF y, z
<1>10. k \in Nat
  BY <1>4, <1>9, SMTT(60)
<1>11. /\ d \in Conn(S, R) /\ d.queue = c.queue /\ d.finPending = c.finPending /\ d.sendClosed = c.sendClosed
       /\ d.flight = y /\ d.window = c.window /\ d.closed = c.closed /\ d.holed = c.holed
       /\ d.inbox = c.inbox /\ d.recvClosed = c.recvClosed /\ d.finReceived = c.finReceived
  BY <1>2, <1>7, Zenon DEF Conn
<1> HIDE DEF d
<1>12. SameQueue(c, d) /\ SameReceiver(c, d) /\ SameSender(b, b) /\ d.flight = SubSeq(c.flight, n + 1, Len(c.flight))
  BY <1>11, Zenon DEF SameQueue, SameReceiver, SameSender, y
<1>13. Flown(c, d, z)
  BY <1>2, <1>4, <1>11, <1>12, FlightLands, ZenonT(60) DEF z
<1>14. Direction(d, b, written[e], got[e], vanished[e] + Len(FlattenSeq(z)), e \in broken)
  BY <1>2, <1>4, <1>8, <1>11, <1>13, VanishDirection, ZenonT(60)
<1>15. Direction(b, d, written[p], got[p], vanished[p], p \in broken)
  BY <1>2, <1>12, DirectionFrame, Zenon
<1>16. vanished' \in [Ends -> Nat] /\ vanished'[e] = vanished[e] + k /\ vanished'[p] = vanished[p]
  <2>1. p \in Ends /\ p # e
    BY <1>1, Zenon DEF Pair
  <2>2. vanished \in [Ends -> Nat] /\ vanished[e] + k \in Nat
    BY <1>2, <1>3, <1>10, SumNat, ZenonT(60) DEF Counted
  <2> HIDE DEF p
  <2> QED
    BY <2>1, <2>2, ZenonT(60)
<1>17. Counted(written', got', vanished')
  BY <1>3, <1>16, Zenon DEF Counted
<1>18. Direction(d, b, written'[e], got'[e], vanished'[e], e \in broken')
  <2>1. vanished'[e] = vanished[e] + Len(FlattenSeq(z))
    BY <1>4, <1>16, Zenon
  <2> QED
    BY <1>14, <2>1, Zenon
<1> QED
  BY <1>1, <1>2, <1>3, <1>5, <1>11, <1>15, <1>16, <1>17, <1>18, Assembled, ZenonT(60) DEF S, R

\* What lands, in a black hole or at the peer.
LEMMA LandStep ==
    ASSUME IInv, NEW e \in Ends, Land(e, Landed(conn[e])), Addressed(events'),
           UNCHANGED <<world, faults, written, got, broken>>
    PROVE  IInv'
<1> DEFINE p == Peer(e)
           c == conn[e]
           b == conn[p]
           items == Landed(c)
           bytes == FlattenSeq([i \in DOMAIN items |-> items[i].data])
           fin == \E i \in DOMAIN items : items[i].data = <<>>
           open == b.closed = "no"
           reading == open /\ ~b.recvClosed
           y == SubSeq(c.flight, Len(items) + 1, Len(c.flight))
           flown == [conn EXCEPT ![e].flight = SubSeq(@, Len(items) + 1, Len(@))]
<1>0. Pair(e, p)
  BY PairFacts, Zenon
<1>1. c \in Conn(Bytes(e), Bytes(p)) /\ b \in Conn(Bytes(p), Bytes(e)) /\ p \in Ends /\ p # e
      /\ conn = [x \in Ends |-> conn[x]]
  BY <1>0, Zenon DEF Pair
<1>2. c.flight \in Seq(Item(Bytes(e))) /\ b.finReceived \in BOOLEAN
  BY <1>1, ConnFields, Zenon DEF FieldTypes
<1>3. PICK n \in 0 .. Len(c.flight) : items = SubSeq(c.flight, 1, n)
  <2> HIDE DEF c
  <2> QED
    BY <1>2, LandedFacts, Zenon
<1>4. Len(items) = n
  <2> HIDE DEF c, items
  <2> QED
    BY <1>2, <1>3, SMTT(60)
<1>5. bytes = FlattenSeq(Data(SubSeq(c.flight, 1, n))) /\ (fin => ~Clean(Data(SubSeq(c.flight, 1, n))))
  <2>1. bytes = FlattenSeq(Data(items))
    BY Zenon DEF Data
  <2> HIDE DEF items
  <2>2. fin => ~Clean(Data(items))
    BY DEF Data, Clean
  <2> QED
    BY <1>3, <2>1, <2>2, Zenon
<1>6. /\ world \in Worlds /\ faults \in 0 .. world.faults
      /\ reader \in [Ends -> ReaderStates] /\ writer \in [Ends -> WriterStates]
  BY TidyFacts, Zenon
<1>7. \/ /\ conn[e].holed
         /\ conn' = flown
         /\ vanished' = [vanished EXCEPT ![e] = @ + Len(bytes)]
         /\ UNCHANGED <<reader, writer>>
      \/ /\ ~conn[e].holed
         /\ conn' = [flown EXCEPT ![p].inbox = IF reading THEN @ \o bytes ELSE @,
                                  ![p].finReceived = @ \/ (fin /\ open),
                                  ![e].window = IF reading THEN @ ELSE @ - Len(bytes)]
         /\ reader' = IF (reading /\ bytes # <<>>) \/ (fin /\ open)
                      THEN Woken(reader, p, "parked") ELSE reader
         /\ writer' = IF reading THEN writer ELSE Credited(e, Len(bytes))
         /\ UNCHANGED vanished
  BY Zenon DEF Land
<1> HIDE DEF items
<1>8. reader' \in [Ends -> ReaderStates] /\ writer' \in [Ends -> WriterStates]
  <2> HIDE DEF bytes, fin, reading, open
  <2>1. Woken(reader, p, "parked") \in [Ends -> ReaderStates] /\ Woken(writer, e, "parked") \in [Ends -> WriterStates]
    BY <1>6, TasksWoken, TaskStates, Zenon
  <2>2. Credited(e, Len(bytes)) \in [Ends -> WriterStates]
    BY <1>6, <2>1, Zenon DEF Credited
  <2> QED
    BY <1>6, <1>7, <2>1, <2>2, Zenon
<1>9. Orderly /\ written' = written /\ got' = got /\ broken' = broken
  BY <1>6, <1>8, Zenon DEF Orderly
<1> HIDE DEF bytes, fin
<1>10. CASE conn[e].holed
  <2>1. conn' = flown /\ vanished' = [vanished EXCEPT ![e] = @ + Len(bytes)]
    BY <1>7, <1>10, Zenon
  <2>2. conn' = [conn EXCEPT ![e].flight = SubSeq(conn[e].flight, n + 1, Len(conn[e].flight))]
    BY <1>4, <2>1, Zenon
  <2> QED
    BY <1>3, <1>5, <1>9, <1>10, <2>1, <2>2, VanishStep, ZenonT(60)
<1>11. CASE ~conn[e].holed
  <2> DEFINE m == IF reading THEN c.window ELSE c.window - Len(bytes)
             s == IF reading THEN b.inbox \o bytes ELSE b.inbox
             f == b.finReceived \/ (fin /\ open)
             d == [c EXCEPT !.flight = y, !.window = m]
             q == [b EXCEPT !.inbox = s, !.finReceived = f]
  <2>1. conn' = [flown EXCEPT ![p].inbox = IF reading THEN @ \o bytes ELSE @,
                              ![p].finReceived = @ \/ (fin /\ open),
                              ![e].window = IF reading THEN @ ELSE @ - Len(bytes)]
    BY <1>7, <1>11, Zenon
  <2>2. Leaves(e, d, p, q)
    <3> DEFINE g == [flown EXCEPT ![p].inbox = IF reading THEN @ \o bytes ELSE @]
               h == [g EXCEPT ![p].finReceived = @ \/ (fin /\ open)]
    <3> HIDE DEF p, reading, open, flown
    <3>1. conn' = [h EXCEPT ![e].window = IF reading THEN @ ELSE @ - Len(bytes)]
      BY <2>1, ZenonT(60)
    <3>2. /\ flown = [x \in Ends |-> flown[x]] /\ flown[e] = [c EXCEPT !.flight = y] /\ flown[p] = b
          /\ flown[e].window = c.window
      BY <1>1, Zenon DEF Conn, flown
    <3>3. /\ g = [x \in Ends |-> g[x]] /\ g[e] = flown[e]
          /\ g[p] = [b EXCEPT !.inbox = s] /\ g[p].finReceived = b.finReceived
      BY <1>1, <3>2, Zenon DEF Conn
    <3> HIDE DEF g
    <3>4. /\ h = [x \in Ends |-> h[x]] /\ h[e] = flown[e] /\ h[p] = [g[p] EXCEPT !.finReceived = f]
      BY <1>1, <3>3, ZenonT(60)
    <3> HIDE DEF h
    <3>5. /\ conn' = [x \in Ends |-> conn'[x]] /\ conn'[p] = h[p]
          /\ conn'[e] = [flown[e] EXCEPT !.window = m]
      BY <1>1, <3>1, <3>2, <3>4, ZenonT(60)
    <3> QED
      BY <3>2, <3>3, <3>4, <3>5, ZenonT(60) DEF Leaves
  <2>3. SameHistory
    BY <1>7, <1>9, <1>11, ZenonT(60) DEF SameHistory
  <2>4. f \in BOOLEAN /\ (f => b.finReceived \/ fin) /\ (Reads(b) <=> reading)
    BY <1>2 DEF Reads
  <2>5. /\ m = IF Reads(b) THEN c.window ELSE c.window - Len(bytes)
        /\ s = IF Reads(b) THEN b.inbox \o bytes ELSE b.inbox
    <3> HIDE DEF reading
    <3> QED
      BY <2>4, Zenon
  <2>6. Leaves(e, [c EXCEPT !.flight = SubSeq(c.flight, n + 1, Len(c.flight)), !.window = m], p, q)
    BY <1>4, <2>2, Zenon
  <2> HIDE DEF m, s, f
  <2> QED
    BY <1>3, <1>5, <1>9, <1>11, <2>3, <2>4, <2>5, <2>6, ArriveStep, ZenonT(60)
<1> QED
  BY <1>10, <1>11, Zenon

\* A connection whose schedule alone changed.
LEMMA QuietFields ==
    ASSUME NEW S, NEW R, NEW c \in Conn(S, R), NEW h \in Int, NEW f \in BOOLEAN
    PROVE  /\ Quiet(c, [c EXCEPT !.held = h], S, R)
           /\ Quiet(c, [c EXCEPT !.stalled = f], S, R)
<1>1. ASSUME NEW d \in {[c EXCEPT !.held = h], [c EXCEPT !.stalled = f]}
      PROVE  Quiet(c, d, S, R)
  <2>1. /\ d \in Conn(S, R) /\ d.queue = c.queue /\ d.finPending = c.finPending /\ d.sendClosed = c.sendClosed
        /\ d.flight = c.flight /\ d.window = c.window /\ d.closed = c.closed /\ d.holed = c.holed
        /\ d.inbox = c.inbox /\ d.recvClosed = c.recvClosed /\ d.finReceived = c.finReceived
    BY <1>1, ZenonT(60) DEF Conn
  <2> QED
    BY <2>1, Zenon DEF Quiet, SameSender, SameQueue, SameReceiver
<1> QED
  BY <1>1, Zenon

\* handle_delivery.
LEMMA DeliveryStep ==
    ASSUME IInv, Delivery
    PROVE  IInv'
<1>1. PICK ev \in Due("Delivery") :
        LET e == ev.end
            c == conn[e]
            idle == c.held # None \/ Landed(c) = <<>>
        IN  /\ events' = events \ {ev}
            /\ IF idle \/ Cut(cuts, e)
               THEN /\ conn' = IF idle THEN conn ELSE [conn EXCEPT ![e].held = 0]
                    /\ UNCHANGED <<reader, writer, vanished>>
               ELSE Land(e, Landed(c))
            /\ UNCHANGED <<world, faults, environment, written, got, broken>>
  BY Zenon DEF Delivery
<1> DEFINE e == ev.end
           c == conn[e]
           d == [c EXCEPT !.held = 0]
<1>2. /\ world \in Worlds /\ faults \in 0 .. world.faults /\ Addressed(events)
      /\ reader \in [Ends -> ReaderStates] /\ writer \in [Ends -> WriterStates]
  BY TidyFacts, Zenon
<1>3. e \in Ends
  <2>1. ev \in events /\ ev.what = "Delivery"
    BY Zenon DEF Due
  <2> QED
    BY <1>2, <2>1, EventEnd, Zenon
<1>4. Addressed(events')
  BY <1>1, <1>2, AddressedSets, Zenon
<1>5. ASSUME Land(e, Landed(conn[e])) PROVE IInv'
  <2>1. UNCHANGED <<world, faults, written, got, broken>>
    BY <1>1, Zenon
  <2> HIDE DEF e
  <2> QED
    BY <1>3, <1>4, <1>5, <2>1, LandStep, Zenon
<1>6. ASSUME conn' = conn \/ conn' = [conn EXCEPT ![e].held = 0], UNCHANGED <<reader, writer, vanished>>
      PROVE  IInv'
  <2>1. Orderly /\ SameHistory
    BY <1>1, <1>2, <1>4, <1>6, Zenon DEF Orderly, SameHistory
  <2>2. CASE conn' = conn
    BY <2>1, <2>2, IdleStep, Zenon
  <2>3. CASE conn' = [conn EXCEPT ![e].held = 0]
    <3>1. conn[e] \in Conn(Bytes(e), Bytes(Peer(e)))
      BY <1>3, PairFacts, Zenon DEF Pair
    <3>2. Quiet(conn[e], d, Bytes(e), Bytes(Peer(e)))
      BY <3>1, QuietFields, 0 \in Int, Zenon
    <3>3. conn' = [conn EXCEPT ![e] = d]
      BY <2>3, Zenon
    <3> HIDE DEF e, d
    <3> QED
      BY <1>3, <2>1, <3>2, <3>3, QuietEnd, ZenonT(60)
  <2> QED
    BY <1>6, <2>2, <2>3, Zenon
<1> QED
  BY <1>1, <1>5, <1>6, Zenon

-----------------------------------------------------------------------------
(* The send buffer.                                                        *)

\* handle_normal_send.
LEMMA SendStep ==
    ASSUME IInv, NEW e \in Ends, Send(e), UNCHANGED <<world, faults, environment, reader, writer, history>>
    PROVE  IInv'
<1> DEFINE c == conn[e]
           p == Peer(e)
           S == Bytes(e)
           R == Bytes(p)
           Dir(x) == Direction(x, conn[p], written[e], got[e], vanished[e], e \in broken)
           P == Event("Process", e, 0, 0)
<1>1. /\ world \in Worlds /\ faults \in 0 .. world.faults /\ Addressed(events)
      /\ reader \in [Ends -> ReaderStates] /\ writer \in [Ends -> WriterStates]
  BY TidyFacts, Zenon
<1>2. SameHistory /\ (Addressed(events') => Orderly)
  BY <1>1, Zenon DEF SameHistory, Orderly, history
<1>3. Pair(e, p) /\ c \in Conn(S, R) /\ Dir(c)
  BY PairFacts, Zenon DEF Pair
<1>4. ASSUME NEW d \in Conn(S, R), SameReceiver(c, d), Dir(d), conn' = [conn EXCEPT ![e] = d], Addressed(events')
      PROVE  IInv'
  BY <1>2, <1>3, <1>4, SenderStep, Zenon
<1>5. /\ \A x : Addressed({Landing(x, e)}) /\ Addressed(DrainedEvents(x, e))
      /\ \A E, F : Addressed(E) => Addressed(E \ F) /\ (Addressed(F) => Addressed(E \cup F))
  BY LandingAddressed, AddressedSets, Zenon
<1>6. ASSUME c.queue = <<>>, conn' = [conn EXCEPT ![e] = Drained(c, e)],
             events' = (events \ {P}) \cup DrainedEvents(c, e)
      PROVE  IInv'
  <2>1. /\ Drained(c, e) \in Conn(S, R) /\ SameReceiver(c, Drained(c, e)) /\ Dir(Drained(c, e))
    BY <1>3, <1>6, DrainDirection, Zenon
  <2>2. Addressed(events')
    BY <1>1, <1>5, <1>6, Zenon
  <2> QED
    BY <1>4, <1>6, <2>1, <2>2, Zenon
<1>7. ASSUME c.queue # <<>>, NEW n \in 1 .. Len(Head(c.queue)), NEW delay \in Latencies, NEW sent,
             sent = Sent(c, e, n, delay),
             \/ /\ Rest(c.queue, n) = <<>>
                /\ conn' = [conn EXCEPT ![e] = Drained(sent, e)]
                /\ events' = (events \ {P}) \cup {Landing(sent, e)} \cup DrainedEvents(sent, e)
             \/ /\ conn' = [conn EXCEPT ![e] = sent]
                /\ events' = events \cup {Landing(sent, e)}
      PROVE  IInv'
  <2>0. n \in 1 .. Len(Head(c.queue)) /\ c.queue # <<>>
    BY <1>7, Zenon
  <2> HIDE DEF c, S, R
  <2>1. delay \in Nat
    BY <1>7, FlightAssumption, ZenonT(60)
  <2>2. ChunkGone(c, sent, SubSeq(Head(c.queue), 1, n), S, R) /\ sent.queue = Rest(c.queue, n)
    <3>1. sent = Sent(c, e, n, delay)
      BY <1>7, Zenon
    <3>2. c \in Conn(S, R)
      BY <1>3, Zenon
    <3>3. /\ ChunkGone(c, Sent(c, e, n, delay), SubSeq(Head(c.queue), 1, n), S, R)
          /\ Sent(c, e, n, delay).queue = Rest(c.queue, n)
      BY <2>0, <2>1, <3>2, ChunkPut, SMTT(60)
    <3> QED
      BY <3>1, <3>3, Zenon
  <2>3. sent \in Conn(S, R) /\ SameReceiver(c, sent)
    BY <2>2, Zenon DEF ChunkGone
  <2>4. Dir(sent)
    BY <1>3, <1>7, <2>2, ChunkDirection, Zenon
  <2>5. CASE /\ Rest(c.queue, n) = <<>>
             /\ conn' = [conn EXCEPT ![e] = Drained(sent, e)]
             /\ events' = (events \ {P}) \cup {Landing(sent, e)} \cup DrainedEvents(sent, e)
    <3>1. sent.queue = <<>>
      BY <2>2, <2>5, Zenon
    <3>2. /\ Drained(sent, e) \in Conn(S, R) /\ SameReceiver(sent, Drained(sent, e)) /\ Dir(Drained(sent, e))
      BY <2>3, <2>4, <3>1, DrainDirection, Zenon
    <3>3. SameReceiver(c, Drained(sent, e))
      BY <2>3, <3>2, Zenon DEF SameReceiver
    <3>4. Addressed(events')
      BY <1>1, <1>5, <2>5, Zenon
    <3> QED
      BY <1>4, <2>5, <3>2, <3>3, <3>4, ZenonT(60)
  <2>6. CASE conn' = [conn EXCEPT ![e] = sent] /\ events' = events \cup {Landing(sent, e)}
    <3>1. Addressed(events')
      BY <1>1, <1>5, <2>6, Zenon
    <3> QED
      BY <1>4, <2>3, <2>4, <2>6, <3>1, ZenonT(60)
  <2> QED
    BY <1>7, <2>5, <2>6, Zenon
<1>8. CASE c.queue = <<>>
  BY <1>6, <1>8, Zenon DEF Send
<1>9. CASE c.queue # <<>>
  <2>1. PICK n \in 1 .. Len(Head(c.queue)), delay \in Latencies :
            LET data == SubSeq(Head(c.queue), 1, n)
                rest == Rest(c.queue, n)
                sent == Put([c EXCEPT !.queue = rest], e, data, delay)
            IN  IF rest = <<>>
                THEN /\ conn' = [conn EXCEPT ![e] = Drained(sent, e)]
                     /\ events' = (events \ {P}) \cup {Landing(sent, e)} \cup DrainedEvents(sent, e)
                ELSE /\ conn' = [conn EXCEPT ![e] = sent]
                     /\ events' = events \cup {Landing(sent, e)}
    BY <1>9, Zenon DEF Send
  <2> DEFINE sent == Sent(c, e, n, delay)
  <2>2. \/ /\ Rest(c.queue, n) = <<>>
           /\ conn' = [conn EXCEPT ![e] = Drained(sent, e)]
           /\ events' = (events \ {P}) \cup {Landing(sent, e)} \cup DrainedEvents(sent, e)
        \/ /\ conn' = [conn EXCEPT ![e] = sent]
           /\ events' = events \cup {Landing(sent, e)}
    BY <2>1, Zenon DEF Sent
  <2> QED
    BY <1>7, <1>9, <2>2, Zenon
<1> QED
  BY <1>8, <1>9, Zenon

\* A side shut without a FIN to send has nothing queued that it could drop.
LEMMA ShutStep ==
    ASSUME IInv, Orderly, SameHistory, NEW e \in Ends,
           (conn[e].closed # "no" \/ conn[e].sendClosed) /\ ~conn[e].finPending,
           conn' = [conn EXCEPT ![e] = [Discarded(@) EXCEPT !.sending = FALSE, !.stalled = FALSE]]
    PROVE  IInv'
<1> DEFINE c == conn[e]
           p == Peer(e)
           S == Bytes(e)
           R == Bytes(p)
           m == c.window - Queued(c)
           d == [c EXCEPT !.queue = <<>>, !.window = m, !.sending = FALSE, !.stalled = FALSE]
<1>1. /\ c \in Conn(S, R)
      /\ Direction(c, conn[p], written[e], got[e], vanished[e], e \in broken)
  BY PairFacts, Zenon DEF Pair
<1>2. conn' = [conn EXCEPT ![e] = d]
  BY Zenon DEF Discarded
<1>3. (c.closed # "no" \/ c.sendClosed) /\ ~c.finPending
  OBVIOUS
<1> HIDE DEF c, S, R
<1>4. c.queue = <<>>
  BY <1>1, <1>3, Zenon DEF Direction, Finished
<1>5. m = c.window /\ c.window \in Int
  <2>1. Queued(c) = 0
    <3>1. FlattenSeq(c.queue) = <<>>
      BY <1>4, FlatEmpty, Zenon
    <3> QED
      BY <3>1 DEF Queued
  <2>2. c.window \in Int
    BY <1>1, ConnFields, Zenon DEF FieldTypes
  <2> QED
    BY <2>1, <2>2, SMTT(60)
<1> HIDE DEF m
<1>6. /\ d \in Conn(S, R) /\ d.queue = <<>> /\ d.finPending = c.finPending /\ d.sendClosed = c.sendClosed
      /\ d.flight = c.flight /\ d.window = m /\ d.closed = c.closed /\ d.holed = c.holed
      /\ d.inbox = c.inbox /\ d.recvClosed = c.recvClosed /\ d.finReceived = c.finReceived
  <2>1. m \in Int /\ <<>> \in Seq(Seq(S) \ {<<>>}) /\ c \in Conn(S, R)
    BY <1>1, <1>5, SMTT(60)
  <2>2. d \in Conn(S, R)
    BY <2>1, Zenon DEF Conn
  <2>3. /\ d.queue = <<>> /\ d.finPending = c.finPending /\ d.sendClosed = c.sendClosed
        /\ d.flight = c.flight /\ d.window = m /\ d.closed = c.closed /\ d.holed = c.holed
        /\ d.inbox = c.inbox /\ d.recvClosed = c.recvClosed /\ d.finReceived = c.finReceived
    BY <2>1 DEF Conn
  <2> QED
    BY <2>2, <2>3, Zenon
<1> HIDE DEF d
<1>7. Quiet(c, d, S, R)
  BY <1>4, <1>5, <1>6, ZenonT(60) DEF Quiet, SameSender, SameQueue, SameReceiver
<1> QED
  BY <1>2, <1>7, QuietEnd, Zenon DEF c, S, R

\* handle_process_send_buffer.
LEMMA ProcessSendBufferStep ==
    ASSUME IInv, ProcessSendBuffer
    PROVE  IInv'
<1>1. PICK ev \in Due("Process") :
        LET e == ev.end
            c == conn[e]
            shut == (c.closed # "no" \/ c.sendClosed) /\ ~c.finPending
            stalls == ~shut /\ c.queue # <<>> /\ Cut(cuts, e)
        IN  /\ \/ /\ shut
                  /\ conn' = [conn EXCEPT ![e] = [Discarded(@) EXCEPT !.sending = FALSE,
                                                                      !.stalled = FALSE]]
                  /\ writer' = Woken(writer, e, "parked")
                  /\ events' = events \ {ev}
               \/ /\ stalls
                  /\ conn' = [conn EXCEPT ![e].stalled = TRUE]
                  /\ events' = events \ {ev}
                  /\ UNCHANGED writer
               \/ /\ ~shut /\ ~stalls
                  /\ Send(e)
                  /\ UNCHANGED writer
            /\ UNCHANGED <<world, faults, environment, reader, history>>
  BY Zenon DEF ProcessSendBuffer
<1> DEFINE e == ev.end
           d == [conn[e] EXCEPT !.stalled = TRUE]
<1>2. /\ world \in Worlds /\ faults \in 0 .. world.faults /\ Addressed(events)
      /\ reader \in [Ends -> ReaderStates] /\ writer \in [Ends -> WriterStates]
  BY TidyFacts, Zenon
<1>3. e \in Ends
  <2>1. ev \in events /\ ev.what = "Process"
    BY Zenon DEF Due
  <2> QED
    BY <1>2, <2>1, EventEnd, Zenon
<1>4. SameHistory /\ world' = world /\ faults' \in 0 .. world.faults /\ reader' \in [Ends -> ReaderStates]
  BY <1>1, <1>2, Zenon DEF SameHistory, history
<1>5. Addressed(events \ {ev})
  BY <1>2, AddressedSets, Zenon
<1>6. CASE /\ (conn[e].closed # "no" \/ conn[e].sendClosed) /\ ~conn[e].finPending
           /\ conn' = [conn EXCEPT ![e] = [Discarded(@) EXCEPT !.sending = FALSE, !.stalled = FALSE]]
           /\ writer' = Woken(writer, e, "parked")
           /\ events' = events \ {ev}
  <2> HIDE DEF e
  <2>1. writer' \in [Ends -> WriterStates]
    BY <1>2, <1>6, TasksWoken, TaskStates, Zenon
  <2>2. Orderly
    BY <1>4, <1>5, <1>6, <2>1, Zenon DEF Orderly
  <2> QED
    BY <1>3, <1>4, <1>6, <2>2, ShutStep, ZenonT(60)
<1>7. CASE conn' = [conn EXCEPT ![e].stalled = TRUE] /\ events' = events \ {ev} /\ UNCHANGED writer
  <2>1. Orderly
    BY <1>2, <1>4, <1>5, <1>7, ZenonT(60) DEF Orderly
  <2>2. conn[e] \in Conn(Bytes(e), Bytes(Peer(e)))
    BY <1>3, PairFacts, Zenon DEF Pair
  <2>3. Quiet(conn[e], d, Bytes(e), Bytes(Peer(e)))
    BY <2>2, QuietFields, 0 \in Int, Zenon
  <2>4. conn' = [conn EXCEPT ![e] = d]
    BY <1>7, Zenon
  <2> HIDE DEF e, d
  <2> QED
    BY <1>3, <1>4, <2>1, <2>3, <2>4, QuietEnd, ZenonT(60)
<1>8. CASE Send(e) /\ UNCHANGED writer
  <2>1. UNCHANGED <<world, faults, environment, reader, writer, history>>
    BY <1>1, <1>8, Zenon
  <2> HIDE DEF e
  <2> QED
    BY <1>3, <1>8, <2>1, SendStep, Zenon
<1> QED
  BY <1>1, <1>6, <1>7, <1>8, Zenon

-----------------------------------------------------------------------------
(* Partitions and clogs.                                                   *)

\* One thing after another that is none of the stream's business.
LEMMA QuietTwice ==
    ASSUME NEW c, NEW S, NEW R, NEW d, NEW f, Quiet(c, d, S, R), Quiet(d, f, S, R)
    PROVE  Quiet(c, f, S, R)
  BY Zenon DEF Quiet, SameSender, SameQueue, SameReceiver

\* An item of the flight that is timed anew is the same item.
LEMMA ItemDelayed ==
    ASSUME NEW S, NEW k \in Int
    PROVE  \A x \in Item(S) : [x EXCEPT !.at = @ + k] \in Item(S) /\ [x EXCEPT !.at = @ + k].data = x.data
BY SMT DEF Item

\* release_held_in_flight.
LEMMA ThawedQuiet ==
    ASSUME NEW S, NEW R, NEW c \in Conn(S, R)
    PROVE  Quiet(c, Thawed(c), S, R)
<1> DEFINE k == c.held
           f == [i \in DOMAIN c.flight |-> [c.flight[i] EXCEPT !.at = @ + k]]
           l == c.last + k
<1>1. c.flight \in Seq(Item(S)) /\ k \in Int /\ c.last \in Int
  BY ConnFields, Zenon DEF FieldTypes
<1>2. l \in Int /\ None \in Int
  BY <1>1 DEF None
<1>3. Thawed(c) = [c EXCEPT !.flight = f, !.last = l, !.held = None]
  BY Zenon DEF Thawed
<1> HIDE DEF k, l
<1>4. \A x \in Item(S) : [x EXCEPT !.at = @ + k] \in Item(S) /\ [x EXCEPT !.at = @ + k].data = x.data
  BY <1>1, ItemDelayed, ZenonT(60)
<1>5. Len(c.flight) \in Nat /\ DOMAIN c.flight = 1 .. Len(c.flight) /\ \A i \in DOMAIN c.flight : c.flight[i] \in Item(S)
  BY <1>1
<1>6. DOMAIN f = DOMAIN c.flight /\ \A i \in DOMAIN f : f[i] \in Item(S) /\ f[i].data = c.flight[i].data
  BY <1>4, <1>5, Zenon
<1> HIDE DEF f
<1>7. f \in Seq(Item(S))
  <2>1. f = [i \in 1 .. Len(c.flight) |-> f[i]]
    BY <1>5, <1>6, Zenon DEF f
  <2> QED
    BY <1>5, <1>6, <2>1, SMTT(60)
<1> QED
  BY <1>2, <1>3, <1>6, <1>7, QuietFlight, ZenonT(60)

\* resume_after_heal: what moves again was only timed anew.
LEMMA ResumedStep ==
    ASSUME IInv, Orderly, SameHistory, NEW left, conn' = Resumed(left)
    PROVE  IInv'
<1> DEFINE Base(x) == IF conn[x].held # None /\ ~Cut(left, x) THEN Thawed(conn[x]) ELSE conn[x]
           After(x) == [Base(x) EXCEPT !.stalled = @ /\ Cut(left, x)]
<1>1. conn' = [x \in Ends |-> After(x)]
  BY Zenon DEF Resumed
<1>2. ASSUME NEW x \in Ends
      PROVE  Quiet(conn[x], After(x), Bytes(x), Bytes(Peer(x)))
  <2> DEFINE b == Base(x)
             f == b.stalled /\ Cut(left, x)
  <2>1. conn[x] \in Conn(Bytes(x), Bytes(Peer(x)))
    BY ConnTypes, Zenon
  <2>2. Quiet(conn[x], b, Bytes(x), Bytes(Peer(x)))
    BY <2>1, ThawedQuiet, QuietSelf, Zenon
  <2> HIDE DEF b
  <2>3. b \in Conn(Bytes(x), Bytes(Peer(x)))
    BY <2>2, Zenon DEF Quiet
  <2>4. f \in BOOLEAN /\ 0 \in Int
    OBVIOUS
  <2> HIDE DEF f
  <2>5. Quiet(b, [b EXCEPT !.stalled = f], Bytes(x), Bytes(Peer(x)))
    BY <2>3, <2>4, QuietFields, Zenon
  <2>6. Quiet(conn[x], [b EXCEPT !.stalled = f], Bytes(x), Bytes(Peer(x)))
    BY <2>2, <2>5, QuietTwice, Zenon
  <2> QED
    BY <2>6, Zenon DEF b, f
<1> HIDE DEF After
<1>3. conn' = [x \in Ends |-> conn'[x]] /\ \A x \in Ends : conn'[x] = After(x)
  BY <1>1
<1> QED
  BY <1>2, <1>3, QuietStep, Zenon

\* And its events are of the ends.
LEMMA ResumedAddressed ==
    ASSUME NEW left
    PROVE  Addressed(ResumedEvents(left))
<1> DEFINE Timed(e) == LET thawed == Thawed(conn[e]).flight IN
                       {Event("Delivery", e, thawed[i].seq, thawed[i].at) : i \in DOMAIN thawed}
           Flies(e) == IF conn[e].held # None /\ ~Cut(left, e) THEN Timed(e) ELSE {}
           Goes(e) == IF conn[e].stalled /\ ~Cut(left, e) THEN {Event("Process", e, 0, 0)} ELSE {}
<1>1. ResumedEvents(left) = UNION {Flies(e) \cup Goes(e) : e \in Ends}
  BY Zenon DEF ResumedEvents
<1>2. ASSUME NEW e \in Ends
      PROVE  Addressed(Flies(e) \cup Goes(e))
  <2>1. Addressed({}) /\ Addressed({Event("Process", e, 0, 0)})
    BY AddressedEvents, Zenon
  <2>2. Addressed(Timed(e))
    BY Zenon DEF Addressed
  <2> HIDE DEF Timed
  <2>3. Addressed(Flies(e)) /\ Addressed(Goes(e))
    BY <2>1, <2>2, Zenon
  <2> QED
    BY <2>3, AddressedSets, Zenon
<1> HIDE DEF Flies, Goes
<1>3. \A ev \in ResumedEvents(left) : \E e \in Ends : ev \in Flies(e) \cup Goes(e)
  BY <1>1, Zenon
<1> QED
  BY <1>2, <1>3, ZenonT(60) DEF Addressed

\* PartitionRestore, SendPartitionClear, RecvPartitionClear.
LEMMA PartitionClearStep ==
    ASSUME IInv, PartitionClear
    PROVE  IInv'
<1>1. PICK kind \in {"pair", "send", "recv"}, ev \in events :
        /\ conn' = Resumed(cuts')
        /\ events' = (events \ {ev}) \cup ResumedEvents(cuts')
        /\ UNCHANGED <<world, faults, clogs, reader, writer, history>>
  BY Zenon DEF PartitionClear
<1>2. /\ world \in Worlds /\ faults \in 0 .. world.faults /\ Addressed(events)
      /\ reader \in [Ends -> ReaderStates] /\ writer \in [Ends -> WriterStates]
  BY TidyFacts, Zenon
<1>3. Addressed(events')
  <2>1. Addressed(ResumedEvents(cuts'))
    BY ResumedAddressed, Zenon
  <2> QED
    BY <1>1, <1>2, <2>1, AddressedSets, Zenon
<1>4. Orderly /\ SameHistory
  BY <1>1, <1>2, <1>3, Zenon DEF Orderly, SameHistory, history
<1> QED
  BY <1>1, <1>4, ResumedStep, Zenon

\* restore_partition, heal_all_partitions.
LEMMA HealStep ==
    ASSUME IInv, Heal
    PROVE  IInv'
<1>1. /\ conn' = Resumed(cuts')
      /\ events' = events \cup ResumedEvents(cuts')
      /\ UNCHANGED <<world, faults, clogs, reader, writer, history>>
  BY Zenon DEF Heal
<1>2. /\ world \in Worlds /\ faults \in 0 .. world.faults /\ Addressed(events)
      /\ reader \in [Ends -> ReaderStates] /\ writer \in [Ends -> WriterStates]
  BY TidyFacts, Zenon
<1>3. Addressed(events')
  <2>1. Addressed(ResumedEvents(cuts'))
    BY ResumedAddressed, Zenon
  <2> QED
    BY <1>1, <1>2, <2>1, AddressedSets, ZenonT(60)
<1>4. Orderly /\ SameHistory
  BY <1>1, <1>2, <1>3, Zenon DEF Orderly, SameHistory, history
<1> QED
  BY <1>1, <1>4, ResumedStep, Zenon

\* ClogClear, ReadClogClear.
LEMMA ClogClearStep ==
    ASSUME IInv, ClogClear
    PROVE  IInv'
<1>1. PICK kind \in {"write", "read"}, ev \in events :
        /\ events' = events \ {ev}
        /\ writer' = writer \/ writer' = Woken(writer, ev.end, "clogged")
        /\ reader' = reader \/ reader' = Woken(reader, ev.end, "clogged")
        /\ UNCHANGED <<world, faults, conn, cuts, history>>
  BY Zenon DEF ClogClear
<1>2. /\ world \in Worlds /\ faults \in 0 .. world.faults /\ Addressed(events)
      /\ reader \in [Ends -> ReaderStates] /\ writer \in [Ends -> WriterStates]
  BY TidyFacts, Zenon
<1>3. Addressed(events')
  BY <1>1, <1>2, AddressedSets, Zenon
<1>4. writer' \in [Ends -> WriterStates] /\ reader' \in [Ends -> ReaderStates]
  <2>1. /\ Woken(writer, ev.end, "clogged") \in [Ends -> WriterStates]
        /\ Woken(reader, ev.end, "clogged") \in [Ends -> ReaderStates]
    BY <1>2, TasksWoken, TaskStates, Zenon
  <2> QED
    BY <1>1, <1>2, <2>1, Zenon
<1>5. Orderly /\ SameHistory /\ conn' = conn
  BY <1>1, <1>2, <1>3, <1>4, Zenon DEF Orderly, SameHistory, history
<1> QED
  BY <1>5, IdleStep, Zenon

\* hold_partitioned_in_flight.
LEMMA PartitionStep ==
    ASSUME IInv, Partition
    PROVE  IInv'
<1>1. PICK kind \in {"pair", "both", "send", "recv"}, e \in Ends, d \in Durations :
        /\ Fault(kind)
        /\ conn' = HeldBy(cuts')
        /\ events' = events \cup {Event(IF kind = "both" THEN "pair" ELSE kind, 0, 0, d)}
        /\ UNCHANGED <<world, clogs, reader, writer, history>>
  BY Zenon DEF Partition
<1>2. /\ world \in Worlds /\ Addressed(events)
      /\ reader \in [Ends -> ReaderStates] /\ writer \in [Ends -> WriterStates]
  BY TidyFacts, Zenon
<1>3. Addressed(events')
  <2> DEFINE what == IF kind = "both" THEN "pair" ELSE kind
  <2>1. what \notin {"Delivery", "Process"}
    OBVIOUS
  <2> HIDE DEF what
  <2>2. Addressed({Event(what, 0, 0, d)})
    BY <2>1, AddressedEvents, Zenon
  <2> QED
    BY <1>1, <1>2, <2>2, AddressedSets, ZenonT(60) DEF what
<1>4. faults' \in 0 .. world.faults
  BY <1>1, FaultsStay, Zenon
<1>5. Orderly /\ SameHistory
  BY <1>1, <1>2, <1>3, <1>4, ZenonT(60) DEF Orderly, SameHistory, history
<1>6. ASSUME NEW x \in Ends
      PROVE  Quiet(conn[x], conn'[x], Bytes(x), Bytes(Peer(x)))
  <2>1. conn[x] \in Conn(Bytes(x), Bytes(Peer(x)))
    BY ConnTypes, Zenon
  <2>2. conn'[x] = conn[x] \/ conn'[x] = [conn[x] EXCEPT !.held = 0]
    BY <1>1, Zenon DEF HeldBy
  <2>3. Quiet(conn[x], [conn[x] EXCEPT !.held = 0], Bytes(x), Bytes(Peer(x)))
    BY <2>1, QuietFields, 0 \in Int, Zenon
  <2> QED
    BY <2>1, <2>2, <2>3, QuietSelf, ZenonT(60)
<1>7. conn' = [x \in Ends |-> conn'[x]]
  BY <1>1 DEF HeldBy
<1> QED
  BY <1>5, <1>6, <1>7, QuietStep, Zenon

\* clog_write_until, clog_read_until.
LEMMA ClogStep ==
    ASSUME IInv, Clog
    PROVE  IInv'
<1>1. PICK kind \in {"write", "read"}, e \in Ends, d \in Durations :
        /\ Fault(kind)
        /\ events' = events \cup {Event(kind, e, 0, d)}
        /\ UNCHANGED <<world, conn, cuts, reader, writer, history>>
  BY Zenon DEF Clog
<1>2. /\ world \in Worlds /\ Addressed(events)
      /\ reader \in [Ends -> ReaderStates] /\ writer \in [Ends -> WriterStates]
  BY TidyFacts, Zenon
<1>3. Addressed(events')
  <2>1. kind \notin {"Delivery", "Process"}
    OBVIOUS
  <2>2. Addressed({Event(kind, e, 0, d)})
    BY <2>1, AddressedEvents, Zenon
  <2> QED
    BY <1>1, <1>2, <2>2, AddressedSets, ZenonT(60)
<1>4. faults' \in 0 .. world.faults
  BY <1>1, FaultsStay, Zenon
<1>5. Orderly /\ SameHistory /\ conn' = conn
  BY <1>1, <1>2, <1>3, <1>4, ZenonT(60) DEF Orderly, SameHistory, history
<1> QED
  BY <1>5, IdleStep, Zenon

-----------------------------------------------------------------------------
(* The faults that throw bytes away.                                       *)

\* black_hole.
LEMMA BlackHoleStep ==
    ASSUME IInv, BlackHole
    PROVE  IInv'
<1>1. PICK holes \in (SUBSET Ends) \ {{}} :
        /\ Fault("hole")
        /\ conn' = [e \in Ends |-> [conn[e] EXCEPT !.holed = @ \/ e \in holes]]
        /\ UNCHANGED <<world, environment, events, reader, writer, history>>
  BY Zenon DEF BlackHole
<1>2. /\ world \in Worlds /\ Addressed(events)
      /\ reader \in [Ends -> ReaderStates] /\ writer \in [Ends -> WriterStates]
  BY TidyFacts, Zenon
<1>3. faults' \in 0 .. world.faults
  BY <1>1, FaultsStay, Zenon
<1>4. Orderly /\ SameHistory
  BY <1>1, <1>2, <1>3, ZenonT(60) DEF Orderly, SameHistory, history
<1>5. conn' = [x \in Ends |-> conn'[x]]
  BY <1>1
<1>6. ASSUME NEW x \in Ends
      PROVE  Quiet(conn[x], conn'[x], Bytes(x), Bytes(Peer(x)))
  <2> DEFINE c == conn[x]
             S == Bytes(x)
             R == Bytes(Peer(x))
             h == c.holed \/ x \in holes
             d == [c EXCEPT !.holed = h]
  <2>1. c \in Conn(S, R) /\ h \in BOOLEAN
    BY ConnTypes
  <2>2. conn'[x] = d
    BY <1>1, Zenon
  <2>3. ~h => ~c.holed
    OBVIOUS
  <2> HIDE DEF c, S, R, h
  <2>4. /\ d \in Conn(S, R) /\ d.queue = c.queue /\ d.finPending = c.finPending /\ d.sendClosed = c.sendClosed
        /\ d.flight = c.flight /\ d.window = c.window /\ d.closed = c.closed /\ d.holed = h
        /\ d.inbox = c.inbox /\ d.recvClosed = c.recvClosed /\ d.finReceived = c.finReceived
    BY <2>1, Zenon DEF Conn
  <2> HIDE DEF d
  <2>5. Quiet(c, d, S, R)
    BY <2>3, <2>4, Zenon DEF Quiet, SameSender, SameQueue, SameReceiver
  <2> QED
    BY <2>2, <2>5, Zenon DEF c, S, R
<1> QED
  BY <1>4, <1>5, <1>6, QuietStep, Zenon

\* close_aborted, when an end's process dies.
LEMMA AbortStep ==
    ASSUME IInv, Abort
    PROVE  IInv'
<1>1. /\ Fault("abort") /\ conn' = Reset
      /\ reader' = WokenAll(reader) /\ writer' = WokenAll(writer)
      /\ UNCHANGED <<world, environment, events, history>>
  BY Zenon DEF Abort
<1>2. /\ world \in Worlds /\ Addressed(events)
      /\ reader \in [Ends -> ReaderStates] /\ writer \in [Ends -> WriterStates]
  BY TidyFacts, Zenon
<1>3. faults' \in 0 .. world.faults
  BY <1>1, FaultsStay, Zenon
<1>4. reader' \in [Ends -> ReaderStates] /\ writer' \in [Ends -> WriterStates]
  BY <1>1, <1>2, TasksWoken, TaskStates, ZenonT(60)
<1>5. Orderly /\ SameHistory
  BY <1>1, <1>2, <1>3, <1>4, ZenonT(60) DEF Orderly, SameHistory, history
<1> QED
  BY <1>1, <1>5, ResetStep, Zenon

-----------------------------------------------------------------------------
(* The next state, and the theorems.                                       *)

\* Every step keeps the invariant.
LEMMA NextInv ==
    ASSUME IInv, [Next]_vars
    PROVE  IInv'
<1>1. ASSUME UNCHANGED vars PROVE IInv'
  <2>1. /\ world' = world /\ faults' = faults /\ conn' = conn /\ events' = events
        /\ reader' = reader /\ writer' = writer
        /\ written' = written /\ got' = got /\ vanished' = vanished /\ broken' = broken
    BY <1>1, Zenon DEF vars, history
  <2>2. Orderly /\ SameHistory
    BY <2>1, TidyFacts, Zenon DEF Orderly, SameHistory
  <2> QED
    BY <2>1, <2>2, IdleStep, Zenon
<1>2. ASSUME NEW e \in Ends, PollWrite(e) \/ PollRead(e) \/ ShutdownSend(e) \/ DropStream(e)
      PROVE  IInv'
  BY <1>2, PollWriteStep, PollReadStep, ShutdownSendStep, DropStreamStep, Zenon
<1>3. ASSUME HandleEvent PROVE IInv'
  BY <1>3, DeliveryStep, ProcessSendBufferStep, PartitionClearStep, ClogClearStep, ZenonT(60) DEF HandleEvent
<1>4. ASSUME Partition \/ Heal \/ Clog \/ RandomClose \/ BlackHole \/ Abort PROVE IInv'
  BY <1>4, PartitionStep, HealStep, ClogStep, RandomCloseStep, BlackHoleStep, AbortStep, ZenonT(60)
<1> QED
  BY <1>1, <1>2, <1>3, <1>4, TickStep, ZenonT(60) DEF Next

\* The inductive invariant holds in every reachable state.
LEMMA Invariance == Spec => []IInv
<1>1. Init => IInv
  BY InitInv, Zenon
<1>2. IInv /\ [Next]_vars => IInv'
  BY NextInv, Zenon
<1> QED
  BY <1>1, <1>2, PTL DEF Spec

\* The invariant SendWindow documents: whatever is cut, frozen, closed, reset or
\* swallowed, and for every capacity, latency and duration, the window holds
\* exactly the bytes that were written and not yet read, and fits.
THEOREM WindowHolds == Spec => []WindowAccounts
<1>1. IInv => WindowAccounts
  BY InvWindow, Zenon
<1> QED
  BY <1>1, Invariance, PTL

\* No interleaving of sends, partial writes, partitions, heals, closes and reads
\* reorders the bytes of a stream or leaves a hole in it, and no end of file
\* overtakes them (land, resume_after_heal, close_graceful).
THEOREM StreamHolds == Spec => []StreamKept
<1>1. IInv => StreamKept
  BY InvStream, Zenon
<1> QED
  BY <1>1, Invariance, PTL
=============================================================================
