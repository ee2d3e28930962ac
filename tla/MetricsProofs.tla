--------------------------- MODULE MetricsProofs ----------------------------
(***************************************************************************)
(* Proofs about Metrics: no response is lost or counted twice on its way   *)
(* from the workers to the report, and the channel overflows only when the *)
(* aggregator has stalled.  Both are about sums, of the snapshots in the   *)
(* channel, of a histogram and of the workers, so that the module begins   *)
(* with the theory of SumFunctionOnSet.                                    *)
(***************************************************************************)
EXTENDS Metrics, WellFoundedInduction, FiniteSetTheorems, TLAPS

-----------------------------------------------------------------------------
\* A set of natural numbers has a least element.
LEMMA LeastNat ==
  ASSUME NEW T, T \subseteq Nat, T # {}
  PROVE  \E x \in T : \A y \in T : x <= y
<1> DEFINE R == OpToRel(<, Nat)
<1>1. IsWellFoundedOn(R, Nat) BY NatLessThanWellFounded
<1>2. PICK x \in T : \A y \in T : ~(<<y, x>> \in R)
  <2> HIDE DEF R
  <2> QED BY <1>1, WFMin
<1>3. \A y \in T : y < x => <<y, x>> \in R BY DEF OpToRel
<1>4. \A y \in T : ~(y < x) BY <1>2, <1>3, Zenon
<1>5. \A y \in T : x <= y
  <2>1. \A y \in Nat : x \in Nat /\ ~(y < x) => x <= y OBVIOUS
  <2> QED BY <1>4, <2>1
<1> QED BY <1>5, Zenon

\* Induction, for the set of the numbers that have the property in question.
LEMMA Induction ==
  ASSUME NEW P, 0 \in P, \A n \in Nat : n \in P => n + 1 \in P
  PROVE  \A n \in Nat : n \in P
<1> SUFFICES ASSUME NEW n \in Nat, n \notin P PROVE FALSE OBVIOUS
<1> DEFINE T == {k \in Nat : k \notin P}
<1>1. T # {} /\ T \subseteq Nat OBVIOUS
<1>2. PICK x \in T : \A y \in T : x <= y
  <2> HIDE DEF T
  <2> QED BY <1>1, LeastNat
<1>3. x \in Nat /\ x # 0 /\ x \notin P BY <1>2
<1>4. x - 1 \in Nat /\ x - 1 + 1 = x BY <1>3
<1>5. x - 1 \notin P BY <1>3, <1>4
<1>6. x <= x - 1 BY <1>2, <1>4, <1>5
<1> QED BY <1>3, <1>6

-----------------------------------------------------------------------------
Pick(s) == CHOOSE x \in s : TRUE

\* g adds up f over the sets of the domain D, taking out Pick's choice each time.
Adds(g, f, D) ==
  \A s \in D : g[s] = IF s = {} THEN 0 ELSE f[Pick(s)] + g[s \ {Pick(s)}]

LEMMA PickIn == ASSUME NEW s, s # {} PROVE Pick(s) \in s
BY DEF Pick

\* What is left of a finite set when one element is taken out.
LEMMA TakenOut ==
  ASSUME NEW s, IsFiniteSet(s), NEW x \in s
  PROVE  /\ IsFiniteSet(s \ {x}) /\ Cardinality(s) \in Nat
         /\ Cardinality(s) >= 1 /\ Cardinality(s \ {x}) = Cardinality(s) - 1
<1>1. Cardinality(s) \in Nat BY FS_CardinalityType
<1>2. IsFiniteSet(s \ {x}) /\ Cardinality(s \ {x}) = Cardinality(s) - 1 BY FS_RemoveElement
<1>3. Cardinality(s \ {x}) \in Nat BY <1>2, FS_CardinalityType
<1> QED BY <1>1, <1>2, <1>3

Small(S, n) == {s \in SUBSET S : Cardinality(s) <= n}

\* The function that SumFunctionOnSet defines by recursion exists.
LEMMA AdderExists ==
  ASSUME NEW S, IsFiniteSet(S), NEW f \in [S -> Nat]
  PROVE  \E g \in [SUBSET S -> Nat] : Adds(g, f, SUBSET S)
<1>0. \A s \in SUBSET S : IsFiniteSet(s) /\ Cardinality(s) \in Nat /\ Cardinality(s) <= Cardinality(S)
  BY FS_Subset, FS_CardinalityType
<1> DEFINE P == {n \in Nat : \E g \in [Small(S, n) -> Nat] : Adds(g, f, Small(S, n))}
<1>1. 0 \in P
  <2>1. \A s \in Small(S, 0) : s = {} BY <1>0, FS_EmptySet DEF Small
  <2> DEFINE g == [s \in Small(S, 0) |-> 0]
  <2>2. g \in [Small(S, 0) -> Nat] /\ Adds(g, f, Small(S, 0)) BY <2>1 DEF Adds
  <2> QED BY <2>2
<1>2. ASSUME NEW n \in Nat, n \in P PROVE n + 1 \in P
  <2>1. PICK g \in [Small(S, n) -> Nat] : Adds(g, f, Small(S, n)) BY <1>2
  <2>2. \A s \in Small(S, n + 1) : s # {} => /\ Pick(s) \in s /\ Pick(s) \in S
                                             /\ s \ {Pick(s)} \in Small(S, n)
    <3> SUFFICES ASSUME NEW s \in Small(S, n + 1), s # {}
                 PROVE  Pick(s) \in s /\ Pick(s) \in S /\ s \ {Pick(s)} \in Small(S, n)
      OBVIOUS
    <3>1. Pick(s) \in s /\ s \subseteq S /\ Cardinality(s) <= n + 1 BY PickIn DEF Small
    <3>2. Cardinality(s \ {Pick(s)}) = Cardinality(s) - 1 BY <1>0, <3>1, TakenOut
    <3> QED BY <1>0, <3>1, <3>2 DEF Small
  <2> DEFINE h == [s \in Small(S, n + 1) |-> IF s = {} THEN 0 ELSE f[Pick(s)] + g[s \ {Pick(s)}]]
  <2>3. h \in [Small(S, n + 1) -> Nat] BY <2>2
  <2>4. \A s \in Small(S, n) : s \in Small(S, n + 1) BY <1>0 DEF Small
  <2>5. \A s \in Small(S, n) : h[s] = g[s] BY <2>1, <2>4 DEF Adds
  <2>6. \A s \in Small(S, n + 1) : h[s] = IF s = {} THEN 0 ELSE f[Pick(s)] + g[s \ {Pick(s)}]
    OBVIOUS
  <2> HIDE DEF h
  <2>7. Adds(h, f, Small(S, n + 1)) BY <2>2, <2>5, <2>6 DEF Adds
  <2> QED BY <2>3, <2>7
<1>3. \A n \in Nat : n \in P
  <2> HIDE DEF P
  <2> QED BY <1>1, <1>2, Induction
<1>4. Cardinality(S) \in P BY <1>3, FS_CardinalityType
<1>5. Small(S, Cardinality(S)) = SUBSET S BY <1>0 DEF Small
<1> QED BY <1>4, <1>5

\* And there is only one on the sets that two of them have in common.
LEMMA AdderUnique ==
  ASSUME NEW S, NEW T, IsFiniteSet(S), T \subseteq S,
         NEW e, NEW f, \A x \in T : e[x] = f[x],
         NEW g, NEW h, Adds(g, f, SUBSET S), Adds(h, e, SUBSET T)
  PROVE  g[T] = h[T]
<1>0. \A s \in SUBSET T : IsFiniteSet(s) /\ Cardinality(s) \in Nat
  BY FS_Subset, FS_CardinalityType
<1> DEFINE P == {n \in Nat : \A s \in SUBSET T : Cardinality(s) = n => g[s] = h[s]}
<1>1. 0 \in P
  <2>1. \A s \in SUBSET T : Cardinality(s) = 0 => s = {} BY <1>0, FS_EmptySet
  <2>2. \A s \in SUBSET T : s \in SUBSET S OBVIOUS
  <2> QED BY <2>1, <2>2 DEF Adds
<1>2. ASSUME NEW n \in Nat, n \in P PROVE n + 1 \in P
  <2> SUFFICES ASSUME NEW s \in SUBSET T, Cardinality(s) = n + 1 PROVE g[s] = h[s] OBVIOUS
  <2>1. s # {} BY FS_EmptySet
  <2>2. Pick(s) \in s BY <2>1, PickIn
  <2>3. Cardinality(s \ {Pick(s)}) = n /\ s \ {Pick(s)} \in SUBSET T BY <1>0, <2>2, TakenOut
  <2>4. g[s \ {Pick(s)}] = h[s \ {Pick(s)}] BY <1>2, <2>3
  <2>5. g[s] = f[Pick(s)] + g[s \ {Pick(s)}] BY <2>1 DEF Adds
  <2>6. h[s] = e[Pick(s)] + h[s \ {Pick(s)}] BY <2>1 DEF Adds
  <2> QED BY <2>2, <2>4, <2>5, <2>6
<1>3. \A n \in Nat : n \in P
  <2> HIDE DEF P
  <2> QED BY <1>1, <1>2, Induction
<1> QED BY <1>0, <1>3

-----------------------------------------------------------------------------
Sum(f, S) == SumFunctionOnSet(f, S)

\* S is finite and f has natural numbers on it.
Summable(f, S) == IsFiniteSet(S) /\ \A x \in S : f[x] \in Nat

\* The sum is what such a function gives for the whole set.
LEMMA SumIs ==
  ASSUME NEW S, NEW f, Summable(f, S)
  PROVE  \E g \in [SUBSET S -> Nat] : Adds(g, f, SUBSET S) /\ Sum(f, S) = g[S]
<1> DEFINE e == [x \in S |-> f[x]]
           Step(g) == [s \in SUBSET S |-> IF s = {} THEN 0 ELSE f[Pick(s)] + g[s \ {Pick(s)}]]
           adder == CHOOSE g : g = Step(g)
<1>1. \E g \in [SUBSET S -> Nat] : Adds(g, e, SUBSET S)
  <2>1. e \in [S -> Nat] /\ IsFiniteSet(S) BY DEF Summable
  <2> HIDE DEF e
  <2> QED BY <2>1, AdderExists
<1>2. PICK g \in [SUBSET S -> Nat] : Adds(g, e, SUBSET S) BY <1>1
<1>3. \A s \in SUBSET S : s # {} => e[Pick(s)] = f[Pick(s)] BY PickIn
<1> HIDE DEF e
<1>4. g = Step(g) BY <1>2, <1>3 DEF Adds
<1>5. adder = Step(adder) BY <1>4
<1>6. Adds(adder, f, SUBSET S) BY <1>5 DEF Adds
<1>7. adder \in [SUBSET S -> Nat]
  <2>1. \A s \in SUBSET S : adder[s] = g[s]
    <3> SUFFICES ASSUME NEW s \in SUBSET S PROVE adder[s] = g[s] OBVIOUS
    <3>1. Adds(g, e, SUBSET s) BY <1>2 DEF Adds
    <3>2. \A x \in s : e[x] = f[x] BY DEF e
    <3>3. IsFiniteSet(S) BY DEF Summable
    <3> HIDE DEF adder
    <3> QED BY <1>6, <3>1, <3>2, <3>3, AdderUnique
  <2>2. DOMAIN adder = SUBSET S /\ adder = [s \in SUBSET S |-> adder[s]] BY <1>5
  <2> HIDE DEF adder
  <2> QED BY <1>2, <2>1, <2>2
<1>8. Sum(f, S) = adder[S]
  BY Zenon DEF Sum, SumFunctionOnSet, FoldFunctionOnSet, MapThenFoldSet, Pick
<1> HIDE DEF adder
<1> QED BY <1>6, <1>7, <1>8

LEMMA SumType == ASSUME NEW S, NEW f, Summable(f, S) PROVE Sum(f, S) \in Nat
<1>1. PICK g \in [SUBSET S -> Nat] : Sum(f, S) = g[S] BY SumIs
<1> QED BY <1>1

LEMMA SumEmpty == ASSUME NEW f PROVE Sum(f, {}) = 0
<1>1. Summable(f, {}) BY FS_EmptySet DEF Summable
<1>2. PICK g : Adds(g, f, SUBSET {}) /\ Sum(f, {}) = g[{}] BY <1>1, SumIs
<1> QED BY <1>2 DEF Adds

\* The sum depends on the values on S only.
LEMMA SumCongruent ==
  ASSUME NEW S, NEW e, NEW f, Summable(f, S), \A x \in S : e[x] = f[x]
  PROVE  Sum(e, S) = Sum(f, S)
<1>1. Summable(e, S) /\ IsFiniteSet(S) BY DEF Summable
<1>2. PICK g : Adds(g, f, SUBSET S) /\ Sum(f, S) = g[S] BY SumIs
<1>3. PICK h : Adds(h, e, SUBSET S) /\ Sum(e, S) = h[S] BY <1>1, SumIs
<1> QED BY <1>1, <1>2, <1>3, AdderUnique

\* Parts of a set can be summed up, too.
LEMMA SummablePart ==
  ASSUME NEW S, NEW T, NEW f, Summable(f, S), T \subseteq S
  PROVE  Summable(f, T)
BY FS_Subset DEF Summable

\* The element that Pick chooses can be taken out of the sum.
LEMMA SumPick ==
  ASSUME NEW S, NEW f, Summable(f, S), S # {}
  PROVE  Sum(f, S) = f[Pick(S)] + Sum(f, S \ {Pick(S)})
<1> DEFINE T == S \ {Pick(S)}
<1>1. T \subseteq S /\ IsFiniteSet(S) BY DEF Summable
<1>2. Summable(f, T) BY <1>1, SummablePart
<1> HIDE DEF T
<1>3. PICK g : Adds(g, f, SUBSET S) /\ Sum(f, S) = g[S] BY SumIs
<1>4. PICK h : Adds(h, f, SUBSET T) /\ Sum(f, T) = h[T] BY <1>2, SumIs
<1>5. g[T] = h[T] BY <1>1, <1>3, <1>4, AdderUnique
<1>6. g[S] = f[Pick(S)] + g[T] BY <1>3 DEF Adds, T
<1> QED BY <1>3, <1>4, <1>5, <1>6 DEF T

\* So can any other: the order of summation makes no difference.
LEMMA SumTakeOut ==
  ASSUME NEW S, NEW f, Summable(f, S), NEW x \in S
  PROVE  Sum(f, S) = f[x] + Sum(f, S \ {x})
<1>0. \A s \in SUBSET S : IsFiniteSet(s) /\ Cardinality(s) \in Nat /\ Summable(f, s)
  BY SummablePart, FS_CardinalityType DEF Summable
<1> DEFINE Holds(s) == \A y \in s : Sum(f, s) = f[y] + Sum(f, s \ {y})
           P == {n \in Nat : \A s \in SUBSET S : Cardinality(s) = n => Holds(s)}
<1>1. 0 \in P
  <2>1. \A s \in SUBSET S : Cardinality(s) = 0 => s = {} BY <1>0, FS_EmptySet
  <2> QED BY <2>1
<1>2. ASSUME NEW n \in Nat, n \in P PROVE n + 1 \in P
  <2> SUFFICES ASSUME NEW s \in SUBSET S, Cardinality(s) = n + 1, NEW y \in s
               PROVE  Sum(f, s) = f[y] + Sum(f, s \ {y})
    OBVIOUS
  <2>1. PICK c \in s : c = Pick(s) BY PickIn
  <2>2. Sum(f, s) = f[c] + Sum(f, s \ {c}) BY <1>0, <2>1, SumPick
  <2>3. CASE y # c
    <3>1. /\ s \ {c} \in SUBSET S /\ Cardinality(s \ {c}) = n
          /\ s \ {y} \in SUBSET S /\ Cardinality(s \ {y}) = n
      BY <1>0, TakenOut
    <3>2. Sum(f, s \ {c}) = f[y] + Sum(f, (s \ {c}) \ {y}) BY <1>2, <2>3, <3>1
    <3>3. Sum(f, s \ {y}) = f[c] + Sum(f, (s \ {y}) \ {c}) BY <1>2, <2>3, <3>1
    <3>4. (s \ {c}) \ {y} = (s \ {y}) \ {c} OBVIOUS
    <3>5. f[c] \in Nat /\ f[y] \in Nat BY <1>0 DEF Summable
    <3>6. Sum(f, (s \ {y}) \ {c}) \in Nat
      <4>1. (s \ {y}) \ {c} \in SUBSET S OBVIOUS
      <4> QED BY <1>0, <4>1, SumType
    <3>7. \A a, b, r \in Nat : a + (b + r) = b + (a + r) OBVIOUS
    <3>8. Sum(f, s) = f[c] + (f[y] + Sum(f, (s \ {y}) \ {c})) BY <2>2, <3>2, <3>4, Zenon
    <3>9. Sum(f, s) = f[y] + (f[c] + Sum(f, (s \ {y}) \ {c})) BY <3>5, <3>6, <3>7, <3>8, Zenon
    <3> QED BY <3>3, <3>9, Zenon
  <2> QED BY <2>2, <2>3
<1>3. \A n \in Nat : n \in P
  <2> HIDE DEF P
  <2> QED BY <1>1, <1>2, Induction
<1> QED BY <1>0, <1>3

\* Changing one summand.
LEMMA SumUpdate ==
  ASSUME NEW S, NEW e, NEW f, Summable(e, S), Summable(f, S), NEW x \in S,
         \A y \in S \ {x} : e[y] = f[y]
  PROVE  Sum(e, S) + f[x] = Sum(f, S) + e[x]
<1> DEFINE T == S \ {x}
<1>1. Summable(f, T) BY SummablePart
<1>2. Sum(e, T) = Sum(f, T)
  <2>1. \A y \in T : e[y] = f[y] OBVIOUS
  <2> HIDE DEF T
  <2> QED BY <1>1, <2>1, SumCongruent
<1>3. Sum(e, S) = e[x] + Sum(e, T) /\ Sum(f, S) = f[x] + Sum(f, T) BY SumTakeOut
<1>4. Sum(f, T) \in Nat BY <1>1, SumType
<1>5. e[x] \in Nat /\ f[x] \in Nat BY DEF Summable
<1> HIDE DEF T
<1> QED BY <1>2, <1>3, <1>4, <1>5

\* Adding summand by summand.
LEMMA SumAdd ==
  ASSUME NEW S, NEW e, NEW f, NEW g, Summable(e, S), Summable(f, S),
         \A x \in S : g[x] = e[x] + f[x]
  PROVE  Sum(g, S) = Sum(e, S) + Sum(f, S)
<1>1. Summable(g, S) BY DEF Summable
<1>2. \A s \in SUBSET S : /\ IsFiniteSet(s) /\ Cardinality(s) \in Nat
                          /\ Summable(e, s) /\ Summable(f, s) /\ Summable(g, s)
  BY <1>1, SummablePart, FS_CardinalityType DEF Summable
<1> DEFINE P == {n \in Nat : \A s \in SUBSET S :
                   Cardinality(s) = n => Sum(g, s) = Sum(e, s) + Sum(f, s)}
<1>3. 0 \in P
  <2>1. \A s \in SUBSET S : Cardinality(s) = 0 => s = {} BY <1>2, FS_EmptySet
  <2>2. Sum(g, {}) = 0 /\ Sum(e, {}) = 0 /\ Sum(f, {}) = 0 BY SumEmpty
  <2> QED BY <2>1, <2>2
<1>4. ASSUME NEW n \in Nat, n \in P PROVE n + 1 \in P
  <2> SUFFICES ASSUME NEW s \in SUBSET S, Cardinality(s) = n + 1
               PROVE  Sum(g, s) = Sum(e, s) + Sum(f, s)
    OBVIOUS
  <2>1. s # {} BY FS_EmptySet
  <2>2. PICK x : x \in s BY <2>1
  <2>3. PICK t \in SUBSET S : t = s \ {x} /\ Cardinality(t) = n
    <3>1. Cardinality(s \ {x}) = Cardinality(s) - 1 BY <1>2, <2>2, TakenOut
    <3>2. s \ {x} \in SUBSET S /\ Cardinality(s \ {x}) = n BY <3>1
    <3> QED BY <3>2
  <2>4. Sum(g, t) = Sum(e, t) + Sum(f, t) BY <1>4, <2>3
  <2>5. /\ Sum(g, s) = g[x] + Sum(g, t) /\ Sum(e, s) = e[x] + Sum(e, t)
        /\ Sum(f, s) = f[x] + Sum(f, t)
    BY <1>2, <2>2, <2>3, SumTakeOut
  <2>6. Sum(e, t) \in Nat /\ Sum(f, t) \in Nat BY <1>2, SumType
  <2>7. e[x] \in Nat /\ f[x] \in Nat /\ g[x] = e[x] + f[x] BY <2>2 DEF Summable
  <2> HIDE DEF P
  <2> QED BY <2>4, <2>5, <2>6, <2>7
<1>5. \A n \in Nat : n \in P
  <2> HIDE DEF P
  <2> QED BY <1>3, <1>4, Induction
<1> QED BY <1>2, <1>5

LEMMA SumZero ==
  ASSUME NEW S, NEW f, IsFiniteSet(S), \A x \in S : f[x] = 0
  PROVE  Summable(f, S) /\ Sum(f, S) = 0
<1>1. Summable(f, S) BY DEF Summable
<1>2. Sum(f, S) = Sum(f, S) + Sum(f, S) BY <1>1, SumAdd
<1>3. Sum(f, S) \in Nat BY <1>1, SumType
<1>4. \A a \in Nat : a = a + a => a = 0 OBVIOUS
<1> QED BY <1>1, <1>2, <1>3, <1>4, Zenon

\* A sum of n numbers none of which exceeds 2.
LEMMA SumAtMostTwo ==
  ASSUME NEW S, NEW f, Summable(f, S), \A x \in S : f[x] <= 2
  PROVE  Sum(f, S) <= 2 * Cardinality(S)
<1>2. \A s \in SUBSET S : IsFiniteSet(s) /\ Cardinality(s) \in Nat /\ Summable(f, s)
  BY SummablePart, FS_CardinalityType DEF Summable
<1> DEFINE P == {n \in Nat : \A s \in SUBSET S : Cardinality(s) = n => Sum(f, s) <= 2 * n}
<1>3. 0 \in P
  <2>1. \A s \in SUBSET S : Cardinality(s) = 0 => s = {} BY <1>2, FS_EmptySet
  <2>2. Sum(f, {}) = 0 BY SumEmpty
  <2> QED BY <2>1, <2>2
<1>4. ASSUME NEW n \in Nat, n \in P PROVE n + 1 \in P
  <2> SUFFICES ASSUME NEW s \in SUBSET S, Cardinality(s) = n + 1
               PROVE  Sum(f, s) <= 2 * (n + 1)
    OBVIOUS
  <2>1. s # {} BY FS_EmptySet
  <2>2. PICK x : x \in s BY <2>1
  <2>3. PICK t \in SUBSET S : t = s \ {x} /\ Cardinality(t) = n
    <3>1. Cardinality(s \ {x}) = Cardinality(s) - 1 BY <1>2, <2>2, TakenOut
    <3>2. s \ {x} \in SUBSET S /\ Cardinality(s \ {x}) = n BY <3>1
    <3> QED BY <3>2
  <2>4. Sum(f, t) <= 2 * n BY <1>4, <2>3
  <2>5. Sum(f, s) = f[x] + Sum(f, t) BY <1>2, <2>2, <2>3, SumTakeOut
  <2>6. Sum(f, t) \in Nat BY <1>2, SumType
  <2>7. f[x] \in Nat /\ f[x] <= 2 BY <2>2 DEF Summable
  <2> HIDE DEF P
  <2> QED BY <2>4, <2>5, <2>6, <2>7
<1>5. \A n \in Nat : n \in P
  <2> HIDE DEF P
  <2> QED BY <1>3, <1>4, Induction
<1> QED BY <1>2, <1>5

\* Sums along a sequence: at its end, and at its front.
LEMMA SumAppend ==
  ASSUME NEW n \in Nat, NEW e, NEW f, Summable(e, 1..(n + 1)), \A i \in 1..n : e[i] = f[i]
  PROVE  /\ Summable(f, 1..n) /\ Sum(e, 1..(n + 1)) = Sum(f, 1..n) + e[n + 1]
<1>1. 1..n = 1..(n + 1) \ {n + 1} /\ 1..n \subseteq 1..(n + 1) /\ n + 1 \in 1..(n + 1) OBVIOUS
<1>2. Summable(e, 1..n) BY <1>1, SummablePart
<1>3. Summable(f, 1..n) BY <1>2 DEF Summable
<1>4. Sum(e, 1..(n + 1)) = e[n + 1] + Sum(e, 1..n) BY <1>1, SumTakeOut
<1>5. Sum(e, 1..n) = Sum(f, 1..n) BY <1>3, SumCongruent
<1>6. Sum(f, 1..n) \in Nat BY <1>3, SumType
<1>7. e[n + 1] \in Nat BY <1>1 DEF Summable
<1> QED BY <1>3, <1>4, <1>5, <1>6, <1>7

LEMMA SumTail ==
  ASSUME NEW n \in Nat, NEW e, NEW f, Summable(f, 1..(n + 1)), \A i \in 1..n : e[i] = f[i + 1]
  PROVE  Summable(e, 1..n) /\ Sum(f, 1..(n + 1)) = f[1] + Sum(e, 1..n)
<1>1. \A i \in 1..(n + 1) : f[i] \in Nat BY DEF Summable
<1>2. \A i \in 1..n : e[i] \in Nat BY <1>1
<1>3. \A m \in 0..n : Summable(e, 1..m) /\ Summable(f, 1..(m + 1))
  BY <1>1, <1>2, FS_Interval DEF Summable
<1> DEFINE P == {m \in Nat : m <= n => Sum(f, 1..(m + 1)) = f[1] + Sum(e, 1..m)}
<1>4. 0 \in P
  <2>1. 1..(0 + 1) = {1} /\ 1..0 = {} /\ {1} \ {1} = {} /\ 0 \in 0..n OBVIOUS
  <2>2. Summable(f, {1}) BY <1>3, <2>1
  <2>3. Sum(f, {1}) = f[1] + Sum(f, {}) BY <2>1, <2>2, SumTakeOut
  <2>4. Sum(f, {}) = 0 /\ Sum(e, {}) = 0 BY SumEmpty
  <2> QED BY <2>1, <2>3, <2>4
<1>5. ASSUME NEW m \in Nat, m \in P PROVE m + 1 \in P
  <2> SUFFICES ASSUME m + 1 <= n PROVE Sum(f, 1..((m + 1) + 1)) = f[1] + Sum(e, 1..(m + 1))
    OBVIOUS
  <2>1. m \in 0..n /\ m + 1 \in 0..n /\ 1 \in 1..(n + 1) OBVIOUS
  <2>2. Sum(f, 1..(m + 1)) = f[1] + Sum(e, 1..m) BY <1>5, <2>1
  <2>3. Sum(f, 1..((m + 1) + 1)) = Sum(f, 1..(m + 1)) + f[(m + 1) + 1]
    BY <1>3, <2>1, SumAppend
  <2>4. Sum(e, 1..(m + 1)) = Sum(e, 1..m) + e[m + 1] BY <1>3, <2>1, SumAppend
  <2>5. e[m + 1] = f[(m + 1) + 1] /\ e[m + 1] \in Nat /\ f[1] \in Nat BY <1>1, <1>2, <2>1
  <2>6. Sum(e, 1..m) \in Nat BY <1>3, <2>1, SumType
  <2> HIDE DEF P
  <2> QED BY <2>2, <2>3, <2>4, <2>5, <2>6
<1>6. \A m \in Nat : m \in P
  <2> HIDE DEF P
  <2> QED BY <1>4, <1>5, Induction
<1>7. n \in 0..n OBVIOUS
<1> QED BY <1>3, <1>6, <1>7

-----------------------------------------------------------------------------
(***************************************************************************)
(* Counters, histograms and the channel.                                   *)
(***************************************************************************)
Counts == [num_responses : Nat, batch_sizes : [1..BatchSize -> Nat]]
Snapshots == [worker_id : Workers, response : Counts]

\* What can be counted of a set of counters: its responses (0), its batches of one
\* size (1 to BatchSize), and itself.
Responses == 0
Sizes == 1..BatchSize
Itself == BatchSize + 1

Quantity(m, k) ==
  IF k = Responses THEN m.num_responses ELSE IF k \in Sizes THEN m.batch_sizes[k] ELSE 1

\* The same for the snapshots of worker w in a channel.
Weights(c, w, k) == [i \in 1..Len(c) |-> IF c[i].worker_id = w THEN Quantity(c[i].response, k) ELSE 0]
Total(c, w, k) == Sum(Weights(c, w, k), 1..Len(c))
Share(x, w, k) == IF x.worker_id = w THEN Quantity(x.response, k) ELSE 0

LEMMA SizesAre ==
  /\ BatchSize \in Nat /\ Sizes \subseteq Nat /\ Responses \notin Sizes
  /\ Itself \notin Sizes /\ Itself # Responses /\ Itself \in Nat /\ Responses \in Nat
  /\ IsFiniteSet(Sizes)
<1>1. BatchSize \in Nat /\ BatchSize >= 1 BY MetricsAssumption
<1>2. IsFiniteSet(1..BatchSize) BY <1>1, FS_Interval
<1> QED BY <1>1, <1>2 DEF Sizes, Responses, Itself

LEMMA QuantityType == ASSUME NEW m \in Counts, NEW k PROVE Quantity(m, k) \in Nat
BY DEF Counts, Quantity, Sizes

LEMMA WeightsSummable ==
  ASSUME NEW c \in Seq(Snapshots), NEW w, NEW k
  PROVE  Len(c) \in Nat /\ Summable(Weights(c, w, k), 1..Len(c)) /\ Total(c, w, k) \in Nat
<1>1. Len(c) \in Nat /\ \A i \in 1..Len(c) : c[i] \in Snapshots OBVIOUS
<1>2. \A i \in 1..Len(c) : c[i].response \in Counts BY <1>1 DEF Snapshots
<1>3. \A i \in 1..Len(c) : Weights(c, w, k)[i] \in Nat BY <1>2, QuantityType DEF Weights
<1>4. IsFiniteSet(1..Len(c)) BY <1>1, FS_Interval
<1>5. Summable(Weights(c, w, k), 1..Len(c)) BY <1>3, <1>4 DEF Summable
<1> QED BY <1>1, <1>5, SumType DEF Total

LEMMA TotalEmpty == ASSUME NEW w, NEW k PROVE Total(<<>>, w, k) = 0
<1>1. 1..Len(<<>>) = {} OBVIOUS
<1> QED BY <1>1, SumEmpty DEF Total

\* Sending a snapshot, and receiving one.
LEMMA TotalAppend ==
  ASSUME NEW c \in Seq(Snapshots), NEW x \in Snapshots, NEW w, NEW k
  PROVE  /\ Append(c, x) \in Seq(Snapshots)
         /\ Total(Append(c, x), w, k) = Total(c, w, k) + Share(x, w, k)
<1> DEFINE d == Append(c, x)
           n == Len(c)
<1>1. /\ d \in Seq(Snapshots) /\ n \in Nat /\ Len(d) = n + 1
      /\ d[n + 1] = x /\ \A i \in 1..n : d[i] = c[i]
  OBVIOUS
<1> HIDE DEF d, n
<1>2. Summable(Weights(d, w, k), 1..(n + 1)) BY <1>1, WeightsSummable
<1>3. \A i \in 1..n : Weights(d, w, k)[i] = Weights(c, w, k)[i] BY <1>1 DEF Weights, n
<1>4. Weights(d, w, k)[n + 1] = Share(x, w, k) BY <1>1 DEF Weights, Share
<1>5. Sum(Weights(d, w, k), 1..(n + 1)) = Sum(Weights(c, w, k), 1..n) + Weights(d, w, k)[n + 1]
  BY <1>1, <1>2, <1>3, SumAppend
<1> QED BY <1>1, <1>4, <1>5 DEF Total, d, n

LEMMA TotalTail ==
  ASSUME NEW c \in Seq(Snapshots), c # <<>>, NEW w, NEW k
  PROVE  /\ Head(c) \in Snapshots /\ Tail(c) \in Seq(Snapshots)
         /\ Total(c, w, k) = Share(Head(c), w, k) + Total(Tail(c), w, k)
<1> DEFINE d == Tail(c)
           n == Len(d)
<1>1. /\ d \in Seq(Snapshots) /\ n \in Nat /\ Len(c) = n + 1 /\ Head(c) = c[1]
      /\ Head(c) \in Snapshots /\ \A i \in 1..n : d[i] = c[i + 1]
  OBVIOUS
<1> HIDE DEF d, n
<1>2. Summable(Weights(c, w, k), 1..(n + 1)) BY <1>1, WeightsSummable
<1>3. \A i \in 1..n : Weights(d, w, k)[i] = Weights(c, w, k)[i + 1] BY <1>1 DEF Weights, n
<1>4. Weights(c, w, k)[1] = Share(Head(c), w, k) BY <1>1 DEF Weights, Share
<1>5. Sum(Weights(c, w, k), 1..(n + 1)) = Weights(c, w, k)[1] + Sum(Weights(d, w, k), 1..n)
  BY <1>1, <1>2, <1>3, SumTail
<1> QED BY <1>1, <1>4, <1>5 DEF Total, d, n

\* Zeros, add_batch_size and add_assign, quantity by quantity: a u8 that wraps only
\* ever becomes smaller.
LEMMA ZerosAre == Zeros \in Counts /\ \A k \in Sizes \cup {Responses} : Quantity(Zeros, k) = 0
BY SizesAre DEF Zeros, Counts, Quantity, Sizes, Responses

LEMMA WrapsDown == \A x \in Nat : x % 256 \in Nat /\ x % 256 <= x /\ (x < 256 => x % 256 = x)
OBVIOUS

LEMMA BatchAdded ==
  ASSUME NEW m \in Counts, NEW n \in Sizes
  PROVE  /\ add_batch_size(m, n) \in Counts
         /\ Quantity(add_batch_size(m, n), Responses) = Quantity(m, Responses) + n
         /\ \A k \in Sizes : Quantity(add_batch_size(m, n), k) <= Quantity(m, k) + 1
<1> DEFINE b == [m.batch_sizes EXCEPT ![n] = (@ + 1) % 256]
<1>1. m.num_responses \in Nat /\ m.batch_sizes \in [Sizes -> Nat] /\ n \in Nat
  BY SizesAre DEF Counts, Sizes
<1>2. m.batch_sizes[n] \in Nat /\ m.batch_sizes[n] + 1 \in Nat BY <1>1
<1>3. (m.batch_sizes[n] + 1) % 256 \in Nat /\ (m.batch_sizes[n] + 1) % 256 <= m.batch_sizes[n] + 1
  BY <1>2, WrapsDown
<1>4. b \in [Sizes -> Nat] BY <1>1, <1>3
<1>5. \A k \in Sizes : b[k] <= m.batch_sizes[k] + 1
  <2>1. \A k \in Sizes : m.batch_sizes[k] \in Nat BY <1>1
  <2>2. b[n] = (m.batch_sizes[n] + 1) % 256 BY <1>1
  <2>3. \A k \in Sizes : k # n => b[k] = m.batch_sizes[k] BY <1>1
  <2> HIDE DEF b
  <2> QED BY <1>3, <2>1, <2>2, <2>3
<1> HIDE DEF b
<1>6. add_batch_size(m, n) = [num_responses |-> m.num_responses + n, batch_sizes |-> b]
  BY DEF add_batch_size, b
<1>7. add_batch_size(m, n).num_responses = m.num_responses + n /\ add_batch_size(m, n).batch_sizes = b
  BY <1>6
<1>8. add_batch_size(m, n) \in Counts BY <1>1, <1>4, <1>6 DEF Counts, Sizes
<1> QED BY <1>5, <1>7, <1>8, SizesAre DEF Quantity

LEMMA CountsAdded ==
  ASSUME NEW m \in Counts, NEW r \in Counts
  PROVE  /\ add_assign(m, r) \in Counts
         /\ Quantity(add_assign(m, r), Responses) = Quantity(m, Responses) + Quantity(r, Responses)
         /\ \A k \in Sizes : Quantity(add_assign(m, r), k) <= Quantity(m, k) + Quantity(r, k)
<1> DEFINE b == [n \in 1..BatchSize |-> (m.batch_sizes[n] + r.batch_sizes[n]) % 256]
<1>1. /\ m.num_responses \in Nat /\ m.batch_sizes \in [Sizes -> Nat]
      /\ r.num_responses \in Nat /\ r.batch_sizes \in [Sizes -> Nat]
  BY SizesAre DEF Counts, Sizes
<1>2. \A k \in Sizes : m.batch_sizes[k] + r.batch_sizes[k] \in Nat BY <1>1
<1>3. \A k \in Sizes : b[k] = (m.batch_sizes[k] + r.batch_sizes[k]) % 256 BY DEF Sizes
<1>4. \A k \in Sizes : b[k] \in Nat /\ b[k] <= m.batch_sizes[k] + r.batch_sizes[k]
  BY <1>2, <1>3, WrapsDown
<1>5. b \in [1..BatchSize -> Nat] BY <1>4 DEF Sizes
<1> HIDE DEF b
<1>6. add_assign(m, r) = [num_responses |-> m.num_responses + r.num_responses, batch_sizes |-> b]
  BY DEF add_assign, b
<1>7. /\ add_assign(m, r).num_responses = m.num_responses + r.num_responses
      /\ add_assign(m, r).batch_sizes = b
  BY <1>6
<1>8. add_assign(m, r) \in Counts BY <1>1, <1>5, <1>6 DEF Counts
<1> QED BY <1>4, <1>7, <1>8, SizesAre DEF Quantity

-----------------------------------------------------------------------------
\* The histogram accounts for the responses.
Whole(m) == InBatches(m) = m.num_responses

\* What the batches of each size amount to.
Amounts(b) == [n \in 1..BatchSize |-> n * b[n]]

LEMMA InBatchesIs ==
  ASSUME NEW m \in Counts
  PROVE  /\ InBatches(m) = Sum(Amounts(m.batch_sizes), Sizes)
         /\ Summable(Amounts(m.batch_sizes), Sizes)
<1>1. DOMAIN Amounts(m.batch_sizes) = Sizes BY DEF Amounts, Sizes
<1>2. InBatches(m) = Sum(Amounts(m.batch_sizes), Sizes)
  BY <1>1 DEF InBatches, SumFunction, Sum, Amounts
<1>3. \A n \in Sizes : m.batch_sizes[n] \in Nat /\ n \in Nat BY SizesAre DEF Counts, Sizes
<1>4. \A a, b \in Nat : a * b \in Nat OBVIOUS
<1>5. \A n \in Sizes : Amounts(m.batch_sizes)[n] \in Nat BY <1>3, <1>4 DEF Amounts, Sizes
<1> QED BY <1>2, <1>5, SizesAre DEF Summable

LEMMA ZerosWhole == Whole(Zeros)
<1>1. Zeros \in Counts /\ Zeros.num_responses = 0 BY ZerosAre DEF Zeros
<1>2. \A n \in Sizes : n * 0 = 0 BY SizesAre
<1>3. \A n \in Sizes : Amounts(Zeros.batch_sizes)[n] = 0 BY <1>2 DEF Amounts, Zeros, Sizes
<1>4. Sum(Amounts(Zeros.batch_sizes), Sizes) = 0 BY <1>3, SizesAre, SumZero
<1> QED BY <1>1, <1>4, InBatchesIs DEF Whole

\* It still does after one more batch, as long as its u8 does not wrap.
LEMMA BatchAddedWhole ==
  ASSUME NEW m \in Counts, NEW n \in Sizes, Whole(m), m.batch_sizes[n] + 1 < 256
  PROVE  Whole(add_batch_size(m, n))
<1> DEFINE a == add_batch_size(m, n)
           e == Amounts(a.batch_sizes)
           f == Amounts(m.batch_sizes)
<1>1. a \in Counts BY BatchAdded
<1>2. m.num_responses \in Nat /\ m.batch_sizes \in [Sizes -> Nat] /\ n \in Nat
  BY SizesAre DEF Counts, Sizes
<1>3. a.num_responses = m.num_responses + n BY DEF add_batch_size
<1>4. a.batch_sizes[n] = m.batch_sizes[n] + 1
  <2>1. a.batch_sizes = [m.batch_sizes EXCEPT ![n] = (@ + 1) % 256] BY DEF add_batch_size
  <2>2. (m.batch_sizes[n] + 1) % 256 = m.batch_sizes[n] + 1 BY <1>2, WrapsDown
  <2> QED BY <1>2, <2>1, <2>2
<1>5. \A k \in Sizes \ {n} : a.batch_sizes[k] = m.batch_sizes[k]
  BY <1>2 DEF add_batch_size
<1>6. /\ InBatches(a) = Sum(e, Sizes) /\ Summable(e, Sizes)
      /\ InBatches(m) = Sum(f, Sizes) /\ Summable(f, Sizes)
  BY <1>1, InBatchesIs
<1>7. e[n] = n * a.batch_sizes[n] /\ f[n] = n * m.batch_sizes[n] BY DEF Amounts, Sizes
<1>8. \A k \in Sizes \ {n} : e[k] = f[k] BY <1>5 DEF Amounts, Sizes
<1> HIDE DEF a, e, f
<1>9. Sum(e, Sizes) + f[n] = Sum(f, Sizes) + e[n] BY <1>6, <1>8, SumUpdate
<1>10. e[n] = f[n] + n /\ f[n] \in Nat
  <2>1. \A x, y \in Nat : x * (y + 1) = x * y + x /\ x * y \in Nat BY Z3
  <2>2. m.batch_sizes[n] \in Nat BY <1>2
  <2> QED BY <1>2, <1>4, <1>7, <2>1, <2>2
<1>11. Sum(f, Sizes) \in Nat /\ Sum(e, Sizes) \in Nat BY <1>6, SumType
<1>12. Sum(e, Sizes) = Sum(f, Sizes) + n BY <1>2, <1>9, <1>10, <1>11
<1> QED BY <1>3, <1>6, <1>12 DEF Whole, a

\* And so it does after add_assign.
LEMMA CountsAddedWhole ==
  ASSUME NEW m \in Counts, NEW r \in Counts, Whole(m), Whole(r),
         \A k \in Sizes : m.batch_sizes[k] + r.batch_sizes[k] < 256
  PROVE  Whole(add_assign(m, r))
<1> DEFINE a == add_assign(m, r)
           e == Amounts(m.batch_sizes)
           f == Amounts(r.batch_sizes)
           g == Amounts(a.batch_sizes)
<1>1. a \in Counts BY CountsAdded
<1>2. /\ m.batch_sizes \in [Sizes -> Nat] /\ r.batch_sizes \in [Sizes -> Nat]
  BY DEF Counts, Sizes
<1>3. a.num_responses = m.num_responses + r.num_responses BY DEF add_assign
<1>4. \A k \in Sizes : a.batch_sizes[k] = m.batch_sizes[k] + r.batch_sizes[k]
  <2>1. \A k \in Sizes : a.batch_sizes[k] = (m.batch_sizes[k] + r.batch_sizes[k]) % 256
    BY DEF add_assign, Sizes
  <2>2. \A k \in Sizes : m.batch_sizes[k] + r.batch_sizes[k] \in Nat BY <1>2
  <2> HIDE DEF a
  <2> QED BY <2>1, <2>2, WrapsDown
<1>5. /\ InBatches(a) = Sum(g, Sizes)
      /\ InBatches(m) = Sum(e, Sizes) /\ Summable(e, Sizes)
      /\ InBatches(r) = Sum(f, Sizes) /\ Summable(f, Sizes)
  BY <1>1, InBatchesIs
<1>6. \A k \in Sizes : /\ e[k] = k * m.batch_sizes[k] /\ f[k] = k * r.batch_sizes[k]
                       /\ g[k] = k * a.batch_sizes[k]
  BY DEF Amounts, Sizes
<1> HIDE DEF a, e, f, g
<1>7. \A x, y, z \in Nat : x * (y + z) = x * y + x * z BY Z3
<1>8. \A k \in Sizes : k \in Nat /\ m.batch_sizes[k] \in Nat /\ r.batch_sizes[k] \in Nat
  BY <1>2, SizesAre
<1>9. \A k \in Sizes : g[k] = e[k] + f[k] BY <1>4, <1>6, <1>7, <1>8
<1>10. Sum(g, Sizes) = Sum(e, Sizes) + Sum(f, Sizes) BY <1>5, <1>9, SumAdd
<1> QED BY <1>3, <1>5, <1>10 DEF Whole, a

-----------------------------------------------------------------------------
(***************************************************************************)
(* The invariants.                                                         *)
(***************************************************************************)
TypeInv ==
  /\ clock \in Nat /\ drained \in Nat /\ drained <= clock
  /\ counters \in [Workers -> Counts] /\ aggregated \in [Workers -> Counts]
  /\ next_publish \in [Workers -> Nat] /\ chan \in Seq(Snapshots)
  /\ handled \in [Workers -> Nat] /\ lost \in [Workers -> Nat] /\ batches \in [Workers -> Nat]

\* What is on its way or has arrived of worker w.
Held(w, k) == Quantity(counters[w], k) + Total(chan, w, k) + Quantity(aggregated[w], k)

\* No response is lost but with a dropped snapshot, and no u8 exceeds what was counted.
BalanceInv ==
  \A w \in Workers :
    /\ handled[w] = Held(w, Responses) + lost[w]
    /\ \A k \in Sizes : Held(w, k) <= batches[w]

\* While no u8 can have wrapped, histograms account for the responses beside them.
HistogramInv ==
  \A w \in Workers : batches[w] < 256 =>
    /\ Whole(counters[w]) /\ Whole(aggregated[w])
    /\ \A i \in 1..Len(chan) : chan[i].worker_id = w => Whole(chan[i].response)

\* How many snapshots of each worker are in the channel.
InFlight == [w \in Workers |-> Total(chan, w, Itself)]

\* The channel holds no others; and since a worker waits for an interval after each,
\* their number bounds the time since the last complete drain from below.
PaceInv ==
  /\ Len(chan) = Sum(InFlight, Workers)
  /\ \A w \in Workers :
       /\ InFlight[w] >= 1 => next_publish[w] >= drained + MetricsInterval
       /\ InFlight[w] >= 2 => /\ next_publish[w] >= drained + 2 * MetricsInterval
                              /\ clock >= drained + MetricsInterval
       /\ InFlight[w] >= 3 => clock >= drained + 2 * MetricsInterval

Inv == TypeInv /\ BalanceInv /\ HistogramInv /\ PaceInv

\* All the numbers in the invariants are natural numbers.
LEMMA HeldTypes ==
  ASSUME TypeInv, NEW w \in Workers, NEW k
  PROVE  /\ Quantity(counters[w], k) \in Nat /\ Quantity(aggregated[w], k) \in Nat
         /\ Total(chan, w, k) \in Nat
BY QuantityType, WeightsSummable DEF TypeInv

\* Time passes, or nothing changes that the invariants are about.
LEMMA FrameStep ==
  ASSUME Inv, UNCHANGED <<chan, wvars, aggregated>>,
         clock' = clock \/ clock' = clock + 1,
         drained' = drained
  PROVE  Inv'
<1> USE DEF Inv
<1>1. /\ counters' = counters /\ next_publish' = next_publish /\ handled' = handled
      /\ lost' = lost /\ batches' = batches /\ chan' = chan /\ aggregated' = aggregated
  BY DEF wvars
<1>2. clock \in Nat /\ clock' \in Nat /\ clock <= clock' /\ drained \in Nat BY DEF TypeInv
<1>3. TypeInv' BY <1>1, <1>2 DEF TypeInv
<1>4. BalanceInv' BY <1>1 DEF BalanceInv, Held
<1>5. HistogramInv' BY <1>1 DEF HistogramInv, Whole
<1>6. PaceInv'
  <2>1. InFlight' = InFlight BY <1>1 DEF InFlight
  <2>2. MetricsInterval \in Nat BY MetricsAssumption
  <2> QED BY <1>1, <1>2, <2>1, <2>2 DEF PaceInv
<1> QED BY <1>3, <1>4, <1>5, <1>6

\* A worker counts a batch.
LEMMA HandleBatchStep ==
  ASSUME Inv, NEW w \in Workers, NEW n \in Sizes, HandleBatch(w, n)
  PROVE  Inv'
<1> USE DEF Inv
<1>1. /\ counters' = [counters EXCEPT ![w] = add_batch_size(counters[w], n)]
      /\ batches' = [batches EXCEPT ![w] = batches[w] + 1]
      /\ handled' = [handled EXCEPT ![w] = handled[w] + n]
      /\ clock' = clock /\ chan' = chan /\ next_publish' = next_publish /\ lost' = lost
      /\ aggregated' = aggregated /\ drained' = drained
  BY DEF HandleBatch, avars
<1>2. n \in Nat /\ counters[w] \in Counts /\ batches[w] \in Nat /\ handled[w] \in Nat
  BY SizesAre DEF TypeInv
<1>3. /\ add_batch_size(counters[w], n) \in Counts
      /\ Quantity(add_batch_size(counters[w], n), Responses) = Quantity(counters[w], Responses) + n
      /\ \A k \in Sizes : Quantity(add_batch_size(counters[w], n), k) <= Quantity(counters[w], k) + 1
  BY <1>2, BatchAdded
<1>4. TypeInv' BY <1>1, <1>2, <1>3 DEF TypeInv
<1>5. \A v \in Workers : v # w => /\ counters'[v] = counters[v] /\ batches'[v] = batches[v]
                                  /\ handled'[v] = handled[v]
  BY <1>1 DEF TypeInv
<1>6. /\ counters'[w] = add_batch_size(counters[w], n) /\ batches'[w] = batches[w] + 1
      /\ handled'[w] = handled[w] + n
  BY <1>1 DEF TypeInv
<1>7. BalanceInv'
  <2> SUFFICES ASSUME NEW v \in Workers
               PROVE  /\ handled'[v] = Held(v, Responses)' + lost'[v]
                      /\ \A k \in Sizes : Held(v, k)' <= batches'[v]
    BY DEF BalanceInv
  <2>1. CASE v # w BY <1>1, <1>5, <2>1 DEF BalanceInv, Held
  <2>2. CASE v = w
    <3>1. handled'[w] = Held(w, Responses)' + lost'[w]
      <4>1. handled[w] = Held(w, Responses) + lost[w] BY DEF BalanceInv
      <4>2. /\ Quantity(counters[w], Responses) \in Nat /\ Total(chan, w, Responses) \in Nat
            /\ Quantity(aggregated[w], Responses) \in Nat /\ lost[w] \in Nat
        BY HeldTypes DEF TypeInv
      <4>3. Held(w, Responses)' = Quantity(counters[w], Responses) + n + Total(chan, w, Responses)
                                    + Quantity(aggregated[w], Responses)
        BY <1>1, <1>3, <1>6 DEF Held
      <4> QED BY <1>1, <1>2, <1>6, <4>1, <4>2, <4>3 DEF Held
    <3>2. ASSUME NEW k \in Sizes PROVE Held(w, k)' <= batches'[w]
      <4>1. Held(w, k) <= batches[w] BY DEF BalanceInv
      <4>2. /\ Quantity(counters[w], k) \in Nat /\ Total(chan, w, k) \in Nat
            /\ Quantity(aggregated[w], k) \in Nat
        BY HeldTypes
      <4>3. Quantity(add_batch_size(counters[w], n), k) \in Nat BY <1>3, QuantityType
      <4>4. Held(w, k)' = Quantity(add_batch_size(counters[w], n), k) + Total(chan, w, k)
                            + Quantity(aggregated[w], k)
        BY <1>1, <1>6 DEF Held
      <4> QED BY <1>2, <1>3, <1>6, <4>1, <4>2, <4>3, <4>4 DEF Held
    <3> QED BY <2>2, <3>1, <3>2
  <2> QED BY <2>1, <2>2
<1>8. HistogramInv'
  <2> SUFFICES ASSUME NEW v \in Workers, batches'[v] < 256
               PROVE  /\ Whole(counters'[v]) /\ Whole(aggregated[v])
                      /\ \A i \in 1..Len(chan) : chan[i].worker_id = v => Whole(chan[i].response)
    BY <1>1 DEF HistogramInv, Whole
  <2>1. CASE v # w BY <1>5, <2>1 DEF HistogramInv
  <2>2. CASE v = w
    <3>1. batches[w] < 255 /\ batches[w] < 256 BY <1>2, <1>6, <2>2
    <3>2. counters[w].batch_sizes[n] <= batches[w]
      <4>1. Held(w, n) <= batches[w] BY DEF BalanceInv
      <4>2. /\ Quantity(counters[w], n) \in Nat /\ Total(chan, w, n) \in Nat
            /\ Quantity(aggregated[w], n) \in Nat
        BY HeldTypes
      <4>3. Quantity(counters[w], n) = counters[w].batch_sizes[n] BY SizesAre DEF Quantity
      <4> QED BY <1>2, <4>1, <4>2, <4>3 DEF Held
    <3>3. counters[w].batch_sizes[n] \in Nat BY <1>2 DEF Counts, Sizes
    <3>4. counters[w].batch_sizes[n] + 1 < 256 BY <1>2, <3>1, <3>2, <3>3
    <3>5. Whole(counters[w]) BY <3>1 DEF HistogramInv
    <3>6. Whole(counters'[w]) BY <1>2, <1>6, <3>4, <3>5, BatchAddedWhole
    <3> QED BY <2>2, <3>1, <3>6 DEF HistogramInv
  <2> QED BY <2>1, <2>2
<1>9. PaceInv'
  <2>1. InFlight' = InFlight BY <1>1 DEF InFlight
  <2> QED BY <1>1, <2>1 DEF PaceInv
<1> QED BY <1>4, <1>7, <1>8, <1>9

\* A snapshot in the channel weighs one.
LEMMA Counted == ASSUME NEW x, NEW w PROVE Share(x, w, Itself) = IF x.worker_id = w THEN 1 ELSE 0
BY SizesAre DEF Share, Quantity

LEMMA InFlightSummable ==
  ASSUME TypeInv
  PROVE  /\ Summable(InFlight, Workers)
         /\ \A w \in Workers : InFlight[w] = Total(chan, w, Itself) /\ InFlight[w] \in Nat
<1>1. \A w \in Workers : InFlight[w] = Total(chan, w, Itself) /\ InFlight[w] \in Nat
  BY HeldTypes DEF InFlight
<1> QED BY <1>1, MetricsAssumption DEF Summable

\* A worker hands its counters over to the channel.
LEMMA SendStep ==
  ASSUME Inv, NEW w \in Workers, PublishMetrics(w), HasRoom
  PROVE  Inv'
<1> USE DEF Inv
<1>1. PICK x : /\ x = [worker_id |-> w, response |-> counters[w]]
               /\ chan' = Append(chan, x)
  BY DEF PublishMetrics
<1>2. /\ counters' = [counters EXCEPT ![w] = Zeros]
      /\ next_publish' = [next_publish EXCEPT ![w] = clock + MetricsInterval]
      /\ lost' = lost /\ clock' = clock /\ handled' = handled /\ batches' = batches
      /\ aggregated' = aggregated /\ drained' = drained /\ clock >= next_publish[w]
  BY DEF PublishMetrics, avars
<1>3. x \in Snapshots /\ x.worker_id = w /\ x.response = counters[w]
  BY <1>1 DEF TypeInv, Snapshots
<1>4. chan \in Seq(Snapshots) /\ Len(chan) \in Nat /\ Workers # {} BY DEF TypeInv
<1>5. chan' \in Seq(Snapshots) BY <1>1, <1>3, <1>4, TotalAppend
<1>6. \A v, k : Total(chan', v, k) = Total(chan, v, k) + Share(x, v, k)
  BY <1>1, <1>3, <1>4, TotalAppend
<1>7. /\ Len(chan') = Len(chan) + 1 /\ chan'[Len(chan) + 1] = x
      /\ \A i \in 1..Len(chan) : chan'[i] = chan[i]
  BY <1>1, <1>3, <1>4
<1>8. counters'[w] = Zeros /\ \A v \in Workers : v # w => counters'[v] = counters[v]
  BY <1>2 DEF TypeInv
<1>9. MetricsInterval \in Nat /\ clock \in Nat /\ drained \in Nat /\ drained <= clock
  BY MetricsAssumption DEF TypeInv
<1>10. TypeInv'
  <2>1. counters' \in [Workers -> Counts] BY <1>2, ZerosAre DEF TypeInv
  <2>2. next_publish' \in [Workers -> Nat] BY <1>2, <1>9 DEF TypeInv
  <2> QED BY <1>2, <1>5, <2>1, <2>2 DEF TypeInv
<1>11. ASSUME NEW v \in Workers, NEW k \in Sizes \cup {Responses} PROVE Held(v, k)' = Held(v, k)
  <2>1. /\ Quantity(counters[v], k) \in Nat /\ Total(chan, v, k) \in Nat
        /\ Quantity(aggregated[v], k) \in Nat
    BY HeldTypes
  <2>2. CASE v = w
    <3>1. Quantity(counters'[w], k) = 0 BY <1>8, ZerosAre
    <3>2. Share(x, w, k) = Quantity(counters[w], k) BY <1>3 DEF Share
    <3> QED BY <1>2, <1>6, <2>1, <2>2, <3>1, <3>2 DEF Held
  <2>3. CASE v # w
    <3>1. Share(x, v, k) = 0 BY <1>3, <2>3 DEF Share
    <3> QED BY <1>2, <1>6, <1>8, <2>1, <2>3, <3>1 DEF Held
  <2> QED BY <2>2, <2>3
<1>12. BalanceInv' BY <1>2, <1>11 DEF BalanceInv
<1>13. HistogramInv'
  <2> SUFFICES ASSUME NEW v \in Workers, batches[v] < 256
               PROVE  /\ Whole(counters'[v]) /\ Whole(aggregated[v])
                      /\ \A i \in 1..Len(chan') : chan'[i].worker_id = v => Whole(chan'[i].response)
    BY <1>2 DEF HistogramInv, Whole
  <2>1. /\ Whole(counters[v]) /\ Whole(aggregated[v])
        /\ \A i \in 1..Len(chan) : chan[i].worker_id = v => Whole(chan[i].response)
    BY DEF HistogramInv
  <2>2. Whole(counters'[v]) BY <1>8, <2>1, ZerosWhole
  <2>3. ASSUME NEW i \in 1..Len(chan'), chan'[i].worker_id = v PROVE Whole(chan'[i].response)
    <3>1. CASE i = Len(chan) + 1 BY <1>3, <1>7, <2>1, <2>3, <3>1
    <3>2. CASE i \in 1..Len(chan) BY <1>7, <2>1, <2>3, <3>2
    <3> QED BY <1>4, <1>7, <3>1, <3>2
  <2> QED BY <2>1, <2>2, <2>3
<1>14. PaceInv'
  <2>1. /\ Summable(InFlight, Workers)
        /\ \A v \in Workers : InFlight[v] = Total(chan, v, Itself) /\ InFlight[v] \in Nat
    BY InFlightSummable
  <2>2. \A v \in Workers : InFlight'[v] = InFlight[v] + (IF v = w THEN 1 ELSE 0)
    BY <1>3, <1>6, <2>1, Counted DEF InFlight
  <2>3. Summable(InFlight', Workers) BY <2>1, <2>2 DEF Summable
  <2>4. \A v \in Workers \ {w} : InFlight'[v] = InFlight[v] BY <2>1, <2>2
  <2>5. Sum(InFlight', Workers) + InFlight[w] = Sum(InFlight, Workers) + InFlight'[w]
    BY <2>1, <2>3, <2>4, SumUpdate
  <2>6. Sum(InFlight, Workers) \in Nat /\ Sum(InFlight', Workers) \in Nat BY <2>1, <2>3, SumType
  <2>7. Len(chan') = Sum(InFlight', Workers)
    <3>1. Len(chan) = Sum(InFlight, Workers) BY DEF PaceInv
    <3>2. InFlight[w] \in Nat /\ InFlight'[w] = InFlight[w] + 1 BY <2>1, <2>2
    <3> QED BY <1>7, <2>5, <2>6, <3>1, <3>2
  <2>8. ASSUME NEW v \in Workers
        PROVE  /\ InFlight'[v] >= 1 => next_publish'[v] >= drained + MetricsInterval
               /\ InFlight'[v] >= 2 => /\ next_publish'[v] >= drained + 2 * MetricsInterval
                                       /\ clock >= drained + MetricsInterval
               /\ InFlight'[v] >= 3 => clock >= drained + 2 * MetricsInterval
    <3>1. InFlight[v] \in Nat /\ next_publish[v] \in Nat BY <2>1 DEF TypeInv
    <3>2. /\ InFlight[v] >= 1 => next_publish[v] >= drained + MetricsInterval
          /\ InFlight[v] >= 2 => /\ next_publish[v] >= drained + 2 * MetricsInterval
                                 /\ clock >= drained + MetricsInterval
          /\ InFlight[v] >= 3 => clock >= drained + 2 * MetricsInterval
      BY DEF PaceInv
    <3>3. CASE v # w
      <4>1. InFlight'[v] = InFlight[v] /\ next_publish'[v] = next_publish[v]
        BY <1>2, <2>4, <3>3 DEF TypeInv
      <4> QED BY <3>2, <4>1
    <3>4. CASE v = w
      <4>1. InFlight'[v] = InFlight[v] + 1 /\ next_publish'[v] = clock + MetricsInterval
        BY <1>2, <2>2, <3>1, <3>4 DEF TypeInv
      <4>2. clock >= next_publish[v] BY <1>2, <3>4
      <4> QED BY <1>9, <3>1, <3>2, <4>1, <4>2
    <3> QED BY <3>3, <3>4
  <2> QED BY <1>2, <2>7, <2>8 DEF PaceInv
<1> QED BY <1>10, <1>12, <1>13, <1>14

\* A worker drops its counters, because the channel is full.
LEMMA DropStep ==
  ASSUME Inv, NEW w \in Workers, PublishMetrics(w), ~HasRoom
  PROVE  Inv'
<1> USE DEF Inv
<1>1. /\ counters' = [counters EXCEPT ![w] = Zeros]
      /\ lost' = [lost EXCEPT ![w] = lost[w] + counters[w].num_responses]
      /\ next_publish' = [next_publish EXCEPT ![w] = clock + MetricsInterval]
      /\ chan' = chan /\ clock' = clock /\ handled' = handled /\ batches' = batches
      /\ aggregated' = aggregated /\ drained' = drained /\ clock >= next_publish[w]
  BY DEF PublishMetrics, avars
<1>2. MetricsInterval \in Nat /\ clock \in Nat BY MetricsAssumption DEF TypeInv
<1>3. counters[w].num_responses \in Nat /\ lost[w] \in Nat BY DEF TypeInv, Counts
<1>4. TypeInv'
  <2>1. counters' \in [Workers -> Counts] BY <1>1, ZerosAre DEF TypeInv
  <2>2. next_publish' \in [Workers -> Nat] BY <1>1, <1>2 DEF TypeInv
  <2>3. lost' \in [Workers -> Nat] BY <1>1, <1>3 DEF TypeInv
  <2> QED BY <1>1, <2>1, <2>2, <2>3 DEF TypeInv
<1>5. counters'[w] = Zeros /\ \A v \in Workers : v # w => counters'[v] = counters[v]
  BY <1>1 DEF TypeInv
<1>6. /\ lost'[w] = lost[w] + counters[w].num_responses
      /\ \A v \in Workers : v # w => lost'[v] = lost[v]
  BY <1>1 DEF TypeInv
<1>7. BalanceInv'
  <2> SUFFICES ASSUME NEW v \in Workers
               PROVE  /\ handled[v] = Held(v, Responses)' + lost'[v]
                      /\ \A k \in Sizes : Held(v, k)' <= batches[v]
    BY <1>1 DEF BalanceInv
  <2>1. CASE v # w BY <1>1, <1>5, <1>6, <2>1 DEF BalanceInv, Held
  <2>2. CASE v = w
    <3>1. \A k \in Sizes \cup {Responses} :
            Held(w, k)' = 0 + Total(chan, w, k) + Quantity(aggregated[w], k)
      BY <1>1, <1>5, ZerosAre DEF Held
    <3>2. \A k : /\ Quantity(counters[w], k) \in Nat /\ Total(chan, w, k) \in Nat
                 /\ Quantity(aggregated[w], k) \in Nat
      BY HeldTypes
    <3>3. handled[w] = Held(w, Responses) + lost[w] /\ \A k \in Sizes : Held(w, k) <= batches[w]
      BY DEF BalanceInv
    <3>4. Quantity(counters[w], Responses) = counters[w].num_responses BY DEF Quantity
    <3>5. handled[w] = Held(w, Responses)' + lost'[w]
      BY <1>3, <1>6, <3>1, <3>2, <3>3, <3>4 DEF Held
    <3>6. ASSUME NEW k \in Sizes PROVE Held(w, k)' <= batches[w]
      <4>1. /\ Quantity(counters[w], k) \in Nat /\ Total(chan, w, k) \in Nat
            /\ Quantity(aggregated[w], k) \in Nat /\ batches[w] \in Nat
        BY <3>2 DEF TypeInv
      <4> QED BY <3>1, <3>3, <4>1 DEF Held
    <3> QED BY <2>2, <3>5, <3>6
  <2> QED BY <2>1, <2>2
<1>8. HistogramInv'
  <2>1. \A v \in Workers : Whole(counters[v]) => Whole(counters'[v]) BY <1>5, ZerosWhole
  <2> QED BY <1>1, <2>1 DEF HistogramInv, Whole
<1>9. PaceInv'
  <2>1. InFlight' = InFlight BY <1>1 DEF InFlight
  <2>2. ASSUME NEW v \in Workers
        PROVE  /\ next_publish[v] \in Nat /\ next_publish'[v] \in Nat
               /\ next_publish'[v] >= next_publish[v]
    <3>1. next_publish[v] \in Nat BY DEF TypeInv
    <3>2. next_publish'[v] = IF v = w THEN clock + MetricsInterval ELSE next_publish[v]
      BY <1>1 DEF TypeInv
    <3> QED BY <1>1, <1>2, <3>1, <3>2
  <2>3. drained \in Nat /\ \A v \in Workers : InFlight[v] \in Nat BY InFlightSummable DEF TypeInv
  <2> QED BY <1>1, <1>2, <2>1, <2>2, <2>3 DEF PaceInv
<1> QED BY <1>4, <1>7, <1>8, <1>9

\* The aggregator takes a snapshot out of the channel.
LEMMA ReceiveStep ==
  ASSUME Inv, Drain, chan # <<>>
  PROVE  Inv'
<1> USE DEF Inv
<1>1. PICK x : x = Head(chan) OBVIOUS
<1>2. PICK w : w = x.worker_id OBVIOUS
<1>3. /\ aggregated' = [aggregated EXCEPT ![w] = add_assign(aggregated[w], x.response)]
      /\ chan' = Tail(chan) /\ drained' = drained
      /\ clock' = clock /\ counters' = counters /\ next_publish' = next_publish
      /\ handled' = handled /\ lost' = lost /\ batches' = batches
  BY <1>1, <1>2 DEF Drain, Drained, Slot, wvars
<1>4. chan \in Seq(Snapshots) BY DEF TypeInv
<1>5. x \in Snapshots /\ chan' \in Seq(Snapshots) BY <1>1, <1>3, <1>4, TotalTail
<1>6. w \in Workers /\ x.response \in Counts BY <1>2, <1>5 DEF Snapshots
<1>7. \A v, k : Total(chan, v, k) = Share(x, v, k) + Total(chan', v, k)
  BY <1>1, <1>3, <1>4, TotalTail
<1>8. /\ Len(chan) \in Nat /\ Len(chan) >= 1 /\ Len(chan') = Len(chan) - 1
      /\ x = chan[1] /\ \A i \in 1..Len(chan') : chan'[i] = chan[i + 1]
  BY <1>1, <1>3, <1>4
<1>9. aggregated[w] \in Counts BY <1>6 DEF TypeInv
<1>10. /\ add_assign(aggregated[w], x.response) \in Counts
       /\ Quantity(add_assign(aggregated[w], x.response), Responses)
            = Quantity(aggregated[w], Responses) + Quantity(x.response, Responses)
       /\ \A k \in Sizes : Quantity(add_assign(aggregated[w], x.response), k)
                             <= Quantity(aggregated[w], k) + Quantity(x.response, k)
  BY <1>6, <1>9, CountsAdded
<1>11. /\ aggregated'[w] = add_assign(aggregated[w], x.response)
       /\ \A v \in Workers : v # w => aggregated'[v] = aggregated[v]
  BY <1>3, <1>6 DEF TypeInv
<1>12. TypeInv'
  <2>1. aggregated' \in [Workers -> Counts] BY <1>3, <1>6, <1>10 DEF TypeInv
  <2> QED BY <1>3, <1>5, <2>1 DEF TypeInv
<1>13. ASSUME NEW v \in Workers, NEW k
       PROVE  /\ Quantity(counters[v], k) \in Nat /\ Total(chan, v, k) \in Nat
              /\ Quantity(aggregated[v], k) \in Nat /\ Total(chan', v, k) \in Nat
              /\ Quantity(aggregated'[v], k) \in Nat /\ Quantity(x.response, k) \in Nat
  <2>1. Total(chan', v, k) \in Nat BY <1>5, WeightsSummable
  <2>2. Quantity(aggregated'[v], k) \in Nat BY <1>12, QuantityType DEF TypeInv
  <2> QED BY <1>6, <2>1, <2>2, HeldTypes, QuantityType
<1>14. ASSUME NEW v \in Workers
       PROVE  /\ Held(v, Responses)' = Held(v, Responses)
              /\ \A k \in Sizes : Held(v, k)' <= Held(v, k)
  <2>1. \A k : Held(v, k)' = Quantity(counters[v], k) + Total(chan', v, k) + Quantity(aggregated'[v], k)
    BY <1>3 DEF Held
  <2>2. CASE v = w
    <3>1. \A k : Total(chan, v, k) = Quantity(x.response, k) + Total(chan', v, k)
      BY <1>2, <1>7, <2>2 DEF Share
    <3>2. Held(v, Responses)' = Held(v, Responses)
      BY <1>10, <1>11, <1>13, <2>1, <2>2, <3>1 DEF Held
    <3>3. ASSUME NEW k \in Sizes PROVE Held(v, k)' <= Held(v, k)
      <4>1. /\ Quantity(counters[v], k) \in Nat /\ Total(chan', v, k) \in Nat
            /\ Quantity(aggregated[v], k) \in Nat /\ Quantity(aggregated'[v], k) \in Nat
            /\ Quantity(x.response, k) \in Nat
        BY <1>13
      <4>2. Quantity(aggregated'[v], k) <= Quantity(aggregated[v], k) + Quantity(x.response, k)
        BY <1>10, <1>11, <2>2
      <4>3. Held(v, k)' = Quantity(counters[v], k) + Total(chan', v, k) + Quantity(aggregated'[v], k)
        BY <2>1
      <4>4. Held(v, k) = Quantity(counters[v], k) + (Quantity(x.response, k) + Total(chan', v, k))
                           + Quantity(aggregated[v], k)
        BY <3>1 DEF Held
      <4> QED BY <4>1, <4>2, <4>3, <4>4
    <3> QED BY <3>2, <3>3
  <2>3. CASE v # w
    <3>1. \A k : Total(chan, v, k) = Total(chan', v, k)
      <4>1. \A k : Share(x, v, k) = 0 BY <1>2, <2>3 DEF Share
      <4> QED BY <1>7, <1>13, <4>1
    <3>2. \A k : Held(v, k)' = Held(v, k) BY <1>11, <2>1, <2>3, <3>1 DEF Held
    <3>3. \A k : Held(v, k) \in Nat BY <1>13 DEF Held
    <3> QED BY <3>2, <3>3
  <2> QED BY <2>2, <2>3
<1>15. BalanceInv'
  <2> SUFFICES ASSUME NEW v \in Workers
               PROVE  /\ handled[v] = Held(v, Responses)' + lost[v]
                      /\ \A k \in Sizes : Held(v, k)' <= batches[v]
    BY <1>3 DEF BalanceInv
  <2>1. handled[v] = Held(v, Responses) + lost[v] /\ \A k \in Sizes : Held(v, k) <= batches[v]
    BY DEF BalanceInv
  <2>2. \A k : Held(v, k) \in Nat /\ Held(v, k)' \in Nat
    BY <1>3, <1>13 DEF Held
  <2>3. batches[v] \in Nat BY DEF TypeInv
  <2> QED BY <1>14, <2>1, <2>2, <2>3
<1>16. HistogramInv'
  <2> SUFFICES ASSUME NEW v \in Workers, batches[v] < 256
               PROVE  /\ Whole(counters[v]) /\ Whole(aggregated'[v])
                      /\ \A i \in 1..Len(chan') : chan'[i].worker_id = v => Whole(chan'[i].response)
    BY <1>3 DEF HistogramInv, Whole
  <2>1. /\ Whole(counters[v]) /\ Whole(aggregated[v])
        /\ \A i \in 1..Len(chan) : chan[i].worker_id = v => Whole(chan[i].response)
    BY DEF HistogramInv
  <2>2. \A i \in 1..Len(chan') : chan'[i].worker_id = v => Whole(chan'[i].response)
    <3>1. \A i \in 1..Len(chan') : i + 1 \in 1..Len(chan) BY <1>8
    <3> QED BY <1>8, <2>1, <3>1
  <2>3. CASE v # w BY <1>11, <2>1, <2>2, <2>3
  <2>4. CASE v = w
    <3>1. Whole(x.response)
      <4>1. 1 \in 1..Len(chan) BY <1>8
      <4> QED BY <1>2, <1>8, <2>1, <2>4, <4>1
    <3>2. ASSUME NEW k \in Sizes
          PROVE  aggregated[w].batch_sizes[k] + x.response.batch_sizes[k] < 256
      <4>1. Held(w, k) <= batches[w] BY <1>6 DEF BalanceInv
      <4>2. Total(chan, w, k) = Quantity(x.response, k) + Total(chan', w, k)
        BY <1>2, <1>7 DEF Share
      <4>3. /\ Quantity(aggregated[w], k) = aggregated[w].batch_sizes[k]
            /\ Quantity(x.response, k) = x.response.batch_sizes[k]
        BY SizesAre DEF Quantity
      <4>4. batches[w] \in Nat BY <1>6 DEF TypeInv
      <4>5. /\ Quantity(counters[w], k) \in Nat /\ Total(chan', w, k) \in Nat
            /\ Quantity(aggregated[w], k) \in Nat /\ Quantity(x.response, k) \in Nat
        BY <1>6, <1>13
      <4>6. Held(w, k) = Quantity(counters[w], k) + (Quantity(x.response, k) + Total(chan', w, k))
                           + Quantity(aggregated[w], k)
        BY <4>2 DEF Held
      <4>7. batches[w] < 256 BY <2>4
      <4>8. \A a, b, c, d, e \in Nat : a + (b + c) + d <= e /\ e < 256 => d + b < 256 OBVIOUS
      <4>9. Quantity(aggregated[w], k) + Quantity(x.response, k) < 256
        <5>1. PICK a \in Nat, b \in Nat, c \in Nat, d \in Nat, e \in Nat :
                /\ a = Quantity(counters[w], k) /\ b = Quantity(x.response, k)
                /\ c = Total(chan', w, k) /\ d = Quantity(aggregated[w], k) /\ e = batches[w]
          BY <4>4, <4>5, Zenon
        <5>2. a + (b + c) + d <= e /\ e < 256 BY <4>1, <4>6, <4>7, <5>1, Zenon
        <5>3. d + b < 256 BY <4>8, <5>2
        <5> QED BY <5>1, <5>3, Zenon
      <4> QED BY <4>3, <4>9, Zenon
    <3>3. Whole(aggregated'[w]) BY <1>6, <1>9, <1>11, <2>1, <2>4, <3>1, <3>2, CountsAddedWhole
    <3> QED BY <2>1, <2>2, <2>4, <3>3
  <2> QED BY <2>3, <2>4
<1>17. PaceInv'
  <2>1. /\ Summable(InFlight, Workers)
        /\ \A v \in Workers : InFlight[v] = Total(chan, v, Itself) /\ InFlight[v] \in Nat
    BY InFlightSummable
  <2>2. \A v \in Workers : InFlight'[v] \in Nat /\ InFlight[v] = InFlight'[v] + (IF v = w THEN 1 ELSE 0)
    BY <1>2, <1>7, <1>13, <2>1, Counted DEF InFlight
  <2>3. Summable(InFlight', Workers) BY <2>1, <2>2 DEF Summable
  <2>4. \A v \in Workers \ {w} : InFlight'[v] = InFlight[v] BY <2>1, <2>2
  <2>5. Sum(InFlight', Workers) + InFlight[w] = Sum(InFlight, Workers) + InFlight'[w]
    BY <1>6, <2>1, <2>3, <2>4, SumUpdate
  <2>6. Sum(InFlight, Workers) \in Nat /\ Sum(InFlight', Workers) \in Nat BY <2>1, <2>3, SumType
  <2>7. Len(chan') = Sum(InFlight', Workers)
    <3>1. Len(chan) = Sum(InFlight, Workers) BY DEF PaceInv
    <3>2. InFlight'[w] \in Nat /\ InFlight[w] = InFlight'[w] + 1 BY <1>6, <2>2
    <3> QED BY <1>8, <2>5, <2>6, <3>1, <3>2
  <2>8. \A v \in Workers : InFlight'[v] <= InFlight[v] BY <2>2
  <2> QED BY <1>3, <2>1, <2>2, <2>7, <2>8 DEF PaceInv
<1> QED BY <1>12, <1>15, <1>16, <1>17

\* The aggregator finds the channel empty.
LEMMA EmptiedStep ==
  ASSUME Inv, Drain, chan = <<>>
  PROVE  Inv'
<1> USE DEF Inv
<1>1. /\ aggregated' = aggregated /\ chan' = <<>> /\ drained' = clock
      /\ clock' = clock /\ counters' = counters /\ next_publish' = next_publish
      /\ handled' = handled /\ lost' = lost /\ batches' = batches /\ chan' = chan
  BY DEF Drain, Drained, wvars
<1>2. TypeInv' BY <1>1 DEF TypeInv
<1>3. BalanceInv' BY <1>1 DEF BalanceInv, Held
<1>4. HistogramInv' BY <1>1 DEF HistogramInv, Whole
<1>5. PaceInv'
  <2>1. \A w \in Workers : InFlight'[w] = 0 BY <1>1, TotalEmpty DEF InFlight
  <2>2. InFlight' = InFlight BY <1>1 DEF InFlight
  <2> QED BY <1>1, <2>1, <2>2 DEF PaceInv
<1> QED BY <1>2, <1>3, <1>4, <1>5

\* The invariant is inductive.
LEMMA InvInductive ==
  ASSUME Inv, [Next]_vars
  PROVE  Inv'
<1>1. ASSUME NEW w \in Workers, PublishMetrics(w) PROVE Inv' BY <1>1, SendStep, DropStep
<1>2. ASSUME NEW w \in Workers, NEW n \in 1..BatchSize, HandleBatch(w, n) PROVE Inv'
  BY <1>2, HandleBatchStep DEF Sizes
<1>3. CASE Wake BY <1>3, FrameStep DEF Wake
<1>4. CASE Drain BY <1>4, ReceiveStep, EmptiedStep
<1>5. CASE ReportMetrics BY <1>5, FrameStep DEF ReportMetrics
<1>6. CASE Tick BY <1>6, FrameStep DEF Tick, avars
<1>7. CASE CtrlC BY <1>7, FrameStep DEF CtrlC, avars
<1>8. CASE UNCHANGED vars BY <1>8, FrameStep DEF vars, avars
<1> QED BY <1>1, <1>2, <1>3, <1>4, <1>5, <1>6, <1>7, <1>8 DEF Next, Aggregator, Terminated

LEMMA InvInitial == Init => Inv
<1> SUFFICES ASSUME Init PROVE Inv OBVIOUS
<1>1. MetricsInterval \in Nat /\ IsFiniteSet(Workers) BY MetricsAssumption
<1>2. /\ chan = <<>> /\ <<>> \in Seq(Snapshots) /\ Len(<<>>) = 0 /\ clock = 0 /\ drained = 0
  BY DEF Init
<1>3. \A w \in Workers : /\ counters[w] = Zeros /\ aggregated[w] = Zeros
                         /\ handled[w] = 0 /\ lost[w] = 0 /\ batches[w] = 0
  BY DEF Init
<1>4. TypeInv BY <1>1, <1>2, ZerosAre DEF Init, TypeInv
<1>5. \A w, k : Total(chan, w, k) = 0 BY <1>2, TotalEmpty
<1>6. \A w \in Workers : \A k \in Sizes \cup {Responses} : Held(w, k) = 0
  BY <1>3, <1>5, ZerosAre DEF Held
<1>7. BalanceInv BY <1>3, <1>6 DEF BalanceInv
<1>8. HistogramInv BY <1>2, <1>3, ZerosWhole DEF HistogramInv
<1>9. \A w \in Workers : InFlight[w] = 0 BY <1>5 DEF InFlight
<1>10. Sum(InFlight, Workers) = 0 BY <1>1, <1>9, SumZero
<1>11. PaceInv BY <1>2, <1>9, <1>10 DEF PaceInv
<1> QED BY <1>4, <1>7, <1>8, <1>11 DEF Inv

LEMMA InvSafe == Spec => []Inv
<1>1. Inv /\ [Next]_vars => Inv' BY InvInductive
<1> QED BY <1>1, InvInitial, PTL DEF Spec

-----------------------------------------------------------------------------
\* Every response that any number of workers count is in exactly one place, for any
\* channel, interval and timing, and histograms agree with it until a u8 can wrap.
THEOREM MetricsConservation == Spec => []Conservation
<1>1. Inv => Conservation
  <2> SUFFICES ASSUME Inv, NEW w \in Workers
               PROVE  /\ handled[w] = counters[w].num_responses + InChannel(w)
                                        + aggregated[w].num_responses + lost[w]
                      /\ batches[w] < 256 => /\ InBatches(counters[w]) = counters[w].num_responses
                                             /\ InBatches(aggregated[w]) = aggregated[w].num_responses
    BY DEF Conservation
  <2>1. InChannel(w) = Total(chan, w, Responses)
    <3>1. DOMAIN chan = 1..Len(chan) BY DEF Inv, TypeInv
    <3>2. Weights(chan, w, Responses)
            = [i \in DOMAIN chan |-> IF chan[i].worker_id = w THEN chan[i].response.num_responses ELSE 0]
      BY <3>1 DEF Weights, Quantity
    <3>3. DOMAIN Weights(chan, w, Responses) = 1..Len(chan) BY DEF Weights
    <3> QED BY <3>2, <3>3 DEF InChannel, Total, Sum, SumFunction
  <2>2. handled[w] = Held(w, Responses) + lost[w] BY DEF Inv, BalanceInv
  <2> QED BY <2>1, <2>2 DEF Held, Quantity, Inv, HistogramInv, Whole
<1> QED BY <1>1, InvSafe, PTL

\* The channel is full for a worker only when the aggregator has not completed a drain
\* for two intervals.
LEMMA FullAfterStall ==
  ASSUME Inv, NEW w \in Workers, clock >= next_publish[w], ~HasRoom
  PROVE  clock - drained >= 2 * MetricsInterval
<1> USE DEF Inv
<1>1. /\ MetricsInterval \in Nat /\ clock \in Nat /\ drained \in Nat /\ next_publish[w] \in Nat
  BY MetricsAssumption DEF TypeInv
<1> SUFFICES ASSUME clock < drained + 2 * MetricsInterval PROVE FALSE BY <1>1
<1>2. /\ Summable(InFlight, Workers) /\ \A v \in Workers : InFlight[v] \in Nat
  BY InFlightSummable
<1>3. \A v \in Workers : InFlight[v] <= 2
  <2>1. \A v \in Workers : InFlight[v] >= 3 => clock >= drained + 2 * MetricsInterval
    BY DEF PaceInv
  <2> QED BY <1>1, <1>2, <2>1
<1>4. InFlight[w] <= 1
  <2>1. InFlight[w] >= 2 => next_publish[w] >= drained + 2 * MetricsInterval BY DEF PaceInv
  <2> QED BY <1>1, <1>2, <2>1
<1>5. PICK T : T = Workers \ {w} OBVIOUS
<1>6. Summable(InFlight, T) /\ Sum(InFlight, Workers) = InFlight[w] + Sum(InFlight, T)
  BY <1>2, <1>5, SummablePart, SumTakeOut
<1>7. Sum(InFlight, T) <= 2 * Cardinality(T) /\ Sum(InFlight, T) \in Nat
  BY <1>3, <1>5, <1>6, SumAtMostTwo, SumType
<1>8. Cardinality(Workers) \in Nat /\ Cardinality(T) = Cardinality(Workers) - 1
  BY <1>5, MetricsAssumption, TakenOut
<1>9. Len(chan) = Sum(InFlight, Workers) /\ Len(chan) \in Nat BY DEF PaceInv, TypeInv
<1>10. Len(chan) >= 2 * Cardinality(Workers) BY <1>8, <1>9 DEF HasRoom, Capacity
<1>11. InFlight[w] \in Nat BY <1>2
<1> QED BY <1>4, <1>6, <1>7, <1>8, <1>9, <1>10, <1>11

\* num_workers * 2 is plenty: for any number of workers and any interval, a snapshot is
\* dropped only after a stall of two intervals.
THEOREM ChannelIsPlenty == Spec => LostOnlyAfterStall
<1>1. Inv /\ [Next]_vars => [lost' # lost => clock - drained >= 2 * MetricsInterval]_vars
  <2> SUFFICES ASSUME Inv, Next, lost' # lost PROVE clock - drained >= 2 * MetricsInterval
    OBVIOUS
  <2>1. \E w \in Workers : PublishMetrics(w) /\ ~HasRoom
    BY DEF Next, HandleBatch, PublishMetrics, Aggregator, Wake, Drain, ReportMetrics, Tick, CtrlC,
           Terminated, vars, wvars
  <2> QED BY <2>1, FullAfterStall DEF PublishMetrics
<1> QED BY <1>1, InvSafe, PTL DEF Spec, LostOnlyAfterStall
=============================================================================
