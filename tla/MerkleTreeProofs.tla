-------------------------- MODULE MerkleTreeProofs --------------------------
(***************************************************************************)
(* Proofs about Merkle and MerkleTree, for trees of every size and any     *)
(* sequence of calls.                                                      *)
(*                                                                         *)
(* First what the operators compute: the loop of compute_root builds a     *)
(* tree over the leaves whatever the levels held before, get_paths_to      *)
(* gives each leaf its siblings up to the root, and root_from_paths leads  *)
(* from a leaf to the root along them and from nothing else.  Then the     *)
(* tree is compared with the reference and followed through the calls:     *)
(* compute_root returns the root of the reference tree, every leaf has a   *)
(* path that verifies, and a path verifies nothing but the leaves of the   *)
(* tree.  WorkerProofs instantiates this module for the tree of a worker.  *)
(*                                                                         *)
(* The operators are recursive functions, so each lemma about one first    *)
(* shows that the function exists; induction is over the set of numbers    *)
(* with the property in question (SetInduction).                           *)
(***************************************************************************)
EXTENDS MerkleTree, SequenceTheorems, WellFoundedInduction, TLAPS

-----------------------------------------------------------------------------
\* A set of natural numbers has a least element.
LEMMA LeastNumber ==
  ASSUME NEW T, T \subseteq Nat, T # {}
  PROVE  \E x \in T : \A y \in T : x <= y
<1> DEFINE R == OpToRel(<, Nat)
<1>1. IsWellFoundedOn(R, Nat) BY NatLessThanWellFounded
<1>2. PICK x \in T : \A y \in T : ~(<<y, x>> \in R)
  <2> HIDE DEF R
  <2> QED BY <1>1, WFMin
<1>3. \A y \in T : y < x => <<y, x>> \in R BY DEF OpToRel
<1>4. \A y \in T : ~(y < x) BY <1>2, <1>3, Zenon
<1>5. \A y \in T : x <= y
  <2>1. \A y \in Nat : x \in Nat /\ ~(y < x) => x <= y OBVIOUS
  <2> QED BY <1>4, <2>1
<1> QED BY <1>5, Zenon

\* Induction, for the set of the numbers that have the property in question.
LEMMA SetInduction ==
  ASSUME NEW P, 0 \in P, \A n \in Nat : n \in P => n + 1 \in P
  PROVE  \A n \in Nat : n \in P
<1> SUFFICES ASSUME NEW n \in Nat, n \notin P PROVE FALSE OBVIOUS
<1> DEFINE T == {k \in Nat : k \notin P}
<1>1. T # {} /\ T \subseteq Nat OBVIOUS
<1>2. PICK x \in T : \A y \in T : x <= y
  <2> HIDE DEF T
  <2> QED BY <1>1, LeastNumber
<1>3. x \in Nat /\ x # 0 /\ x \notin P BY <1>2
<1>4. x - 1 \in Nat /\ x - 1 + 1 = x BY <1>3
<1>5. x - 1 \notin P BY <1>3, <1>4
<1>6. x <= x - 1 BY <1>2, <1>4, <1>5
<1> QED BY <1>3, <1>6

\* Repeats(f, D, a, F): f starts with a and applies F once more at each number of D.
Repeats(f, D, a, F) == \A n \in D : f[n] = IF n = 0 THEN a ELSE F[f[n - 1]]

\* A function on the numbers can be defined by recursion.
LEMMA Recursion ==
  ASSUME NEW S, NEW a \in S, NEW F \in [S -> S]
  PROVE  \E f \in [Nat -> S] : Repeats(f, Nat, a, F)
<1> DEFINE Part(m) == {g \in [0..m -> S] : Repeats(g, 0..m, a, F)}
           P == {m \in Nat : Part(m) # {}}
<1>1. 0 \in P
  <2> DEFINE g == [n \in 0..0 |-> a]
  <2>1. g \in Part(0) BY DEF Repeats
  <2> QED BY <2>1
<1>2. ASSUME NEW m \in Nat, m \in P PROVE m + 1 \in P
  <2>1. PICK g \in [0..m -> S] : Repeats(g, 0..m, a, F) BY <1>2
  <2> DEFINE h == [n \in 0..(m + 1) |-> IF n <= m THEN g[n] ELSE F[g[m]]]
  <2>2. h \in [0..(m + 1) -> S] BY <2>1
  <2>3. \A n \in 0..m : h[n] = g[n] OBVIOUS
  <2>4. h[m + 1] = F[h[m]] OBVIOUS
  <2> HIDE DEF h
  <2>5. Repeats(h, 0..(m + 1), a, F)
    <3> SUFFICES ASSUME NEW n \in 0..(m + 1) PROVE h[n] = IF n = 0 THEN a ELSE F[h[n - 1]]
      BY DEF Repeats
    <3>1. CASE n = m + 1 BY <2>4, <3>1
    <3>2. CASE n \in 0..m /\ n # 0
      <4>1. n - 1 \in 0..m BY <3>2
      <4>2. g[n] = F[g[n - 1]] BY <2>1, <3>2 DEF Repeats
      <4> QED BY <2>3, <3>2, <4>1, <4>2
    <3>3. CASE n = 0 BY <2>1, <2>3, <3>3 DEF Repeats
    <3> QED BY <3>1, <3>2, <3>3
  <2> QED BY <2>2, <2>5
<1>3. \A m \in Nat : m \in P
  <2> HIDE DEF P
  <2> QED BY <1>1, <1>2, SetInduction
<1> DEFINE G(m) == CHOOSE g : g \in Part(m)
           f == [m \in Nat |-> G(m)[m]]
<1>4. \A m \in Nat : G(m) \in Part(m) BY <1>3
<1>5. ASSUME NEW m \in Nat, NEW g \in Part(m), NEW k \in Nat, NEW h \in Part(k)
      PROVE  \A n \in Nat : n <= m /\ n <= k => g[n] = h[n]
  <2> DEFINE Q == {n \in Nat : n <= m /\ n <= k => g[n] = h[n]}
  <2>1. 0 \in Q BY DEF Repeats
  <2>2. ASSUME NEW n \in Nat, n \in Q PROVE n + 1 \in Q
    <3> SUFFICES ASSUME n + 1 <= m, n + 1 <= k PROVE g[n + 1] = h[n + 1] OBVIOUS
    <3>1. g[n] = h[n] BY <2>2
    <3>2. n + 1 \in 0..m /\ n + 1 \in 0..k /\ n + 1 # 0 /\ n + 1 - 1 = n OBVIOUS
    <3> QED BY <3>1, <3>2 DEF Repeats
  <2> HIDE DEF Q
  <2>3. \A n \in Nat : n \in Q BY <2>1, <2>2, SetInduction
  <2> QED BY <2>3 DEF Q
<1>6. f \in [Nat -> S] 
  <2>1. \A m \in Nat : G(m)[m] \in S BY <1>4
  <2> HIDE DEF G
  <2> QED BY <2>1
<1>7. Repeats(f, Nat, a, F)
  <2> SUFFICES ASSUME NEW n \in Nat PROVE f[n] = IF n = 0 THEN a ELSE F[f[n - 1]] BY DEF Repeats
  <2>1. f[n] = G(n)[n] /\ G(n) \in Part(n) BY <1>4
  <2>2. CASE n = 0
    <3>1. n \in 0..n OBVIOUS
    <3> HIDE DEF G, f
    <3> QED BY <2>1, <2>2, <3>1 DEF Repeats
  <2>3. CASE n # 0
    <3>1. n - 1 \in Nat /\ n \in 0..n /\ n - 1 <= n /\ n - 1 <= n - 1 BY <2>3
    <3>2. f[n - 1] = G(n - 1)[n - 1] /\ G(n - 1) \in Part(n - 1) BY <1>4, <3>1
    <3> HIDE DEF G, f
    <3>3. G(n - 1)[n - 1] = G(n)[n - 1]
      <4> HIDE DEF Part
      <4> QED BY <1>5, <2>1, <3>1, <3>2
    <3>4. G(n)[n] = F[G(n)[n - 1]] BY <2>1, <2>3, <3>1 DEF Repeats
    <3> QED BY <2>1, <2>3, <3>2, <3>3, <3>4
  <2> QED BY <2>2, <2>3
<1> HIDE DEF f
<1> QED BY <1>6, <1>7

-----------------------------------------------------------------------------
\* Halving the index.
LEMMA ShiftIs ==
  ASSUME NEW i \in Nat
  PROVE  /\ Shift(i, 0) = i
         /\ \A k \in Nat : Shift(i, k) \in Nat /\ Shift(i, k + 1) = Shift(i, k) \div 2
<1> DEFINE F == [n \in Nat |-> n \div 2]
           Step(f) == [j \in Nat |-> IF j = 0 THEN i ELSE f[j - 1] \div 2]
           shift == CHOOSE f : f = Step(f)
<1>1. F \in [Nat -> Nat]
  <2>1. \A n \in Nat : n \div 2 \in Nat OBVIOUS
  <2> QED BY <2>1
<1>2. PICK g \in [Nat -> Nat] : Repeats(g, Nat, i, F)
  <2> HIDE DEF F
  <2> QED BY <1>1, Recursion
<1>3. \A j \in Nat : g[j] = IF j = 0 THEN i ELSE g[j - 1] \div 2
  <2> SUFFICES ASSUME NEW j \in Nat PROVE g[j] = IF j = 0 THEN i ELSE g[j - 1] \div 2 OBVIOUS
  <2>1. CASE j = 0 BY <1>2, <2>1 DEF Repeats
  <2>2. CASE j # 0
    <3>1. j - 1 \in Nat /\ g[j - 1] \in Nat BY <2>2
    <3>2. g[j] = F[g[j - 1]] BY <1>2, <2>2 DEF Repeats
    <3> QED BY <2>2, <3>1, <3>2
  <2> QED BY <2>1, <2>2
<1>4. g = Step(g) BY <1>2, <1>3
<1>5. shift = Step(shift) BY <1>4
<1>6. \A k : Shift(i, k) = shift[k] BY Zenon DEF Shift
<1> HIDE DEF shift
<1>7. shift[0] = i /\ \A k \in Nat : shift[k + 1] = shift[k] \div 2
  <2>1. shift[0] = i BY <1>5
  <2>2. ASSUME NEW k \in Nat PROVE shift[k + 1] = shift[k] \div 2
    <3>1. k + 1 \in Nat /\ k + 1 # 0 /\ k + 1 - 1 = k OBVIOUS
    <3>2. shift[k + 1] = IF k + 1 = 0 THEN i ELSE shift[k + 1 - 1] \div 2 BY <1>5, <3>1
    <3> QED BY <3>1, <3>2
  <2> QED BY <2>1, <2>2
<1> DEFINE P == {k \in Nat : shift[k] \in Nat}
<1>8. \A k \in Nat : k \in P
  <2>1. 0 \in P BY <1>7
  <2>2. ASSUME NEW k \in Nat, k \in P PROVE k + 1 \in P BY <1>7, <2>2
  <2> HIDE DEF P
  <2> QED BY <2>1, <2>2, SetInduction
<1> QED BY <1>6, <1>7, <1>8

\* Hashes are as good as their inputs.
LEMMA HashesDiffer ==
  /\ \A a, b, c, d : hash_nodes(a, b) = hash_nodes(c, d) => a = c /\ b = d
  /\ \A a, b : hash_leaf(a) = hash_leaf(b) => a = b
  /\ \A a, b, d : hash_nodes(a, b) # Zero /\ hash_nodes(a, b) # hash_leaf(d)
  /\ \A d : hash_leaf(d) # Zero
<1>1. \A a, b, c, d : <<"node", a, b>> = <<"node", c, d>> => a = c /\ b = d OBVIOUS
<1>2. \A a, b : <<"leaf", a>> = <<"leaf", b>> => a = b OBVIOUS
<1>3. \A a, b, d : <<"node", a, b>> # <<"zero">> /\ <<"node", a, b>> # <<"leaf", d>> OBVIOUS
<1>4. \A d : <<"leaf", d>> # <<"zero">> OBVIOUS
<1> QED BY <1>1, <1>2, <1>3, <1>4, Zenon DEF hash_nodes, hash_leaf, Zero

-----------------------------------------------------------------------------
\* The vector of levels: at least the level of the leaves.
IsLevels(R) == /\ \E H : R \in Seq(Seq(H))
               /\ Len(R) >= 1

\* R[l] is a whole level under R[l + 1]: an even number of nodes, two or more, whose
\* pairs are hashed into the level above, where at most one padding node follows.
Below(R, l) ==
  \E m \in Nat \ {0} :
    /\ Len(R[l]) = 2 * m
    /\ \A i \in 1..m : R[l + 1][i] = hash_nodes(R[l][2*i - 1], R[l][2*i])
    /\ \/ Len(R[l + 1]) = m
       \/ m > 1 /\ Len(R[l + 1]) = m + 1 /\ R[l + 1][m + 1] = Zero

\* The first T + 1 levels of R are a tree; whatever is above does not belong to it.
Tree(R, T) ==
  /\ T \in Nat /\ T + 1 <= Len(R)
  /\ Len(R[T + 1]) = 1
  /\ \A l \in 1..T : Below(R, l)

\* The levels and the nodes in them are counted from 1.
LEMMA LevelsType ==
  ASSUME NEW R, IsLevels(R)
  PROVE  /\ Len(R) \in Nat /\ DOMAIN R = 1..Len(R)
         /\ \A l \in 1..Len(R) : Len(R[l]) \in Nat /\ DOMAIN R[l] = 1..Len(R[l])
<1>1. PICK H : R \in Seq(Seq(H)) BY DEF IsLevels
<1>2. \A l \in 1..Len(R) : R[l] \in Seq(H) BY <1>1
<1> QED BY <1>1, <1>2

\* The same with indices that start at 0: m nodes of the level above have two children
\* at level l, and the one beyond is padding.
Pairs(R, l, m) ==
  /\ Len(R[l]) = 2 * m
  /\ Len(R[l + 1]) \in {m, m + 1}
  /\ \A q \in 0..(m - 1) : R[l + 1][q + 1] = hash_nodes(R[l][2*q + 1], R[l][2*q + 2])
  /\ \A q \in 0..(Len(R[l + 1]) - 1) : q >= m => R[l + 1][q + 1] = Zero

\* Both forms say the same.
LEMMA Children ==
  ASSUME NEW R, NEW l \in Nat, Below(R, l)
  PROVE  \E m \in Nat \ {0} : Pairs(R, l, m)
<1>1. PICK m \in Nat \ {0} :
        /\ Len(R[l]) = 2 * m
        /\ \A i \in 1..m : R[l + 1][i] = hash_nodes(R[l][2*i - 1], R[l][2*i])
        /\ \/ Len(R[l + 1]) = m
           \/ m > 1 /\ Len(R[l + 1]) = m + 1 /\ R[l + 1][m + 1] = Zero
  BY DEF Below
<1>2. ASSUME NEW q \in 0..(m - 1)
      PROVE  R[l + 1][q + 1] = hash_nodes(R[l][2*q + 1], R[l][2*q + 2])
  <2>1. q + 1 \in 1..m /\ 2*(q + 1) - 1 = 2*q + 1 /\ 2*(q + 1) = 2*q + 2 OBVIOUS
  <2>2. R[l + 1][q + 1] = hash_nodes(R[l][2*(q + 1) - 1], R[l][2*(q + 1)]) BY <1>1, <2>1, Zenon
  <2> QED BY <2>1, <2>2, Zenon
<1>3. ASSUME NEW q \in 0..(Len(R[l + 1]) - 1), q >= m PROVE R[l + 1][q + 1] = Zero
  <2>1. CASE Len(R[l + 1]) = m BY <1>3, <2>1
  <2>2. CASE Len(R[l + 1]) = m + 1 /\ R[l + 1][m + 1] = Zero
    <3>1. q = m BY <1>3, <2>2
    <3> QED BY <2>2, <3>1
  <2> QED BY <1>1, <2>1, <2>2
<1>4. Len(R[l + 1]) \in {m, m + 1} BY <1>1
<1>5. Pairs(R, l, m) BY <1>1, <1>2, <1>3, <1>4 DEF Pairs
<1> QED BY <1>5

\* Halving leads from a node to its parent, and the parent has it as a child.
LEMMA Halves ==
  ASSUME NEW x \in Nat, NEW m \in Nat, x < 2 * m
  PROVE  /\ x \div 2 \in 0..(m - 1)
         /\ x % 2 = 0 => x = 2 * (x \div 2) /\ Sibling(x) = x + 1
         /\ x % 2 # 0 => x = 2 * (x \div 2) + 1 /\ Sibling(x) = x - 1
         /\ Sibling(x) \in 0..(2*m - 1)
<1>1. x \div 2 \in Nat /\ x % 2 \in {0, 1}
  <2>1. x \div 2 \in Nat OBVIOUS
  <2>2. x % 2 \in 0..1 OBVIOUS
  <2> QED BY <2>1, <2>2
<1>a. x = 2 * (x \div 2) + (x % 2) OBVIOUS
<1>2. PICK h \in Nat, b \in {0, 1} : h = x \div 2 /\ b = x % 2 /\ x = 2 * h + b BY <1>1, <1>a
<1>3. h \in 0..(m - 1) BY <1>2
<1>4. Sibling(x) = IF b = 0 THEN x + 1 ELSE x - 1 BY <1>2 DEF Sibling
<1>5. Sibling(x) \in 0..(2*m - 1) BY <1>2, <1>3, <1>4
<1> QED BY <1>2, <1>3, <1>4, <1>5

\* The nodes on the way up from leaf i are nodes of the tree.
LEMMA WayUp ==
  ASSUME NEW R, IsLevels(R), NEW T, Tree(R, T), NEW i \in 0..(Len(R[1]) - 1)
  PROVE  \A l \in 0..T : Shift(i, l) \in 0..(Len(R[l + 1]) - 1)
<1>0. Len(R[1]) \in Nat /\ i \in Nat BY LevelsType DEF IsLevels
<1> DEFINE P == {l \in Nat : l <= T => Shift(i, l) \in 0..(Len(R[l + 1]) - 1)}
<1>1. 0 \in P
  <2>1. Shift(i, 0) = i BY <1>0, ShiftIs
  <2> QED BY <2>1
<1>2. ASSUME NEW l \in Nat, l \in P PROVE l + 1 \in P
  <2> SUFFICES ASSUME l + 1 <= T PROVE Shift(i, l + 1) \in 0..(Len(R[l + 1 + 1]) - 1)
    OBVIOUS
  <2>1. T \in Nat /\ l + 1 \in 1..T BY DEF Tree
  <2>2. PICK m \in Nat : Len(R[l + 1]) = 2 * m /\ Len(R[l + 1 + 1]) \in {m, m + 1}
    <3>1. Below(R, l + 1) BY <2>1 DEF Tree
    <3>2. PICK m \in Nat \ {0} : Pairs(R, l + 1, m) BY <3>1, Children
    <3> QED BY <3>2 DEF Pairs
  <2>3. Shift(i, l) \in Nat /\ Shift(i, l) < 2 * m
    <3>1. Shift(i, l) \in 0..(Len(R[l + 1]) - 1) BY <1>2, <2>1
    <3> QED BY <2>2, <3>1
  <2>4. Shift(i, l) \div 2 \in 0..(m - 1) BY <2>3, Halves
  <2>5. Shift(i, l + 1) = Shift(i, l) \div 2 BY <1>0, ShiftIs
  <2> QED BY <2>2, <2>4, <2>5
<1>3. \A l \in Nat : l \in P
  <2> HIDE DEF P
  <2> QED BY <1>1, <1>2, SetInduction
<1> QED BY <1>3 DEF Tree

-----------------------------------------------------------------------------
\* get_paths_to ends at the root: it has one sibling for each level below.
LEMMA PathIs ==
  ASSUME NEW R, IsLevels(R), NEW T, Tree(R, T), NEW i \in 0..(Len(R[1]) - 1)
  PROVE  get_paths_to(R, i) = [k \in 1..T |-> R[k][Sibling(Shift(i, k - 1)) + 1]]
<1>1. /\ T \in Nat /\ T \in 0..(Len(R) - 1) /\ Len(R) \in Nat /\ Len(R[T + 1]) = 1
      /\ \A l \in 1..T : Below(R, l)
  BY LevelsType DEF Tree
<1>2. \A l \in 0..T : Shift(i, l) \in 0..(Len(R[l + 1]) - 1) BY WayUp
<1>3. ASSUME NEW l \in 0..(T - 1) PROVE ~Ends(R, i, l)
  <2>1. l \in 0..T /\ l + 1 \in 1..T /\ l + 1 \in Nat BY <1>1
  <2>2. PICK m \in Nat \ {0} : Len(R[l + 1]) = 2 * m
    <3>1. Below(R, l + 1) BY <1>1, <2>1
    <3> QED BY <2>1, <3>1 DEF Below
  <2>3. Shift(i, l) \in 0..(Len(R[l + 1]) - 1) BY <1>2, <2>1
  <2>4. Shift(i, l) \in Nat /\ Shift(i, l) < 2 * m BY <2>2, <2>3
  <2>5. Sibling(Shift(i, l)) \in 0..(2*m - 1) BY <2>4, Halves
  <2>6. R[l + 1] # <<>> BY <2>2
  <2>7. ~(Sibling(Shift(i, l)) >= Len(R[l + 1])) BY <2>2, <2>5
  <2> QED BY <2>6, <2>7 DEF Ends
<1>4. Ends(R, i, T)
  <2>1. Shift(i, T) = 0
    <3>1. T \in 0..T BY <1>1
    <3>2. Shift(i, T) \in 0..(Len(R[T + 1]) - 1) BY <1>2, <3>1
    <3> QED BY <1>1, <3>2
  <2>2. Sibling(0) = 1 BY DEF Sibling
  <2> QED BY <1>1, <2>1, <2>2 DEF Ends
<1> DEFINE Stop(lvl) == Ends(R, i, lvl) /\ \A l \in 0..(lvl - 1) : ~Ends(R, i, l)
           depth == CHOOSE lvl \in 0..(Len(R) - 1) : Stop(lvl)
<1>5. Stop(T) BY <1>3, <1>4
<1>6. ASSUME NEW lvl \in 0..(Len(R) - 1), Stop(lvl) PROVE lvl = T
  <2>1. CASE lvl < T
    <3>1. lvl \in 0..(T - 1) BY <1>1, <2>1
    <3> QED BY <1>3, <1>6, <3>1
  <2>2. CASE T < lvl
    <3>1. T \in 0..(lvl - 1) BY <1>1, <2>2
    <3> QED BY <1>4, <1>6, <3>1
  <2> QED BY <1>1, <2>1, <2>2
<1>7. depth = T
  <2> HIDE DEF Stop
  <2>1. depth \in 0..(Len(R) - 1) /\ Stop(depth) BY <1>1, <1>5
  <2> QED BY <1>6, <2>1
<1>8. get_paths_to(R, i) = [k \in 1..depth |-> R[k][Sibling(Shift(i, k - 1)) + 1]]
  BY Zenon DEF get_paths_to
<1> HIDE DEF depth
<1> QED BY <1>7, <1>8

\* root_from_paths computes one node after the other, from the leaf upwards.
Folds(f, n, index, data, path) ==
  /\ f[0] = hash_leaf(data)
  /\ \A k \in 0..(n - 1) :
       f[k + 1] = IF Shift(index, k) % 2 = 0 THEN hash_nodes(f[k], path[k + 1])
                                             ELSE hash_nodes(path[k + 1], f[k])

\* That computation exists, so root_from_paths returns its last node.
LEMMA FoldIs ==
  ASSUME NEW index \in Nat, NEW data, NEW path, Len(path) \in Nat
  PROVE  \E f : Folds(f, Len(path), index, data, path)
                /\ root_from_paths(index, data, path) = f[Len(path)]
<1> DEFINE Node(a, k) == IF Shift(index, k) % 2 = 0 THEN hash_nodes(a, path[k + 1])
                                                    ELSE hash_nodes(path[k + 1], a)
           Step(f, m) == [k \in 0..m |-> IF k = 0 THEN hash_leaf(data)
                            ELSE IF Shift(index, k - 1) % 2 = 0 THEN hash_nodes(f[k - 1], path[k])
                                                                ELSE hash_nodes(path[k], f[k - 1])]
           P == {m \in Nat : \E f : f = Step(f, m)}
<1>1. 0 \in P
  <2> DEFINE f == [k \in 0..0 |-> hash_leaf(data)]
  <2>1. f = Step(f, 0) OBVIOUS
  <2> QED BY <2>1
<1>2. ASSUME NEW m \in Nat, m \in P PROVE m + 1 \in P
  <2>1. PICK f : f = Step(f, m) BY <1>2
  <2> DEFINE g == [k \in 0..(m + 1) |-> IF k <= m THEN f[k] ELSE Node(f[m], m)]
  <2>2. \A k \in 0..m : g[k] = f[k] OBVIOUS
  <2>3. g[m + 1] = Node(g[m], m) /\ DOMAIN g = 0..(m + 1) /\ g = [k \in 0..(m + 1) |-> g[k]] OBVIOUS
  <2> HIDE DEF g
  <2>4. ASSUME NEW k \in 0..(m + 1)
        PROVE  g[k] = IF k = 0 THEN hash_leaf(data)
                      ELSE IF Shift(index, k - 1) % 2 = 0 THEN hash_nodes(g[k - 1], path[k])
                                                          ELSE hash_nodes(path[k], g[k - 1])
    <3>1. CASE k = m + 1
      <4>1. k # 0 /\ k - 1 = m BY <3>1
      <4> QED BY <2>3, <3>1, <4>1
    <3>2. CASE k \in 0..m /\ k # 0
      <4>1. k - 1 \in 0..m BY <3>2
      <4>2. g[k] = f[k] /\ g[k - 1] = f[k - 1] BY <2>2, <3>2, <4>1
      <4> QED BY <2>1, <3>2, <4>2
    <3>3. CASE k = 0
      <4>1. g[0] = f[0] BY <2>2
      <4> QED BY <2>1, <3>3, <4>1
    <3> QED BY <3>1, <3>2, <3>3
  <2>5. g = Step(g, m + 1)
    <3>1. Step(g, m + 1) = [k \in 0..(m + 1) |-> g[k]] BY <2>4, Zenon
    <3> QED BY <2>3, <3>1, Zenon
  <2> HIDE DEF Step
  <2>6. \E h : h = Step(h, m + 1) BY <2>5, Zenon
  <2> QED BY <2>6
<1>3. \A m \in Nat : m \in P
  <2> HIDE DEF P
  <2> QED BY <1>1, <1>2, SetInduction
<1> DEFINE fold == CHOOSE f : f = Step(f, Len(path))
<1>4. fold = Step(fold, Len(path))
  <2>1. \E f : f = Step(f, Len(path)) BY <1>3
  <2> HIDE DEF Step
  <2> QED BY <2>1
<1>5. root_from_paths(index, data, path) = fold[Len(path)] BY Zenon DEF root_from_paths
<1> HIDE DEF fold
<1>6. fold[0] = hash_leaf(data) BY <1>4
<1>7. ASSUME NEW k \in 0..(Len(path) - 1) PROVE fold[k + 1] = Node(fold[k], k)
  <2>1. k + 1 \in 0..Len(path) /\ k + 1 # 0 /\ k + 1 - 1 = k OBVIOUS
  <2>2. fold[k + 1] = IF k + 1 = 0 THEN hash_leaf(data)
                      ELSE IF Shift(index, k + 1 - 1) % 2 = 0
                           THEN hash_nodes(fold[k + 1 - 1], path[k + 1])
                           ELSE hash_nodes(path[k + 1], fold[k + 1 - 1])
    BY <1>4, <2>1
  <2> QED BY <2>1, <2>2
<1>8. Folds(fold, Len(path), index, data, path) BY <1>6, <1>7 DEF Folds
<1> QED BY <1>5, <1>8

\* A path that get_paths_to gives for a leaf of the tree leads from it to the root.
LEMMA PathVerifies ==
  ASSUME NEW R, IsLevels(R), NEW T, Tree(R, T), NEW i \in 0..(Len(R[1]) - 1),
         NEW data, R[1][i + 1] = hash_leaf(data)
  PROVE  root_from_paths(i, data, get_paths_to(R, i)) = R[T + 1][1]
<1> DEFINE path == get_paths_to(R, i)
           At(l) == R[l + 1][Shift(i, l) + 1]
<1>1. i \in Nat /\ T \in Nat BY LevelsType DEF IsLevels, Tree
<1>2. path = [k \in 1..T |-> R[k][Sibling(Shift(i, k - 1)) + 1]] BY PathIs
<1> HIDE DEF path
<1>3. Len(path) = T BY <1>1, <1>2
<1>4. PICK f : Folds(f, T, i, data, path) /\ root_from_paths(i, data, path) = f[T]
  BY <1>1, <1>3, FoldIs
<1>5. \A l \in 0..T : Shift(i, l) \in 0..(Len(R[l + 1]) - 1) BY WayUp
<1> DEFINE P == {l \in Nat : l <= T => f[l] = At(l)}
<1>6. 0 \in P
  <2>1. Shift(i, 0) = i BY <1>1, ShiftIs
  <2>2. f[0] = hash_leaf(data) BY <1>4 DEF Folds
  <2> QED BY <2>1, <2>2
<1>7. ASSUME NEW l \in Nat, l \in P PROVE l + 1 \in P
  <2> SUFFICES ASSUME l + 1 <= T PROVE f[l + 1] = At(l + 1) OBVIOUS
  <2>1. l \in 0..(T - 1) /\ l + 1 \in 1..T /\ l \in 0..T /\ l + 1 - 1 = l BY <1>1
  <2>2. Below(R, l + 1) BY <2>1 DEF Tree
  <2>3. PICK m \in Nat \ {0} :
          /\ Len(R[l + 1]) = 2 * m
          /\ \A q \in 0..(m - 1) :
               R[l + 1 + 1][q + 1] = hash_nodes(R[l + 1][2*q + 1], R[l + 1][2*q + 2])
    <3>1. PICK m \in Nat \ {0} : Pairs(R, l + 1, m) BY <2>2, Children
    <3> QED BY <3>1 DEF Pairs
  <2>4. PICK x \in Nat : x = Shift(i, l) /\ x < 2 * m
    <3>1. Shift(i, l) \in 0..(Len(R[l + 1]) - 1) BY <1>5, <2>1
    <3>2. Shift(i, l) \in Nat /\ Shift(i, l) < 2 * m BY <2>3, <3>1
    <3> QED BY <3>2
  <2>5. PICK q \in 0..(m - 1) : q = x \div 2 BY <2>4, Halves
  <2>6. /\ x % 2 = 0 => x = 2 * q /\ Sibling(x) = x + 1
        /\ x % 2 # 0 => x = 2 * q + 1 /\ Sibling(x) = x - 1
    BY <2>4, <2>5, Halves
  <2>7. At(l + 1) = hash_nodes(R[l + 1][2*q + 1], R[l + 1][2*q + 2])
    <3>1. Shift(i, l + 1) = q BY <1>1, <2>4, <2>5, ShiftIs
    <3> QED BY <2>3, <3>1
  <2>8. f[l] = R[l + 1][x + 1] BY <1>7, <2>1, <2>4
  <2>9. path[l + 1] = R[l + 1][Sibling(x) + 1] BY <1>2, <2>1, <2>4
  <2>10. f[l + 1] = IF x % 2 = 0 THEN hash_nodes(f[l], path[l + 1])
                                ELSE hash_nodes(path[l + 1], f[l])
    BY <1>4, <2>1, <2>4 DEF Folds
  <2> HIDE DEF At
  <2>11. CASE x % 2 = 0
    <3>1. x + 1 = 2*q + 1 /\ Sibling(x) + 1 = 2*q + 2 BY <2>6, <2>11
    <3> QED BY <2>7, <2>8, <2>9, <2>10, <2>11, <3>1, Zenon
  <2>12. CASE x % 2 # 0
    <3>1. x + 1 = 2*q + 2 /\ Sibling(x) + 1 = 2*q + 1 BY <2>6, <2>12
    <3> QED BY <2>7, <2>8, <2>9, <2>10, <2>12, <3>1, Zenon
  <2> QED BY <2>11, <2>12
<1>8. \A l \in Nat : l \in P
  <2> HIDE DEF P
  <2> QED BY <1>6, <1>7, SetInduction
<1>9. f[T] = At(T) BY <1>1, <1>8
<1>10. Shift(i, T) = 0
  <2>1. T \in 0..T /\ Len(R[T + 1]) = 1 BY <1>1 DEF Tree
  <2>2. Shift(i, T) \in 0..(Len(R[T + 1]) - 1) BY <1>5, <2>1
  <2> QED BY <2>1, <2>2
<1> QED BY <1>4, <1>9, <1>10 DEF path

\* Such a path leads to the root from nowhere else: a leaf that it fits, at a position
\* no further to the right than the tree is wide, is a leaf of the tree.
LEMMA PathBinds ==
  ASSUME NEW R, IsLevels(R), NEW T, Tree(R, T), NEW i \in 0..(Len(R[1]) - 1),
         NEW j \in Nat, Shift(j, T) = 0, NEW data,
         root_from_paths(j, data, get_paths_to(R, i)) = R[T + 1][1]
  PROVE  j < Len(R[1]) /\ R[1][j + 1] = hash_leaf(data)
<1> DEFINE path == get_paths_to(R, i)
           At(l) == R[l + 1][Shift(j, l) + 1]
           Inside(l) == Shift(j, l) < Len(R[l + 1])
<1>1. T \in Nat /\ Len(R[T + 1]) = 1 /\ Len(R[1]) \in Nat BY LevelsType DEF IsLevels, Tree
<1>2. path = [k \in 1..T |-> R[k][Sibling(Shift(i, k - 1)) + 1]] BY PathIs
<1>3. Len(path) = T
  <2> HIDE DEF path
  <2> QED BY <1>1, <1>2
<1>4. PICK f : Folds(f, T, j, data, path) /\ f[T] = R[T + 1][1]
  <2>1. root_from_paths(j, data, path) = R[T + 1][1] OBVIOUS
  <2> HIDE DEF path
  <2> QED BY <1>1, <1>3, <2>1, FoldIs
<1> HIDE DEF path
<1> DEFINE P == {d \in Nat : d <= T => f[T - d] = At(T - d) /\ Inside(T - d)}
<1>6. 0 \in P
  <2>1. T - 0 = T BY <1>1
  <2>2. f[T] = At(T) /\ Inside(T) BY <1>1, <1>4
  <2> HIDE DEF At, Inside
  <2> QED BY <2>1, <2>2
<1>7. ASSUME NEW d \in Nat, d \in P PROVE d + 1 \in P
  <2> SUFFICES ASSUME d + 1 <= T PROVE f[T - (d + 1)] = At(T - (d + 1)) /\ Inside(T - (d + 1))
    OBVIOUS
  <2>1. PICK l \in Nat : l = T - (d + 1) /\ l + 1 = T - d /\ l + 1 <= T BY <1>1
  <2>2. l \in 0..(T - 1) /\ l + 1 \in 1..T /\ d <= T BY <1>1, <2>1
  <2>3. f[l + 1] = At(l + 1) /\ Inside(l + 1) BY <1>7, <2>1, <2>2
  <2>4. Below(R, l + 1) BY <2>2 DEF Tree
  <2>5. PICK m \in Nat \ {0} : Pairs(R, l + 1, m) BY <2>4, Children
  <2>6. PICK x \in Nat : x = Shift(j, l) BY ShiftIs
  <2>7. PICK q \in Nat : q = x \div 2 /\ q = Shift(j, l + 1)
    <3>1. Shift(j, l + 1) = x \div 2 /\ Shift(j, l + 1) \in Nat BY <2>6, ShiftIs
    <3> QED BY <3>1
  <2>8. f[l + 1] = R[l + 1 + 1][q + 1] /\ q < Len(R[l + 1 + 1]) BY <2>3, <2>7
  <2>9. f[l + 1] = IF x % 2 = 0 THEN hash_nodes(f[l], path[l + 1])
                               ELSE hash_nodes(path[l + 1], f[l])
    BY <1>4, <2>2, <2>6 DEF Folds
  <2>10. f[l + 1] # Zero 
    <3>1. CASE x % 2 = 0 BY <2>9, <3>1, HashesDiffer
    <3>2. CASE x % 2 # 0 BY <2>9, <3>2, HashesDiffer
    <3> QED BY <3>1, <3>2
  <2>11. q \in 0..(m - 1)
    <3>1. q \in 0..(Len(R[l + 1 + 1]) - 1) BY <2>5, <2>8 DEF Pairs
    <3>2. ~(q >= m) BY <2>5, <2>8, <2>10, <3>1, Zenon DEF Pairs
    <3> QED BY <3>2
  <2>12. f[l + 1] = hash_nodes(R[l + 1][2*q + 1], R[l + 1][2*q + 2]) BY <2>5, <2>8, <2>11, Zenon DEF Pairs
  <2>13. /\ x % 2 = 0 => x = 2 * q
         /\ x % 2 # 0 => x = 2 * q + 1
    <3>1. x = 2 * (x \div 2) + (x % 2) OBVIOUS
    <3>2. x % 2 \in 0..1 OBVIOUS
    <3>3. PICK b \in 0..1 : b = x % 2 /\ x = 2 * q + b BY <2>7, <3>1, <3>2
    <3>4. b = 0 \/ b = 1 OBVIOUS
    <3>5. /\ b = 0 => x = 2 * q
          /\ b # 0 => x = 2 * q + 1
      BY <3>3, <3>4
    <3> QED BY <3>3, <3>5, Zenon
  <2>14. f[l] = R[l + 1][x + 1]
    <3>1. CASE x % 2 = 0
      <4>1. x + 1 = 2*q + 1 BY <2>13, <3>1
      <4>2. f[l] = R[l + 1][2*q + 1] BY <2>9, <2>12, <3>1, HashesDiffer
      <4> QED BY <4>1, <4>2
    <3>2. CASE x % 2 # 0
      <4>1. x + 1 = 2*q + 2 BY <2>13, <3>2
      <4>2. f[l] = R[l + 1][2*q + 2] BY <2>9, <2>12, <3>2, HashesDiffer
      <4> QED BY <4>1, <4>2
    <3> QED BY <3>1, <3>2
  <2>15. x < 2 * m BY <2>11, <2>13
  <2>16. Len(R[l + 1]) = 2 * m BY <2>5 DEF Pairs
  <2> QED BY <2>1, <2>6, <2>14, <2>15, <2>16
<1>8. \A d \in Nat : d \in P
  <2> HIDE DEF P
  <2> QED BY <1>6, <1>7, SetInduction
<1>9. f[0] = At(0) /\ Inside(0)
  <2>1. T - T = 0 BY <1>1
  <2>2. T \in P BY <1>1, <1>8
  <2> HIDE DEF At, Inside
  <2> QED BY <1>1, <2>1, <2>2
<1>10. Shift(j, 0) = j BY ShiftIs
<1>11. f[0] = hash_leaf(data) BY <1>4 DEF Folds
<1>12. 0 + 1 = 1 OBVIOUS
<1> QED BY <1>1, <1>9, <1>10, <1>11, <1>12, Zenon

-----------------------------------------------------------------------------
\* The vector of levels may be seen as a function that is given level by level.
LEMMA LevelsOf ==
  ASSUME NEW n \in Nat \ {0}, NEW H, NEW R, R = [l \in 1..n |-> R[l]],
         \A l \in 1..n : R[l] \in Seq(H)
  PROVE  IsLevels(R) /\ Len(R) = n
<1>1. R \in Seq(Seq(H)) /\ Len(R) = n
  <2>1. R \in [1..n -> Seq(H)] BY Zenon
  <2> QED BY <2>1
<1>2. n >= 1 OBVIOUS
<1> QED BY <1>1, <1>2 DEF IsLevels

\* The condition under which compute_root pads a level.
Odd(c) == c % 2 = 1

\* The next level has half as many nodes, rounded up.
LEMMA HalfUp ==
  ASSUME NEW c \in Nat, NEW h, h = (c + 1) \div 2
  PROVE  h \in Nat /\ (Odd(c) => c + 1 = 2 * h) /\ (~Odd(c) => c = 2 * h)
<1>1. h \in Nat OBVIOUS
<1>2. PICK x \in Nat, b \in 0..1 : x = c \div 2 /\ b = c % 2 /\ c = 2 * x + b
  <2>1. c = 2 * (c \div 2) + (c % 2) OBVIOUS
  <2>2. c % 2 \in 0..1 OBVIOUS
  <2>3. c \div 2 \in Nat OBVIOUS
  <2> QED BY <2>1, <2>2, <2>3
<1>3. b = 1 => h = x + 1 BY <1>2
<1>4. b = 0 => h = x BY <1>2
<1> QED BY <1>1, <1>2, <1>3, <1>4 DEF Odd

\* A padded level is the level with at most one padding node after it.
PaddedRow(B, row, c) ==
  /\ \A i \in 1..c : B[i] = row[i]
  /\ ~Odd(c) => B = row
  /\ Odd(c) => Len(B) = c + 1 /\ B[c + 1] = Zero

\* padded does that.
LEMMA PaddedIs ==
  ASSUME NEW H, NEW row \in Seq(H), NEW c \in Nat, Len(row) = c
  PROVE  padded(row, c) \in Seq(H \cup {Zero}) /\ PaddedRow(padded(row, c), row, c)
<1>1. row \in Seq(H \cup {Zero})
  <2>1. H \subseteq H \cup {Zero} OBVIOUS
  <2> QED BY <2>1, SeqMonotonic
<1>2. CASE Odd(c)
  <2>1. padded(row, c) = Append(row, Zero) BY <1>2 DEF padded, Odd
  <2>2. Zero \in H \cup {Zero} OBVIOUS
  <2>3. /\ Append(row, Zero) \in Seq(H \cup {Zero}) /\ Len(Append(row, Zero)) = c + 1
        /\ \A i \in 1..c : Append(row, Zero)[i] = row[i]
        /\ Append(row, Zero)[c + 1] = Zero
    BY <1>1, <2>2, AppendProperties
  <2> QED BY <1>2, <2>1, <2>3 DEF PaddedRow
<1>3. CASE ~Odd(c)
  <2>1. padded(row, c) = row BY <1>3 DEF padded, Odd
  <2> QED BY <1>1, <1>3, <2>1 DEF PaddedRow
<1> QED BY <1>2, <1>3

\* The loop of compute_root, entered with n leaves: the levels below lvl are done, level
\* lvl has count nodes and is not padded yet.
HashLoop(R, v, c, base, n) ==
  /\ IsLevels(R)
  /\ v \in Nat /\ c \in Nat \ {0}
  /\ v + 1 <= Len(R) /\ c + v <= n
  /\ Len(R[v + 1]) = c
  /\ v > 0 => Len(R[v]) = 2 * c
  /\ \A l \in 1..v : Below(R, l)
  /\ R[1] = IF v = 0 THEN base ELSE padded(base, n)

\* What one round does to c nodes at level v of R: the level is padded and hashed, in
\* pairs, into the level above.
Round(R, v, c, N, half) ==
  /\ IsLevels(N) /\ v + 2 <= Len(N) /\ Len(N) >= Len(R)
  /\ N[v + 1] = padded(R[v + 1], c)
  /\ Len(N[v + 1]) = 2 * half
  /\ \/ c = 2 * half /\ N[v + 1] = R[v + 1]
     \/ c + 1 = 2 * half /\ N[v + 1][c + 1] = Zero
  /\ \A i \in 1..c : N[v + 1][i] = R[v + 1][i]
  /\ Len(N[v + 2]) = half
  /\ \A i \in 1..half : N[v + 2][i] = hash_nodes(N[v + 1][2*i - 1], N[v + 1][2*i])
  /\ \A l \in 1..Len(R) : l # v + 1 /\ l # v + 2 => N[l] = R[l]

\* HashOneLevel does that.
LEMMA RoundIs ==
  ASSUME NEW s, IsLevels(s.levels), s.lvl \in Nat, s.count \in Nat \ {0},
         s.lvl + 1 <= Len(s.levels), Len(s.levels[s.lvl + 1]) = s.count
  PROVE  /\ HashOneLevel(s).lvl = s.lvl + 1
         /\ HashOneLevel(s).count \in Nat
         /\ Round(s.levels, s.lvl, s.count, HashOneLevel(s).levels, HashOneLevel(s).count)
<1> DEFINE R == s.levels
           v == s.lvl
           c == s.count
           G == IF Len(R) < v + 2 THEN Append(R, <<>>) ELSE R
           B == padded(G[v + 1], c)
           half == (c + 1) \div 2
           A == [i \in 1..half |-> hash_nodes(B[2*i - 1], B[2*i])]
           N == [G EXCEPT ![v + 1] = B, ![v + 2] = A]
<1>1. HashOneLevel(s) = [levels |-> N, lvl |-> v + 1, count |-> half]
  BY Zenon DEF HashOneLevel
<1>a. /\ IsLevels(R) /\ v \in Nat /\ c \in Nat \ {0} /\ v + 1 <= Len(R)
      /\ Len(R[v + 1]) = c
  OBVIOUS
<1>b. R = s.levels /\ v = s.lvl /\ c = s.count OBVIOUS
<1>c. HashOneLevel(s).levels = N /\ HashOneLevel(s).lvl = v + 1 /\ HashOneLevel(s).count = half
  <2> HIDE DEF N, half, v
  <2> QED BY <1>1
<1> HIDE DEF R, v, c
<1>2. PICK H : R \in Seq(Seq(H)) BY <1>a DEF IsLevels
<1>3. /\ G \in Seq(Seq(H)) /\ Len(G) >= v + 2 /\ Len(G) >= Len(R) /\ Len(G) \in Nat
      /\ \A l \in 1..Len(R) : G[l] = R[l]
  <2>1. Len(R) \in Nat /\ v \in Nat /\ v + 1 <= Len(R) /\ <<>> \in Seq(H) BY <1>2, <1>a
  <2>2. CASE Len(R) < v + 2
    <3>1. G = Append(R, <<>>) BY <2>2
    <3>2. /\ Append(R, <<>>) \in Seq(Seq(H)) /\ Len(Append(R, <<>>)) = Len(R) + 1
          /\ \A l \in 1..Len(R) : Append(R, <<>>)[l] = R[l]
      BY <1>2, <2>1, AppendProperties
    <3> HIDE DEF G
    <3> QED BY <2>1, <2>2, <3>1, <3>2
  <2>3. CASE ~(Len(R) < v + 2) BY <1>2, <2>1, <2>3
  <2> QED BY <2>2, <2>3
<1>4. v + 1 \in 1..Len(R) /\ v + 2 \in 1..Len(G) /\ v + 1 \in 1..Len(G) /\ v + 1 # v + 2
  <2>1. Len(R) \in Nat BY <1>2
  <2> HIDE DEF G
  <2> QED BY <1>3, <1>a, <2>1
<1>5. G[v + 1] = R[v + 1] /\ R[v + 1] \in Seq(H) /\ Len(R[v + 1]) = c /\ c \in Nat
  <2> HIDE DEF G
  <2> QED BY <1>2, <1>3, <1>4, <1>a
<1> HIDE DEF G
<1>6. B = padded(R[v + 1], c) BY <1>5
<1> HIDE DEF B
<1>7. /\ half \in Nat /\ B \in Seq(H \cup {Zero}) /\ Len(B) = 2 * half
      /\ \A i \in 1..c : B[i] = R[v + 1][i]
      /\ \/ c = 2 * half /\ B = R[v + 1]
         \/ c + 1 = 2 * half /\ B[c + 1] = Zero
  <2>1. half \in Nat /\ (Odd(c) => c + 1 = 2 * half) /\ (~Odd(c) => c = 2 * half)
    BY <1>5, HalfUp
  <2> HIDE DEF half
  <2>2. PICK row \in Seq(H) : row = R[v + 1] /\ Len(row) = c BY <1>5, Zenon
  <2>3. padded(row, c) \in Seq(H \cup {Zero}) /\ PaddedRow(padded(row, c), row, c)
    BY <1>5, <2>2, PaddedIs
  <2>4. B = padded(row, c) BY <1>6, <2>2, Zenon
  <2>5. B \in Seq(H \cup {Zero}) /\ PaddedRow(B, R[v + 1], c) /\ Len(R[v + 1]) = c
    BY <2>2, <2>3, <2>4, Zenon
  <2> QED BY <2>1, <2>5, Zenon DEF PaddedRow
<1> HIDE DEF half
<1> DEFINE K == H \cup {Zero} \cup {hash_nodes(B[2*i - 1], B[2*i]) : i \in 1..half}
<1>8. /\ A \in Seq(K) /\ Len(A) = half
      /\ \A i \in 1..half : A[i] = hash_nodes(B[2*i - 1], B[2*i])
  <2>1. A \in [1..half -> K] OBVIOUS
  <2> HIDE DEF K
  <2> QED BY <1>7, <2>1
<1> HIDE DEF A
<1>9. /\ N = [l \in 1..Len(G) |-> N[l]] /\ N[v + 1] = B /\ N[v + 2] = A
      /\ \A l \in 1..Len(G) : l # v + 1 /\ l # v + 2 => N[l] = G[l]
  <2>1. DOMAIN G = 1..Len(G) BY <1>3
  <2> QED BY <1>4, <2>1
<1> HIDE DEF N
<1>10. IsLevels(N) /\ Len(N) = Len(G)
  <2>1. H \subseteq K /\ H \cup {Zero} \subseteq K OBVIOUS
  <2> HIDE DEF K
  <2>2. B \in Seq(K) BY <1>7, <2>1, SeqMonotonic
  <2>3. ASSUME NEW l \in 1..Len(G) PROVE N[l] \in Seq(K)
    <3>1. G[l] \in Seq(H) BY <1>3
    <3>2. G[l] \in Seq(K) BY <2>1, <3>1, SeqMonotonic
    <3> QED BY <1>8, <1>9, <2>2, <3>2
  <2>4. Len(G) \in Nat \ {0} BY <1>3, <1>4
  <2> QED BY <1>9, <2>3, <2>4, LevelsOf
<1>11. \A l \in 1..Len(R) : l # v + 1 /\ l # v + 2 => N[l] = R[l]
  <2>1. Len(R) \in Nat BY <1>2
  <2>2. \A l \in 1..Len(R) : l \in 1..Len(G) BY <1>3, <2>1
  <2> QED BY <1>3, <1>9, <2>2
<1>12. v + 2 <= Len(N) /\ Len(N) >= Len(R) BY <1>3, <1>10
<1>13. Len(N[v + 2]) = half /\ \A i \in 1..half : N[v + 2][i] = hash_nodes(B[2*i - 1], B[2*i])
  BY <1>8, <1>9
<1>14. Round(R, v, c, N, half)
  BY <1>6, <1>7, <1>9, <1>10, <1>11, <1>12, <1>13, Zenon DEF Round
<1> QED BY <1>7, <1>14, <1>b, <1>c, Zenon

\* A round of the loop keeps it a loop over the same leaves.
LEMMA RoundKeepsLoop ==
  ASSUME NEW R, NEW v, NEW c, NEW N, NEW half \in Nat, NEW base, NEW n \in Nat,
         HashLoop(R, v, c, base, n), Len(base) = n, c > 1, Round(R, v, c, N, half)
  PROVE  HashLoop(N, v + 1, half, base, n)
<1>1. /\ v \in Nat /\ c \in Nat /\ c > 1 /\ v + 1 <= Len(R) /\ c + v <= n /\ Len(R[v + 1]) = c
      /\ v > 0 => Len(R[v]) = 2 * c
      /\ \A l \in 1..v : Below(R, l)
      /\ R[1] = IF v = 0 THEN base ELSE padded(base, n)
  BY DEF HashLoop
<1>2. /\ IsLevels(N) /\ v + 2 <= Len(N)
      /\ N[v + 1] = padded(R[v + 1], c) /\ Len(N[v + 1]) = 2 * half
      /\ (c = 2 * half /\ N[v + 1] = R[v + 1]) \/ (c + 1 = 2 * half /\ N[v + 1][c + 1] = Zero)
      /\ \A i \in 1..c : N[v + 1][i] = R[v + 1][i]
      /\ Len(N[v + 2]) = half
      /\ \A i \in 1..half : N[v + 2][i] = hash_nodes(N[v + 1][2*i - 1], N[v + 1][2*i])
      /\ \A l \in 1..Len(R) : l # v + 1 /\ l # v + 2 => N[l] = R[l]
  BY DEF Round
<1>3. half # 0 /\ half + (v + 1) <= n /\ v + 1 + 1 = v + 2
  <2>1. c = 2 * half \/ c + 1 = 2 * half BY <1>2
  <2> QED BY <1>1, <2>1
<1>4. Len(R) \in Nat BY LevelsType DEF HashLoop
<1>5. \A l \in 1..v : N[l] = R[l]
  <2>1. \A l \in 1..v : l \in 1..Len(R) /\ l # v + 1 /\ l # v + 2 BY <1>1, <1>4
  <2> QED BY <1>2, <2>1, Zenon
<1>6. ASSUME NEW l \in 1..(v + 1) PROVE Below(N, l)
  <2>1. CASE l = v + 1
    <3>1. half \in Nat \ {0} BY <1>3
    <3> QED BY <1>2, <1>3, <2>1, <3>1 DEF Below
  <2>2. CASE l \in 1..v /\ l # v
    <3>1. l + 1 \in 1..v BY <1>1, <2>2
    <3>2. N[l] = R[l] /\ N[l + 1] = R[l + 1] BY <1>5, <2>2, <3>1
    <3>3. Below(R, l) BY <1>1, <2>2
    <3> QED BY <3>2, <3>3 DEF Below
  <2>3. CASE l = v
    <3>1. v \in 1..v /\ v > 0 BY <1>1, <2>3
    <3>2. N[v] = R[v] /\ Below(R, v) /\ Len(R[v]) = 2 * c BY <1>1, <1>5, <3>1
    <3>3. PICK m \in Nat \ {0} : /\ Len(R[v]) = 2 * m
                                 /\ \A i \in 1..m : R[v + 1][i] = hash_nodes(R[v][2*i - 1], R[v][2*i])
      BY <3>2 DEF Below
    <3>4. m = c BY <1>1, <3>2, <3>3
    <3>5. \A i \in 1..c : N[v + 1][i] = hash_nodes(N[v][2*i - 1], N[v][2*i])
      BY <1>2, <3>2, <3>3, <3>4, Zenon
    <3>6. Len(N[v + 1]) = c \/ (c > 1 /\ Len(N[v + 1]) = c + 1 /\ N[v + 1][c + 1] = Zero)
      BY <1>1, <1>2
    <3>7. c \in Nat \ {0} /\ Len(N[v]) = 2 * c BY <1>1, <3>2
    <3> QED BY <2>3, <3>5, <3>6, <3>7 DEF Below
  <2> QED BY <1>1, <2>1, <2>2, <2>3
<1>7. N[1] = padded(base, n)
  <2>1. CASE v = 0
    <3>1. v + 1 = 1 /\ R[1] = base BY <1>1, <2>1
    <3>2. c = n BY <1>1, <3>1
    <3> QED BY <1>2, <3>1, <3>2
  <2>2. CASE v # 0
    <3>1. 1 \in 1..v BY <1>1, <2>2
    <3> QED BY <1>1, <1>5, <2>2, <3>1
  <2> QED BY <2>1, <2>2
<1>8. v + 1 \in Nat /\ half \in Nat \ {0} /\ v + 1 # 0 /\ v + 1 + 1 <= Len(N)
      /\ Len(N[v + 1 + 1]) = half
  BY <1>1, <1>2, <1>3
<1> QED BY <1>2, <1>3, <1>6, <1>7, <1>8 DEF HashLoop

\* The rounds of compute_root, as many of them as there are leaves.
Turn(s) == IF s.count > 1 THEN HashOneLevel(s) ELSE s

\* f holds the state of the loop after each of its first m turns.
Turns(f, m, s) == f = [k \in 0..m |-> IF k = 0 THEN s ELSE Turn(f[k - 1])]

\* There is such a function for every number of turns.
LEMMA TurnsExist ==
  ASSUME NEW s, NEW n \in Nat
  PROVE  \E f : Turns(f, n, s)
<1> DEFINE P == {m \in Nat : \E f : Turns(f, m, s)}
<1>1. 0 \in P
  <2> DEFINE f == [k \in 0..0 |-> s]
  <2>1. f = [k \in 0..0 |-> IF k = 0 THEN s ELSE Turn(f[k - 1])] OBVIOUS
  <2>2. Turns(f, 0, s) BY <2>1 DEF Turns
  <2> QED BY <2>2
<1>2. ASSUME NEW m \in Nat, m \in P PROVE m + 1 \in P
  <2>1. PICK f : Turns(f, m, s) BY <1>2
  <2>2. \A k \in 0..m : f[k] = IF k = 0 THEN s ELSE Turn(f[k - 1]) BY <2>1 DEF Turns
  <2> DEFINE g == [k \in 0..(m + 1) |-> IF k <= m THEN f[k] ELSE Turn(f[m])]
  <2>3. \A k \in 0..m : g[k] = f[k] OBVIOUS
  <2>4. g[m + 1] = Turn(g[m]) /\ g = [k \in 0..(m + 1) |-> g[k]] OBVIOUS
  <2> HIDE DEF g
  <2>5. ASSUME NEW k \in 0..(m + 1) PROVE g[k] = IF k = 0 THEN s ELSE Turn(g[k - 1])
    <3>1. CASE k = m + 1
      <4>1. k # 0 /\ k - 1 = m BY <3>1
      <4> QED BY <2>4, <3>1, <4>1
    <3>2. CASE k \in 0..m /\ k # 0
      <4>1. k - 1 \in 0..m BY <3>2
      <4>2. g[k] = f[k] /\ g[k - 1] = f[k - 1] BY <2>3, <3>2, <4>1
      <4> QED BY <2>2, <3>2, <4>2
    <3>3. CASE k = 0
      <4>1. g[0] = f[0] BY <2>3
      <4> QED BY <2>2, <3>3, <4>1
    <3> QED BY <3>1, <3>2, <3>3
  <2>6. [k \in 0..(m + 1) |-> IF k = 0 THEN s ELSE Turn(g[k - 1])] = [k \in 0..(m + 1) |-> g[k]]
    BY <2>5, Zenon
  <2>7. Turns(g, m + 1, s) BY <2>4, <2>6, Zenon DEF Turns
  <2> QED BY <2>7
<1>3. \A m \in Nat : m \in P
  <2> HIDE DEF P
  <2> QED BY <1>1, <1>2, SetInduction
<1> QED BY <1>3

\* compute_root builds a tree over the leaves, padded if there are several and their
\* number is odd, and returns its root; nothing that was in the levels matters.
LEMMA ComputesTree ==
  ASSUME NEW R, IsLevels(R), NEW n, n = Len(R[1]), R[1] # <<>>
  PROVE  \E T \in Nat :
           /\ IsLevels(compute_root(R).levels)
           /\ Tree(compute_root(R).levels, T)
           /\ compute_root(R).root = compute_root(R).levels[T + 1][1]
           /\ T <= n
           /\ compute_root(R).levels[1] = IF n = 1 THEN R[1] ELSE padded(R[1], n)
<1>1. n \in Nat /\ n # 0 /\ Len(R) \in Nat /\ Len(R) >= 1
  <2>1. PICK H : R \in Seq(Seq(H)) BY DEF IsLevels
  <2>2. Len(R) \in Nat /\ Len(R) >= 1 BY <2>1 DEF IsLevels
  <2>3. R[1] \in Seq(H) BY <2>1, <2>2
  <2>4. Len(R[1]) \in Nat \ {0} BY <2>3, EmptySeq
  <2> QED BY <2>2, <2>4
<1> DEFINE s == [levels |-> R, lvl |-> 0, count |-> n]
           Step(f) == [k \in 0..n |-> IF k = 0 THEN s
                         ELSE LET t == f[k - 1] IN IF t.count > 1 THEN HashOneLevel(t) ELSE t]
           loop == CHOOSE f : f = Step(f)
           end == loop[n]
<1>2. \A f : Step(f) = [k \in 0..n |-> IF k = 0 THEN s ELSE Turn(f[k - 1])]
  BY Zenon DEF Turn
<1>3. Turns(loop, n, s)
  <2>1. \E f : Turns(f, n, s) BY <1>1, TurnsExist
  <2>2. \E f : f = Step(f)
    <3>1. PICK f : Turns(f, n, s) BY <2>1
    <3>2. f = [k \in 0..n |-> IF k = 0 THEN s ELSE Turn(f[k - 1])] BY <3>1 DEF Turns
    <3>3. Step(f) = [k \in 0..n |-> IF k = 0 THEN s ELSE Turn(f[k - 1])] BY <1>2, Zenon
    <3> HIDE DEF Step, s
    <3>4. f = Step(f) BY <3>2, <3>3, Zenon
    <3> QED BY <3>4
  <2>3. loop = Step(loop)
    <3> HIDE DEF Step
    <3> QED BY <2>2
  <2> HIDE DEF loop, Step
  <2> QED BY <1>2, <2>3, Zenon DEF Turns
<1>4. compute_root(R) = [levels |-> end.levels, root |-> end.levels[end.lvl + 1][1]]
  BY Zenon DEF compute_root
<1> HIDE DEF loop
<1>5. loop[0] = s /\ \A k \in 0..(n - 1) : loop[k + 1] = Turn(loop[k])
  <2>1. \A k \in 0..n : loop[k] = IF k = 0 THEN s ELSE Turn(loop[k - 1]) BY <1>3 DEF Turns
  <2>2. loop[0] = s BY <1>1, <2>1
  <2>3. ASSUME NEW k \in 0..(n - 1) PROVE loop[k + 1] = Turn(loop[k])
    <3>1. k + 1 \in 0..n /\ k + 1 # 0 /\ k + 1 - 1 = k BY <1>1
    <3> QED BY <2>1, <3>1
  <2> QED BY <2>2, <2>3
<1>6. s.levels = R /\ s.lvl = 0 /\ s.count = n OBVIOUS
<1> HIDE DEF s
<1> DEFINE In(k) == HashLoop(loop[k].levels, loop[k].lvl, loop[k].count, R[1], n)
           P == {k \in Nat : k <= n => In(k) /\ (loop[k].count > 1 => loop[k].lvl = k)}
<1>7. 0 \in P
  <2>1. HashLoop(R, 0, n, R[1], n) BY <1>1 DEF HashLoop
  <2> QED BY <1>5, <1>6, <2>1
<1>8. ASSUME NEW k \in Nat, k \in P PROVE k + 1 \in P
  <2> SUFFICES ASSUME k + 1 <= n
               PROVE  In(k + 1) /\ (loop[k + 1].count > 1 => loop[k + 1].lvl = k + 1)
    OBVIOUS
  <2>1. k \in 0..(n - 1) /\ k <= n BY <1>1
  <2>2. loop[k + 1] = Turn(loop[k]) BY <1>5, <2>1
  <2>3. In(k) /\ (loop[k].count > 1 => loop[k].lvl = k) BY <1>8, <2>1
  <2>4. CASE loop[k].count > 1
    <3>1. loop[k + 1] = HashOneLevel(loop[k]) BY <2>2, <2>4 DEF Turn
    <3>2. PICK t : t = loop[k] /\ HashLoop(t.levels, t.lvl, t.count, R[1], n) /\ t.count > 1 /\ t.lvl = k
      BY <2>3, <2>4
    <3>3. /\ IsLevels(t.levels) /\ t.lvl \in Nat /\ t.count \in Nat \ {0}
          /\ t.lvl + 1 <= Len(t.levels) /\ Len(t.levels[t.lvl + 1]) = t.count
      BY <3>2 DEF HashLoop
    <3>4. /\ HashOneLevel(t).lvl = t.lvl + 1 /\ HashOneLevel(t).count \in Nat
          /\ Round(t.levels, t.lvl, t.count, HashOneLevel(t).levels, HashOneLevel(t).count)
      BY <3>3, RoundIs
    <3>5. HashLoop(HashOneLevel(t).levels, t.lvl + 1, HashOneLevel(t).count, R[1], n)
      BY <1>1, <3>2, <3>4, RoundKeepsLoop
    <3>6. loop[k + 1] = HashOneLevel(t) BY <3>1, <3>2
    <3> QED BY <3>2, <3>4, <3>5, <3>6
  <2>5. CASE ~(loop[k].count > 1)
    <3>1. loop[k + 1] = loop[k] BY <2>2, <2>5 DEF Turn
    <3> QED BY <2>3, <2>5, <3>1
  <2> QED BY <2>4, <2>5
<1>9. \A k \in Nat : k \in P
  <2> HIDE DEF P
  <2> QED BY <1>7, <1>8, SetInduction
<1>10. PICK E, T, c : E = end.levels /\ T = end.lvl /\ c = end.count /\ HashLoop(E, T, c, R[1], n)
                      /\ (c > 1 => T = n)
  BY <1>1, <1>9
<1>11. T \in Nat /\ c \in Nat \ {0} /\ c + T <= n BY <1>10 DEF HashLoop
<1>12. c = 1 BY <1>1, <1>10, <1>11
<1>13. Tree(E, T) /\ IsLevels(E) /\ T <= n BY <1>1, <1>10, <1>11, <1>12 DEF HashLoop, Tree
<1>14. E[1] = IF n = 1 THEN R[1] ELSE padded(R[1], n)
  <2>1. E[1] = IF T = 0 THEN R[1] ELSE padded(R[1], n) BY <1>10 DEF HashLoop
  <2>2. T = 0 => n = 1 BY <1>10, <1>12 DEF HashLoop
  <2>3. n = 1 => T = 0 BY <1>11
  <2> QED BY <2>1, <2>2, <2>3
<1>15. compute_root(R).levels = E /\ compute_root(R).root = E[T + 1][1]
  <2> HIDE DEF end
  <2> QED BY <1>4, <1>10
<1> QED BY <1>11, <1>13, <1>14, <1>15

-----------------------------------------------------------------------------
\* Halving makes a number of at least 2 smaller: the recursion of ilog2 ends.
LEMMA HalfBelow ==
  ASSUME NEW k \in Nat, k > 1
  PROVE  k \div 2 \in 0..(k - 1)
<1>1. k = 2 * (k \div 2) + (k % 2) OBVIOUS
<1>2. k % 2 \in 0..1 OBVIOUS
<1>3. k \div 2 \in Nat OBVIOUS
<1>4. PICK x \in Nat, b \in 0..1 : x = k \div 2 /\ k = 2 * x + b BY <1>1, <1>2, <1>3
<1>5. x \in 0..(k - 1) BY <1>4
<1> QED BY <1>4, <1>5

\* ilog2 is a number, so that reserve adds a number of levels.
LEMMA Log2IsNat == ASSUME NEW n \in Nat PROVE ilog2(n) \in Nat
<1> DEFINE Halve(k) == k \div 2
           Step(f, m) == [k \in 0..m |-> IF k <= 1 THEN 0 ELSE 1 + f[k \div 2]]
           P == {m \in Nat : \E f : f = Step(f, m)}
<1>1. 0 \in P
  <2> DEFINE f == [k \in 0..0 |-> 0]
  <2>1. f = Step(f, 0) OBVIOUS
  <2> QED BY <2>1
<1>2. ASSUME NEW m \in Nat, m \in P PROVE m + 1 \in P
  <2>1. PICK f : f = Step(f, m) BY <1>2
  <2>2. \A k \in 0..m : f[k] = IF k <= 1 THEN 0 ELSE 1 + f[Halve(k)] BY <2>1
  <2> DEFINE g == [k \in 0..(m + 1) |-> IF k <= m THEN f[k]
                                        ELSE IF m + 1 <= 1 THEN 0 ELSE 1 + f[Halve(m + 1)]]
  <2>3. \A k \in 0..m : g[k] = f[k] OBVIOUS
  <2>4. /\ g[m + 1] = IF m + 1 <= 1 THEN 0 ELSE 1 + f[Halve(m + 1)]
        /\ g = [k \in 0..(m + 1) |-> g[k]]
    OBVIOUS
  <2>5. \A k \in 0..(m + 1) : k > 1 => Halve(k) \in 0..m
    <3> SUFFICES ASSUME NEW k \in 0..(m + 1), k > 1 PROVE Halve(k) \in 0..m OBVIOUS
    <3>1. Halve(k) \in 0..(k - 1) BY HalfBelow
    <3> HIDE DEF Halve
    <3> QED BY <3>1
  <2> HIDE DEF g, Halve
  <2>6. ASSUME NEW k \in 0..(m + 1) PROVE g[k] = IF k <= 1 THEN 0 ELSE 1 + g[Halve(k)]
    <3>1. CASE k = m + 1 /\ k > 1
      <4>1. g[Halve(k)] = f[Halve(k)] BY <2>3, <2>5, <3>1
      <4> QED BY <2>4, <3>1, <4>1
    <3>2. CASE k = m + 1 /\ k <= 1 BY <2>4, <3>2
    <3>3. CASE k \in 0..m /\ k > 1
      <4>1. g[Halve(k)] = f[Halve(k)] /\ g[k] = f[k] BY <2>3, <2>5, <3>3
      <4> QED BY <2>2, <3>3, <4>1
    <3>4. CASE k \in 0..m /\ k <= 1 BY <2>2, <2>3, <3>4
    <3> QED BY <3>1, <3>2, <3>3, <3>4
  <2>7. g = Step(g, m + 1)
    <3>1. Step(g, m + 1) = [k \in 0..(m + 1) |-> IF k <= 1 THEN 0 ELSE 1 + g[Halve(k)]] BY DEF Halve
    <3>2. [k \in 0..(m + 1) |-> IF k <= 1 THEN 0 ELSE 1 + g[Halve(k)]] = [k \in 0..(m + 1) |-> g[k]]
      BY <2>6, Zenon
    <3> HIDE DEF Step
    <3> QED BY <2>4, <3>1, <3>2, Zenon
  <2> HIDE DEF Step
  <2>8. \E h : h = Step(h, m + 1) BY <2>7, Zenon
  <2> QED BY <2>8
<1>3. \A m \in Nat : m \in P
  <2> HIDE DEF P
  <2> QED BY <1>1, <1>2, SetInduction
<1> DEFINE log == CHOOSE f : f = Step(f, n)
<1>4. log = Step(log, n)
  <2>1. \E f : f = Step(f, n) BY <1>3
  <2> HIDE DEF Step
  <2> QED BY <2>1
<1>5. ilog2(n) = log[n] BY DEF ilog2
<1> HIDE DEF log
<1>6. \A k \in 0..n : log[k] = IF k <= 1 THEN 0 ELSE 1 + log[Halve(k)] BY <1>4
<1>7. \A k \in Nat : k > 1 => Halve(k) \in 0..(k - 1) BY HalfBelow
<1> HIDE DEF Halve
<1> DEFINE Q == {k \in Nat : \A j \in 0..k : j <= n => log[j] \in Nat}
<1>8. 0 \in Q BY <1>6
<1>9. ASSUME NEW k \in Nat, k \in Q PROVE k + 1 \in Q
  <2> SUFFICES ASSUME NEW j \in 0..(k + 1), j <= n PROVE log[j] \in Nat OBVIOUS
  <2>1. CASE j <= 1 BY <1>6, <2>1
  <2>2. CASE j > 1
    <3>1. Halve(j) \in 0..k /\ Halve(j) <= n BY <1>7, <2>2
    <3>2. log[Halve(j)] \in Nat BY <1>9, <3>1
    <3>3. log[j] = 1 + log[Halve(j)] BY <1>6, <2>2
    <3> QED BY <3>2, <3>3
  <2> QED BY <2>1, <2>2
<1>10. \A k \in Nat : k \in Q
  <2> HIDE DEF Q
  <2> QED BY <1>8, <1>9, SetInduction
<1> QED BY <1>5, <1>10

\* A new tree has no leaves, however much is reserved.
LEMMA ReservedIs ==
  ASSUME NEW n \in Nat
  PROVE  IsLevels(reserve(new, n)) /\ reserve(new, n)[1] = <<>>
<1> DEFINE missing == IF n = 0 \/ Len(new) >= max_levels(n) THEN 0 ELSE max_levels(n) - Len(new)
           more == [i \in 1..missing |-> <<>>]
<1>1. new \in Seq(Seq({})) /\ Len(new) = 1 /\ new[1] = <<>> BY DEF new
<1>2. missing \in Nat
  <2>1. CASE n = 0 BY <2>1
  <2>2. CASE n # 0
    <3>1. ilog2(n) \in Nat /\ ilog2(n - 1) \in Nat
      <4>1. n - 1 \in Nat BY <2>2
      <4> QED BY <4>1, Log2IsNat
    <3>2. max_levels(n) \in Nat
      <4>1. max_levels(n) = ilog2(n) + 1 \/ max_levels(n) = ilog2(n - 1) + 2
        BY Zenon DEF max_levels
      <4> QED BY <3>1, <4>1
    <3> QED BY <1>1, <3>2
  <2> QED BY <2>1, <2>2
<1>3. reserve(new, n) = new \o more BY Zenon DEF reserve
<1> HIDE DEF missing
<1>4. more \in Seq(Seq({}))
  <2>1. more \in [1..missing -> Seq({})] OBVIOUS
  <2> QED BY <1>2, <2>1
<1> HIDE DEF more
<1>5. /\ new \o more \in Seq(Seq({})) /\ Len(new \o more) = Len(new) + Len(more)
      /\ (new \o more)[1] = new[1]
  <2> DEFINE S == Seq({})
  <2>1. new \in Seq(S) /\ more \in Seq(S) BY <1>1, <1>4
  <2> HIDE DEF S
  <2>2. /\ new \o more \in Seq(S) /\ Len(new \o more) = Len(new) + Len(more)
        /\ \A i \in 1..(Len(new) + Len(more)) :
             (new \o more)[i] = IF i <= Len(new) THEN new[i] ELSE more[i - Len(new)]
    BY <2>1, ConcatProperties
  <2>3. 1 \in 1..(Len(new) + Len(more)) /\ 1 <= Len(new)
    <3>1. Len(more) \in Nat BY <2>1
    <3> QED BY <1>1, <3>1
  <2>4. (new \o more)[1] = new[1] BY <2>2, <2>3, Zenon
  <2> QED BY <2>2, <2>4 DEF S
<1>6. Len(more) \in Nat BY <1>4
<1> QED BY <1>1, <1>3, <1>5, <1>6 DEF IsLevels

\* A leaf is added at the end of the leaves.
PushedRow(B, row, d, n) ==
  /\ Len(row) = n /\ Len(B) = n + 1
  /\ \A i \in 1..n : B[i] = row[i]
  /\ B[n + 1] = hash_leaf(d)

\* push_leaf does that.
LEMMA PushedIs ==
  ASSUME NEW R, IsLevels(R), NEW d
  PROVE  /\ IsLevels(push_leaf(R, d)) /\ Len(R[1]) \in Nat
         /\ PushedRow(push_leaf(R, d)[1], R[1], d, Len(R[1]))
<1>1. PICK H : R \in Seq(Seq(H)) /\ Len(R) >= 1 BY DEF IsLevels
<1> DEFINE K == H \cup {hash_leaf(d)}
           row == Append(R[1], hash_leaf(d))
           N == [R EXCEPT ![1] = row]
           n == Len(R[1])
<1>2. Len(R) \in Nat /\ 1 \in 1..Len(R) /\ R[1] \in Seq(H) BY <1>1
<1>3. H \subseteq K /\ hash_leaf(d) \in K OBVIOUS
<1> HIDE DEF K
<1>4. R[1] \in Seq(K) BY <1>2, <1>3, SeqMonotonic
<1>5. /\ row \in Seq(K) /\ Len(row) = n + 1 /\ n \in Nat
      /\ \A i \in 1..n : row[i] = R[1][i]
      /\ row[n + 1] = hash_leaf(d)
  <2>1. n \in Nat BY <1>2
  <2> QED BY <1>3, <1>4, <2>1, AppendProperties
<1>a. n = Len(R[1]) OBVIOUS
<1> HIDE DEF row, n
<1>6. R \in Seq(Seq(K))
  <2>1. \A x \in Seq(H) : x \in Seq(K) BY <1>3, SeqMonotonic
  <2>2. Seq(H) \subseteq Seq(K) BY <2>1
  <2> QED BY <1>1, <2>2, SeqMonotonic
<1>7. N \in Seq(Seq(K)) /\ Len(N) = Len(R) /\ N[1] = row
  <2> DEFINE S == Seq(K)
  <2>1. R \in Seq(S) /\ row \in S BY <1>5, <1>6
  <2> HIDE DEF S
  <2>2. /\ [R EXCEPT ![1] = row] \in Seq(S) /\ Len([R EXCEPT ![1] = row]) = Len(R)
        /\ [R EXCEPT ![1] = row][1] = row
    BY <1>2, <2>1, ExceptSeq
  <2> QED BY <2>2 DEF S
<1>8. push_leaf(R, d) = N BY Zenon DEF push_leaf, row
<1> HIDE DEF N
<1>9. PushedRow(N[1], R[1], d, n) BY <1>5, <1>7, <1>a, Zenon DEF PushedRow
<1>10. IsLevels(N) BY <1>1, <1>7 DEF IsLevels
<1> QED BY <1>5, <1>8, <1>9, <1>10, <1>a, Zenon

\* clear leaves no leaves.
LEMMA ClearedIs ==
  ASSUME NEW R, IsLevels(R)
  PROVE  IsLevels(clear(R)) /\ clear(R)[1] = <<>>
<1>1. Len(R) \in Nat \ {0} /\ DOMAIN R = 1..Len(R) BY LevelsType DEF IsLevels
<1> DEFINE N == [l \in 1..Len(R) |-> <<>>]
<1>2. clear(R) = N BY <1>1 DEF clear
<1>3. /\ N = [l \in 1..Len(R) |-> N[l]] /\ N[1] = <<>>
      /\ \A l \in 1..Len(R) : N[l] \in Seq({})
  <2>1. 1 \in 1..Len(R) BY <1>1
  <2> QED BY <2>1
<1> HIDE DEF N
<1>4. IsLevels(N) BY <1>1, <1>3, LevelsOf
<1> QED BY <1>2, <1>3, <1>4

-----------------------------------------------------------------------------
\* Doubling instead of multiplying by powers of two.
LEMMA FirstLeafIs ==
  ASSUME NEW i \in Nat
  PROVE  /\ FirstLeaf(0, i) = i
         /\ \A l \in Nat : FirstLeaf(l, i) \in Nat /\ FirstLeaf(l + 1, i) = 2 * FirstLeaf(l, i)
<1> DEFINE F == [n \in Nat |-> 2 * n]
           Step(f) == [l \in Nat |-> IF l = 0 THEN i ELSE 2 * f[l - 1]]
           first == CHOOSE f : f = Step(f)
<1>1. F \in [Nat -> Nat] OBVIOUS
<1>2. PICK g \in [Nat -> Nat] : Repeats(g, Nat, i, F)
  <2> HIDE DEF F
  <2> QED BY <1>1, Recursion
<1>3. \A l \in Nat : g[l] = IF l = 0 THEN i ELSE 2 * g[l - 1]
  <2> SUFFICES ASSUME NEW l \in Nat PROVE g[l] = IF l = 0 THEN i ELSE 2 * g[l - 1] OBVIOUS
  <2>1. CASE l = 0 BY <1>2, <2>1 DEF Repeats
  <2>2. CASE l # 0
    <3>1. l - 1 \in Nat /\ g[l - 1] \in Nat BY <2>2
    <3>2. g[l] = F[g[l - 1]] BY <1>2, <2>2 DEF Repeats
    <3> QED BY <2>2, <3>1, <3>2
  <2> QED BY <2>1, <2>2
<1>4. g = Step(g) BY <1>2, <1>3
<1>5. first = Step(first) BY <1>4
<1>6. \A l : FirstLeaf(l, i) = first[l] BY Zenon DEF FirstLeaf
<1> HIDE DEF first
<1>7. first[0] = i /\ \A l \in Nat : first[l + 1] = 2 * first[l]
  <2>1. first[0] = i BY <1>5
  <2>2. ASSUME NEW l \in Nat PROVE first[l + 1] = 2 * first[l]
    <3>1. l + 1 \in Nat /\ l + 1 # 0 /\ l + 1 - 1 = l OBVIOUS
    <3>2. first[l + 1] = IF l + 1 = 0 THEN i ELSE 2 * first[l + 1 - 1] BY <1>5, <3>1
    <3> QED BY <3>1, <3>2
  <2> QED BY <2>1, <2>2
<1> DEFINE P == {l \in Nat : first[l] \in Nat}
<1>8. \A l \in Nat : l \in P
  <2>1. 0 \in P BY <1>7
  <2>2. ASSUME NEW l \in Nat, l \in P PROVE l + 1 \in P BY <1>7, <2>2
  <2> HIDE DEF P
  <2> QED BY <2>1, <2>2, SetInduction
<1> QED BY <1>6, <1>7, <1>8

\* The first leaf under a node is the first leaf under its left child.
LEMMA FirstOfChild ==
  ASSUME NEW l \in Nat, NEW i \in Nat
  PROVE  FirstLeaf(l + 1, i) = FirstLeaf(l, 2 * i)
<1> DEFINE P == {k \in Nat : FirstLeaf(k + 1, i) = FirstLeaf(k, 2 * i)}
<1>0. 2 * i \in Nat OBVIOUS
<1>1. 0 \in P
  <2>1. FirstLeaf(0 + 1, i) = 2 * FirstLeaf(0, i) /\ FirstLeaf(0, i) = i BY FirstLeafIs
  <2>2. FirstLeaf(0, 2 * i) = 2 * i BY <1>0, FirstLeafIs
  <2> QED BY <2>1, <2>2
<1>2. ASSUME NEW k \in Nat, k \in P PROVE k + 1 \in P
  <2>1. k + 1 \in Nat OBVIOUS
  <2>2. FirstLeaf(k + 1 + 1, i) = 2 * FirstLeaf(k + 1, i) BY <2>1, FirstLeafIs
  <2>3. FirstLeaf(k + 1, 2 * i) = 2 * FirstLeaf(k, 2 * i) BY <1>0, FirstLeafIs
  <2>4. FirstLeaf(k + 1, i) = FirstLeaf(k, 2 * i) BY <1>2
  <2> QED BY <2>1, <2>2, <2>3, <2>4
<1>3. \A k \in Nat : k \in P
  <2> HIDE DEF P
  <2> QED BY <1>1, <1>2, SetInduction
<1> QED BY <1>3

\* An index to the left of the first leaf of node x at level l belongs to a node before x.
LEMMA ShiftBefore ==
  ASSUME NEW j \in Nat, NEW l \in Nat, NEW x \in Nat, j < FirstLeaf(l, x)
  PROVE  Shift(j, l) < x
<1> DEFINE P == {k \in Nat : \A y \in Nat : j < FirstLeaf(k, y) => Shift(j, k) < y}
<1>1. 0 \in P
  <2>1. Shift(j, 0) = j BY ShiftIs
  <2>2. \A y \in Nat : FirstLeaf(0, y) = y BY FirstLeafIs
  <2> QED BY <2>1, <2>2
<1>2. ASSUME NEW k \in Nat, k \in P PROVE k + 1 \in P
  <2> SUFFICES ASSUME NEW y \in Nat, j < FirstLeaf(k + 1, y) PROVE Shift(j, k + 1) < y
    OBVIOUS
  <2>1. 2 * y \in Nat /\ FirstLeaf(k + 1, y) = FirstLeaf(k, 2 * y) BY FirstOfChild
  <2>2. Shift(j, k) < 2 * y BY <1>2, <2>1
  <2>3. Shift(j, k) \in Nat /\ Shift(j, k + 1) = Shift(j, k) \div 2 BY ShiftIs
  <2>4. Shift(j, k) \div 2 \in 0..(y - 1) BY <2>2, <2>3, Halves
  <2> QED BY <2>3, <2>4
<1>3. \A k \in Nat : k \in P
  <2> HIDE DEF P
  <2> QED BY <1>1, <1>2, SetInduction
<1> QED BY <1>3

-----------------------------------------------------------------------------
\* How many nodes of level l have leaves under them.
IsWidth(R, l, w) ==
  /\ w \in Nat
  /\ IF l = 0 THEN w = Len(R[1]) ELSE Len(R[l]) = 2 * w

\* They are the nodes whose first leaf exists.
LEMMA Widths ==
  ASSUME NEW R, IsLevels(R), NEW T, Tree(R, T)
  PROVE  \A l \in 0..T : \E w \in Nat :
           IsWidth(R, l, w) /\ \A i \in Nat : FirstLeaf(l, i) >= Len(R[1]) <=> i >= w
<1>1. /\ T \in Nat /\ Len(R) \in Nat /\ T + 1 <= Len(R) /\ Len(R[1]) \in Nat
      /\ \A l \in 1..T : Below(R, l)
  BY LevelsType DEF Tree, IsLevels
<1> DEFINE Good(l, w) == IsWidth(R, l, w) /\ \A i \in Nat : FirstLeaf(l, i) >= Len(R[1]) <=> i >= w
           P == {l \in Nat : l <= T => \E w \in Nat : Good(l, w)}
<1>2. 0 \in P
  <2>1. \A i \in Nat : FirstLeaf(0, i) = i BY FirstLeafIs
  <2>2. Good(0, Len(R[1])) BY <1>1, <2>1 DEF IsWidth
  <2> QED BY <1>1, <2>2
<1>3. ASSUME NEW l \in Nat, l \in P PROVE l + 1 \in P
  <2> SUFFICES ASSUME l + 1 <= T PROVE \E w \in Nat : Good(l + 1, w) OBVIOUS
  <2>1. PICK w \in Nat : Good(l, w) BY <1>1, <1>3
  <2>2. l + 1 \in 1..T /\ l + 1 \in Nat BY <1>1
  <2>3. PICK m \in Nat \ {0} : Pairs(R, l + 1, m) BY <1>1, <2>2, Children
  <2>4. Len(R[l + 1]) = 2 * m BY <2>3 DEF Pairs
  <2>5. 2 * m = w \/ 2 * m = w + 1
    <3>1. CASE l = 0 BY <2>1, <2>4, <3>1 DEF IsWidth
    <3>2. CASE l # 0
      <4>1. l \in 1..T BY <1>1, <3>2
      <4>2. PICK u \in Nat \ {0} : Pairs(R, l, u) BY <1>1, <4>1, Children
      <4>3. Len(R[l]) = 2 * u /\ Len(R[l + 1]) \in {u, u + 1} BY <4>2 DEF Pairs
      <4>4. Len(R[l]) = 2 * w BY <2>1, <3>2 DEF IsWidth
      <4>5. u = w BY <4>3, <4>4
      <4> QED BY <2>4, <4>3, <4>5
    <3> QED BY <3>1, <3>2
  <2>6. ASSUME NEW i \in Nat PROVE FirstLeaf(l + 1, i) >= Len(R[1]) <=> i >= m
    <3>1. FirstLeaf(l + 1, i) = FirstLeaf(l, 2 * i) /\ 2 * i \in Nat BY FirstOfChild
    <3>2. FirstLeaf(l, 2 * i) >= Len(R[1]) <=> 2 * i >= w BY <2>1, <3>1
    <3>3. 2 * i >= w <=> i >= m BY <2>5
    <3> QED BY <3>1, <3>2, <3>3
  <2>7. IsWidth(R, l + 1, m) BY <2>2, <2>4 DEF IsWidth
  <2> QED BY <2>6, <2>7
<1>4. \A l \in Nat : l \in P
  <2> HIDE DEF P
  <2> QED BY <1>2, <1>3, SetInduction
<1> QED BY <1>1, <1>4

\* compute_root stops at the least height that has room for all leaves.
LEMMA HeightIs ==
  ASSUME NEW R, IsLevels(R), NEW T, Tree(R, T), T <= Len(R[1])
  PROVE  Height(Len(R[1])) = T
<1>1. /\ T \in Nat /\ Len(R) \in Nat /\ T + 1 <= Len(R) /\ Len(R[1]) \in Nat
      /\ Len(R[T + 1]) = 1 /\ \A l \in 1..T : Below(R, l)
  BY LevelsType DEF Tree, IsLevels
<1> DEFINE n == Len(R[1])
           Least(k) == FirstLeaf(k, 1) >= n /\ \A j \in 0..(k - 1) : FirstLeaf(j, 1) < n
<1>2. FirstLeaf(T, 1) >= n
  <2>1. PICK w \in Nat : IsWidth(R, T, w) /\ \A i \in Nat : FirstLeaf(T, i) >= n <=> i >= w
    BY <1>1, Widths
  <2>2. w = 1
    <3>1. CASE T = 0
      <4>1. T + 1 = 1 BY <3>1
      <4>2. Len(R[1]) = 1 BY <1>1, <4>1
      <4> QED BY <2>1, <3>1, <4>2 DEF IsWidth
    <3>2. CASE T # 0
      <4>1. T \in 1..T BY <1>1, <3>2
      <4>2. PICK m \in Nat \ {0} : Pairs(R, T, m) BY <1>1, <4>1, Children
      <4>3. Len(R[T]) = 2 * m /\ Len(R[T + 1]) \in {m, m + 1} BY <4>2 DEF Pairs
      <4>4. Len(R[T]) = 2 * w BY <2>1, <3>2 DEF IsWidth
      <4> QED BY <1>1, <4>3, <4>4
    <3> QED BY <3>1, <3>2
  <2> QED BY <2>1, <2>2
<1>3. ASSUME NEW j \in 0..(T - 1) PROVE FirstLeaf(j, 1) < n
  <2>1. j \in 0..T /\ j + 1 \in 1..T BY <1>1
  <2>2. PICK w \in Nat : IsWidth(R, j, w) /\ \A i \in Nat : FirstLeaf(j, i) >= n <=> i >= w
    BY <2>1, Widths
  <2>3. PICK m \in Nat \ {0} : Pairs(R, j + 1, m) BY <1>1, <2>1, Children
  <2>4. Len(R[j + 1]) = 2 * m BY <2>3 DEF Pairs
  <2>5. w > 1
    <3>1. CASE j = 0 BY <2>2, <2>4, <3>1 DEF IsWidth
    <3>2. CASE j # 0
      <4>1. j \in 1..T /\ j \in Nat BY <1>1, <3>2
      <4>2. PICK u \in Nat \ {0} :
              Len(R[j]) = 2 * u /\ (Len(R[j + 1]) = u \/ u > 1)
        BY <1>1, <4>1 DEF Below
      <4>3. Len(R[j]) = 2 * w BY <2>2, <3>2 DEF IsWidth
      <4> QED BY <2>4, <4>2, <4>3
    <3> QED BY <3>1, <3>2
  <2>6. ~(FirstLeaf(j, 1) >= n) BY <2>2, <2>5
  <2>7. FirstLeaf(j, 1) \in Nat BY <2>1, FirstLeafIs
  <2> QED BY <1>1, <2>6, <2>7
<1>4. T \in 0..n /\ Least(T) BY <1>1, <1>2, <1>3
<1>5. ASSUME NEW k \in 0..n, Least(k) PROVE k = T
  <2>0. \A l \in Nat : FirstLeaf(l, 1) < n => ~(FirstLeaf(l, 1) >= n)
    <3>1. \A l \in Nat : FirstLeaf(l, 1) \in Nat BY FirstLeafIs
    <3>2. \A a, b \in Nat : a < b => ~(a >= b) OBVIOUS
    <3>3. n \in Nat BY <1>1
    <3> HIDE DEF n
    <3> QED BY <3>1, <3>2, <3>3, Zenon
  <2>1. CASE k < T
    <3>1. k \in 0..(T - 1) BY <1>1, <2>1
    <3>2. FirstLeaf(k, 1) < n BY <1>3, <3>1
    <3> QED BY <1>1, <1>5, <2>0, <3>2
  <2>2. CASE T < k
    <3>1. T \in 0..(k - 1) BY <1>1, <2>2
    <3>2. FirstLeaf(T, 1) < n BY <1>5, <3>1
    <3> QED BY <1>1, <1>2, <2>0, <3>2
  <2> QED BY <1>1, <2>1, <2>2
<1>6. Height(n) = CHOOSE k \in 0..n : Least(k) BY Zenon DEF Height
<1> HIDE DEF Least, n
<1>7. (CHOOSE k \in 0..n : Least(k)) \in 0..n /\ Least(CHOOSE k \in 0..n : Least(k)) BY <1>4
<1>8. Height(n) = T BY <1>5, <1>6, <1>7
<1> QED BY <1>8 DEF n

-----------------------------------------------------------------------------
\* The rows of the reference exist: each is computed from the one below.
RefRow(ls, f, lvl) ==
  [i \in Nat |->
    IF FirstLeaf(lvl, i) >= Len(ls) THEN Zero
    ELSE IF lvl = 0 THEN LeafHash(ls[i + 1])
    ELSE hash_nodes(f[lvl - 1][2*i], f[lvl - 1][2*i + 1])]

\* f holds the rows of the reference, from the leaves up to the given depth.
RefRows(ls, f, depth) == f = [lvl \in 0..depth |-> RefRow(ls, f, lvl)]

\* There is such a function, and RefNode is its last row.
LEMMA RefRowsExist ==
  ASSUME NEW ls, NEW depth \in Nat
  PROVE  \E f : RefRows(ls, f, depth) /\ RefNode(ls, depth) = f[depth][0]
<1> DEFINE P == {m \in Nat : \E f : RefRows(ls, f, m)}
<1>0. \A lvl, f, g : f[lvl - 1] = g[lvl - 1] => RefRow(ls, f, lvl) = RefRow(ls, g, lvl)
  BY ZenonT(60) DEF RefRow
<1>a. \A f, g : RefRow(ls, f, 0) = RefRow(ls, g, 0) BY Zenon DEF RefRow
<1>1. 0 \in P
  <2> DEFINE f == [lvl \in 0..0 |-> RefRow(ls, 0, 0)]
  <2>1. \A lvl \in 0..0 : RefRow(ls, f, lvl) = RefRow(ls, 0, 0)
    <3>1. RefRow(ls, f, 0) = RefRow(ls, 0, 0) BY <1>a, Zenon
    <3> HIDE DEF f
    <3> QED BY <3>1
  <2>2. [lvl \in 0..0 |-> RefRow(ls, f, lvl)] = [lvl \in 0..0 |-> RefRow(ls, 0, 0)] BY <2>1, Zenon
  <2>3. f = [lvl \in 0..0 |-> RefRow(ls, f, lvl)] BY <2>2, Zenon
  <2> HIDE DEF f
  <2>4. RefRows(ls, f, 0) BY <2>3 DEF RefRows
  <2> QED BY <2>4
<1>2. ASSUME NEW m \in Nat, m \in P PROVE m + 1 \in P
  <2>1. PICK f : RefRows(ls, f, m) BY <1>2
  <2>2. \A lvl \in 0..m : f[lvl] = RefRow(ls, f, lvl) BY <2>1 DEF RefRows
  <2> DEFINE g == [lvl \in 0..(m + 1) |-> IF lvl <= m THEN f[lvl] ELSE RefRow(ls, f, m + 1)]
  <2>3. \A lvl \in 0..m : g[lvl] = f[lvl] OBVIOUS
  <2>4. g[m + 1] = RefRow(ls, f, m + 1) /\ g = [lvl \in 0..(m + 1) |-> g[lvl]] OBVIOUS
  <2> HIDE DEF g
  <2>5. ASSUME NEW lvl \in 0..(m + 1) PROVE g[lvl] = RefRow(ls, g, lvl)
    <3>1. CASE lvl = 0
      <4>1. g[0] = f[0] /\ f[0] = RefRow(ls, f, 0) BY <2>2, <2>3
      <4> QED BY <1>a, <3>1, <4>1, Zenon
    <3>2. CASE lvl # 0
      <4>1. lvl - 1 \in 0..m BY <3>2
      <4>2. g[lvl - 1] = f[lvl - 1] BY <2>3, <4>1
      <4>3. RefRow(ls, g, lvl) = RefRow(ls, f, lvl) BY <1>0, <4>2, Zenon
      <4>4. g[lvl] = RefRow(ls, f, lvl)
        <5>1. CASE lvl = m + 1 BY <2>4, <5>1
        <5>2. CASE lvl \in 0..m BY <2>2, <2>3, <5>2
        <5> QED BY <5>1, <5>2
      <4> QED BY <4>3, <4>4
    <3> QED BY <3>1, <3>2
  <2>6. [lvl \in 0..(m + 1) |-> RefRow(ls, g, lvl)] = [lvl \in 0..(m + 1) |-> g[lvl]]
    BY <2>5, Zenon
  <2>7. RefRows(ls, g, m + 1) BY <2>4, <2>6, Zenon DEF RefRows
  <2> QED BY <2>7
<1>3. \A m \in Nat : m \in P
  <2> HIDE DEF P
  <2> QED BY <1>1, <1>2, SetInduction
<1> DEFINE row == CHOOSE f : f = [lvl \in 0..depth |-> RefRow(ls, f, lvl)]
<1>4. RefRows(ls, row, depth)
  <2>1. \E f : f = [lvl \in 0..depth |-> RefRow(ls, f, lvl)] BY <1>3 DEF RefRows
  <2>2. row = [lvl \in 0..depth |-> RefRow(ls, row, lvl)] BY <2>1
  <2> HIDE DEF row
  <2> QED BY <2>2 DEF RefRows
<1>5. RefNode(ls, depth) = row[depth][0] BY Zenon DEF RefNode, RefRow
<1> HIDE DEF row
<1> QED BY <1>4, <1>5

\* The rows of the reference are the levels of the tree, with padding after them.
LEMMA RowsAreLevels ==
  ASSUME NEW R, IsLevels(R), NEW T, Tree(R, T), NEW ls, Len(ls) = Len(R[1]),
         \A i \in 1..Len(ls) : R[1][i] = LeafHash(ls[i])
  PROVE  RefNode(ls, T) = R[T + 1][1]
<1>1. /\ T \in Nat /\ Len(R) \in Nat /\ T + 1 <= Len(R) /\ Len(R[1]) \in Nat
      /\ Len(R[T + 1]) = 1 /\ \A l \in 1..T : Below(R, l)
  BY LevelsType DEF Tree, IsLevels
<1>2. PICK f : RefRows(ls, f, T) /\ RefNode(ls, T) = f[T][0] BY <1>1, RefRowsExist
<1>3. \A l \in 0..T : f[l] = RefRow(ls, f, l) BY <1>2 DEF RefRows
<1> DEFINE At(l, i) == IF i < Len(R[l + 1]) THEN R[l + 1][i + 1] ELSE Zero
           P == {l \in Nat : l <= T => \A i \in Nat : f[l][i] = At(l, i)}
<1>4. 0 \in P
  <2> SUFFICES ASSUME NEW i \in Nat PROVE f[0][i] = At(0, i) OBVIOUS
  <2>1. f[0][i] = IF FirstLeaf(0, i) >= Len(ls) THEN Zero ELSE LeafHash(ls[i + 1])
    <3>1. 0 \in 0..T BY <1>1
    <3> QED BY <1>3, <3>1 DEF RefRow
  <2>2. FirstLeaf(0, i) = i BY FirstLeafIs
  <2>3. CASE i >= Len(ls) BY <1>1, <2>1, <2>2, <2>3
  <2>4. CASE ~(i >= Len(ls))
    <3>1. i + 1 \in 1..Len(ls) /\ i < Len(R[0 + 1]) BY <1>1, <2>4
    <3>2. R[0 + 1][i + 1] = LeafHash(ls[i + 1]) BY <3>1
    <3> QED BY <2>1, <2>2, <2>4, <3>1, <3>2, Zenon
  <2> QED BY <2>3, <2>4
<1>5. ASSUME NEW l \in Nat, l \in P PROVE l + 1 \in P
  <2> SUFFICES ASSUME l + 1 <= T, NEW i \in Nat PROVE f[l + 1][i] = At(l + 1, i) OBVIOUS
  <2>1. /\ l + 1 \in 0..T /\ l + 1 \in 1..T /\ l + 1 \in Nat /\ l + 1 # 0 /\ l + 1 - 1 = l
        /\ l <= T
    BY <1>1
  <2>2. f[l + 1][i] = IF FirstLeaf(l + 1, i) >= Len(ls) THEN Zero
                      ELSE hash_nodes(f[l][2*i], f[l][2*i + 1])
    <3>1. f[l + 1] = RefRow(ls, f, l + 1) BY <1>3, <2>1
    <3>2. f[l + 1][i] = IF FirstLeaf(l + 1, i) >= Len(ls) THEN Zero
                        ELSE IF l + 1 = 0 THEN LeafHash(ls[i + 1])
                        ELSE hash_nodes(f[l + 1 - 1][2*i], f[l + 1 - 1][2*i + 1])
      BY <3>1 DEF RefRow
    <3> QED BY <2>1, <3>2, Zenon
  <2>3. PICK w \in Nat : IsWidth(R, l + 1, w)
                         /\ \A k \in Nat : FirstLeaf(l + 1, k) >= Len(R[1]) <=> k >= w
    BY <2>1, Widths
  <2>4. PICK m \in Nat \ {0} : Pairs(R, l + 1, m) BY <1>1, <2>1, Children
  <2>5. w = m
    <3>1. Len(R[l + 1]) = 2 * m BY <2>4 DEF Pairs
    <3>2. Len(R[l + 1]) = 2 * w BY <2>1, <2>3 DEF IsWidth
    <3> QED BY <3>1, <3>2
  <2>6. CASE i >= m
    <3>1. f[l + 1][i] = Zero
      <4>1. FirstLeaf(l + 1, i) >= Len(ls) BY <2>3, <2>5, <2>6, Zenon
      <4> QED BY <2>2, <4>1, Zenon
    <3>2. i < Len(R[l + 1 + 1]) => R[l + 1 + 1][i + 1] = Zero
      <4> SUFFICES ASSUME i < Len(R[l + 1 + 1]) PROVE R[l + 1 + 1][i + 1] = Zero OBVIOUS
      <4>1. Len(R[l + 1 + 1]) \in Nat
        <5>1. Len(R[l + 1 + 1]) \in {m, m + 1} BY <2>4 DEF Pairs
        <5> QED BY <5>1
      <4>2. i \in 0..(Len(R[l + 1 + 1]) - 1) BY <4>1
      <4> QED BY <2>4, <2>6, <4>2 DEF Pairs
    <3> QED BY <3>1, <3>2
  <2>7. CASE ~(i >= m)
    <3>1. i \in 0..(m - 1) BY <2>7
    <3>2. /\ R[l + 1 + 1][i + 1] = hash_nodes(R[l + 1][2*i + 1], R[l + 1][2*i + 2])
          /\ Len(R[l + 1]) = 2 * m /\ Len(R[l + 1 + 1]) \in {m, m + 1}
      BY <2>4, <3>1, SMTT(30) DEF Pairs
    <3>3. i < Len(R[l + 1 + 1]) BY <3>1, <3>2, SMTT(30)
    <3>4. f[l][2*i] = R[l + 1][2*i + 1] /\ f[l][2*i + 1] = R[l + 1][2*i + 2]
      <4>1. /\ 2*i \in Nat /\ 2*i + 1 \in Nat /\ 2*i + 1 + 1 = 2*i + 2
            /\ 2*i < Len(R[l + 1]) /\ 2*i + 1 < Len(R[l + 1])
        BY <3>1, <3>2
      <4>2. \A k \in Nat : f[l][k] = At(l, k) BY <1>5, <2>1
      <4>3. f[l][2*i] = At(l, 2*i) /\ f[l][2*i + 1] = At(l, 2*i + 1) BY <4>1, <4>2, Zenon
      <4> QED BY <4>1, <4>3, Zenon
    <3>5. ~(FirstLeaf(l + 1, i) >= Len(ls)) BY <2>3, <2>5, <2>7, Zenon
    <3>6. f[l + 1][i] = hash_nodes(f[l][2*i], f[l][2*i + 1]) BY <2>2, <3>5, Zenon
    <3> QED BY <3>2, <3>3, <3>4, <3>6, Zenon
  <2> QED BY <2>6, <2>7
<1>6. \A l \in Nat : l \in P
  <2> HIDE DEF P
  <2> QED BY <1>4, <1>5, SetInduction
<1>7. f[T][0] = At(T, 0) BY <1>1, <1>6
<1>8. 0 < Len(R[T + 1]) /\ 0 + 1 = 1 BY <1>1
<1> QED BY <1>2, <1>7, <1>8, Zenon

-----------------------------------------------------------------------------
\* Level 0 is what was pushed, padding included.
LeavesInv ==
  /\ IsLevels(levels)
  /\ leaves \in Seq(Data \cup {Pad})
  /\ Len(levels[1]) = Len(leaves)
  /\ \A i \in 1..Len(leaves) : levels[1][i] = LeafHash(leaves[i])

\* A root stands for a tree that the lower levels are.
RootInv ==
  Computed => \E T \in Nat : Tree(levels, T) /\ T <= Len(leaves) /\ root = levels[T + 1][1]

\* The inductive invariant of the tree.
TreeInv == LeavesInv /\ RootInv

\* A new tree is empty.
LEMMA TreeInitial == Init => TreeInv
<1> SUFFICES ASSUME Init PROVE TreeInv OBVIOUS
<1>1. reserved \in Nat /\ levels = reserve(new, reserved) /\ root = NoRoot /\ leaves = <<>>
  BY MerkleAssumption DEF Init
<1>2. IsLevels(levels) /\ levels[1] = <<>> BY <1>1, ReservedIs
<1>3. leaves \in Seq(Data \cup {Pad}) /\ Len(leaves) = 0 BY <1>1
<1>4. ~Computed BY <1>1 DEF Computed
<1> QED BY <1>1, <1>2, <1>3, <1>4 DEF TreeInv, LeavesInv, RootInv

\* push_leaf adds a leaf and makes the root stale.
LEMMA PushStep == ASSUME TreeInv, NEW d \in Data, PushLeaf(d) PROVE TreeInv'
<1>1. /\ levels' = push_leaf(levels, d) /\ leaves' = Append(leaves, d) /\ root' = NoRoot
      /\ IsLevels(levels) /\ leaves \in Seq(Data \cup {Pad}) /\ Len(levels[1]) = Len(leaves)
      /\ \A i \in 1..Len(leaves) : levels[1][i] = LeafHash(leaves[i])
  BY DEF PushLeaf, TreeInv, LeavesInv
<1>2. PICK n \in Nat : n = Len(leaves) BY <1>1
<1>3. /\ IsLevels(levels') /\ Len(levels'[1]) = n + 1
      /\ \A i \in 1..n : levels'[1][i] = levels[1][i]
      /\ levels'[1][n + 1] = hash_leaf(d)
  <2>1. IsLevels(levels') /\ PushedRow(levels'[1], levels[1], d, Len(levels[1]))
    BY <1>1, PushedIs
  <2>2. Len(levels[1]) = n BY <1>1, <1>2
  <2> QED BY <2>1, <2>2, Zenon DEF PushedRow
<1>4. /\ leaves' \in Seq(Data \cup {Pad}) /\ Len(leaves') = n + 1
      /\ \A i \in 1..n : leaves'[i] = leaves[i]
      /\ leaves'[n + 1] = d
  <2>1. d \in Data \cup {Pad} OBVIOUS
  <2> QED BY <1>1, <1>2, <2>1, AppendProperties
<1>5. LeafHash(d) = hash_leaf(d) BY MerkleAssumption DEF LeafHash
<1>6. ASSUME NEW i \in 1..(n + 1) PROVE levels'[1][i] = LeafHash(leaves'[i])
  <2>1. CASE i \in 1..n BY <1>1, <1>2, <1>3, <1>4, <2>1, Zenon
  <2>2. CASE i = n + 1 BY <1>3, <1>4, <1>5, <2>2, Zenon
  <2> QED BY <2>1, <2>2
<1>7. \A x : LeafHash(x)' = LeafHash(x) BY DEF LeafHash
<1>8. LeavesInv' BY <1>3, <1>4, <1>6, <1>7 DEF LeavesInv
<1>9. ~Computed' BY <1>1 DEF Computed, NoRoot
<1> QED BY <1>8, <1>9 DEF TreeInv, RootInv

\* clear empties the levels.
LEMMA ClearStep == ASSUME TreeInv, Clear PROVE TreeInv'
<1>1. IsLevels(levels) /\ levels' = clear(levels) /\ leaves' = <<>> /\ root' = NoRoot
  BY DEF Clear, TreeInv, LeavesInv
<1>2. IsLevels(levels') /\ levels'[1] = <<>> BY <1>1, ClearedIs
<1>3. leaves' \in Seq(Data \cup {Pad}) /\ Len(leaves') = 0 BY <1>1
<1>4. ~Computed' BY <1>1 DEF Computed, NoRoot
<1> QED BY <1>1, <1>2, <1>3, <1>4 DEF TreeInv, LeavesInv, RootInv

\* compute_root builds the tree over what was pushed.
LEMMA ComputeStep == ASSUME TreeInv, ComputeRoot PROVE TreeInv'
<1>1. /\ IsLevels(levels) /\ leaves \in Seq(Data \cup {Pad}) /\ Len(levels[1]) = Len(leaves)
      /\ \A i \in 1..Len(leaves) : levels[1][i] = LeafHash(leaves[i])
      /\ levels[1] # <<>>
      /\ levels' = compute_root(levels).levels /\ root' = compute_root(levels).root
      /\ leaves' = IF Len(leaves) > 1 /\ Odd(Len(leaves)) THEN Append(leaves, Pad) ELSE leaves
  BY DEF ComputeRoot, TreeInv, LeavesInv, Odd
<1>2. PICK n \in Nat : n = Len(leaves) BY <1>1
<1>3. PICK T \in Nat :
        /\ IsLevels(levels') /\ Tree(levels', T) /\ root' = levels'[T + 1][1]
        /\ T <= n
        /\ levels'[1] = IF n = 1 THEN levels[1] ELSE padded(levels[1], n)
  BY <1>1, <1>2, ComputesTree
<1>4. n # 0
  <2>1. PICK H : levels \in Seq(Seq(H)) BY <1>1 DEF IsLevels
  <2>2. levels[1] \in Seq(H) BY <1>1, <2>1 DEF IsLevels
  <2> QED BY <1>1, <1>2, <2>2, EmptySeq
<1>5. \A x : LeafHash(x)' = LeafHash(x) BY DEF LeafHash
<1>6. PICK H : levels[1] \in Seq(H)
  <2>1. PICK H : levels \in Seq(Seq(H)) BY <1>1 DEF IsLevels
  <2> QED BY <1>1, <2>1 DEF IsLevels
<1>7. /\ \A i \in 1..n : padded(levels[1], n)[i] = levels[1][i]
      /\ ~Odd(n) => padded(levels[1], n) = levels[1]
      /\ Odd(n) => Len(padded(levels[1], n)) = n + 1 /\ padded(levels[1], n)[n + 1] = Zero
  <2>1. Len(levels[1]) = n BY <1>1, <1>2
  <2>2. PaddedRow(padded(levels[1], n), levels[1], n) BY <1>6, <2>1, PaddedIs
  <2> QED BY <2>2, Zenon DEF PaddedRow
<1>8. LeavesInv' /\ n <= Len(leaves')
  <2>1. CASE n > 1 /\ Odd(n)
    <3>1. levels'[1] = padded(levels[1], n) /\ leaves' = Append(leaves, Pad)
      BY <1>1, <1>2, <1>3, <2>1
    <3>2. /\ leaves' \in Seq(Data \cup {Pad}) /\ Len(leaves') = n + 1
          /\ \A i \in 1..n : leaves'[i] = leaves[i]
          /\ leaves'[n + 1] = Pad
      <4>1. Pad \in Data \cup {Pad} OBVIOUS
      <4> QED BY <1>1, <1>2, <3>1, <4>1, AppendProperties
    <3>3. LeafHash(Pad) = Zero BY DEF LeafHash
    <3>4. ASSUME NEW i \in 1..(n + 1) PROVE levels'[1][i] = LeafHash(leaves'[i])
      <4>1. CASE i \in 1..n BY <1>1, <1>2, <1>7, <3>1, <3>2, <4>1, Zenon
      <4>2. CASE i = n + 1 BY <1>7, <2>1, <3>1, <3>2, <3>3, <4>2, Zenon
      <4> QED BY <4>1, <4>2
    <3>5. Len(levels'[1]) = n + 1 BY <1>7, <2>1, <3>1
    <3> QED BY <1>3, <1>5, <3>2, <3>4, <3>5 DEF LeavesInv
  <2>2. CASE ~(n > 1 /\ Odd(n))
    <3>1. leaves' = leaves BY <1>1, <1>2, <2>2
    <3>2. levels'[1] = levels[1]
      <4>1. CASE n = 1 BY <1>3, <4>1
      <4>2. CASE n # 1
        <5>1. n > 1 BY <1>4, <4>2
        <5> QED BY <1>3, <1>7, <2>2, <4>2, <5>1
      <4> QED BY <4>1, <4>2
    <3> QED BY <1>1, <1>2, <1>3, <1>5, <3>1, <3>2 DEF LeavesInv
  <2> QED BY <2>1, <2>2
<1>9. T <= Len(leaves')
  <2>1. Len(leaves') \in Nat BY <1>8 DEF LeavesInv
  <2> QED BY <1>3, <1>8, <2>1
<1>10. RootInv' BY <1>3, <1>9 DEF RootInv
<1> QED BY <1>8, <1>10 DEF TreeInv

\* compute_root always returns a hash, which is not the mark of a missing root.
LEMMA RootIsHash == ASSUME TreeInv, ComputeRoot PROVE root' # NoRoot
<1>1. IsLevels(levels) /\ levels[1] # <<>> /\ levels' = compute_root(levels).levels
      /\ root' = compute_root(levels).root
  BY DEF ComputeRoot, TreeInv, LeavesInv
<1>2. PICK T \in Nat : Tree(levels', T) /\ root' = levels'[T + 1][1]
  BY <1>1, ComputesTree
<1>3. CASE T = 0
  <2>1. Len(levels'[1]) = 1 /\ root' = levels'[1][1] BY <1>2, <1>3 DEF Tree
  <2>2. LeavesInv' BY ComputeStep DEF TreeInv
  <2>3. \A x : LeafHash(x)' = LeafHash(x) BY DEF LeafHash
  <2>4. levels'[1][1] = LeafHash(leaves'[1]) BY <2>1, <2>2, <2>3 DEF LeavesInv
  <2> QED BY <2>1, <2>4 DEF LeafHash, Zero, hash_leaf, NoRoot
<1>4. CASE T # 0
  <2>1. Below(levels', T) BY <1>2, <1>4 DEF Tree
  <2>2. PICK m \in Nat \ {0} :
          \A i \in 1..m : levels'[T + 1][i] = hash_nodes(levels'[T][2*i - 1], levels'[T][2*i])
    BY <2>1 DEF Below
  <2>3. 1 \in 1..m BY <2>2
  <2>4. \E x, y : root' = hash_nodes(x, y) BY <1>2, <2>2, <2>3
  <2> QED BY <2>4 DEF hash_nodes, NoRoot
<1> QED BY <1>3, <1>4

\* Every call keeps the invariant.
LEMMA TreeStep == TreeInv /\ [Next]_vars => TreeInv'
<1> SUFFICES ASSUME TreeInv, [Next]_vars PROVE TreeInv' OBVIOUS
<1>1. ASSUME NEW d \in Data, PushLeaf(d) PROVE TreeInv' BY <1>1, PushStep
<1>2. CASE ComputeRoot BY <1>2, ComputeStep
<1>3. CASE Clear BY <1>3, ClearStep
<1>4. CASE UNCHANGED vars
  BY <1>4 DEF TreeInv, LeavesInv, RootInv, Computed, LeafHash, vars
<1> QED BY <1>1, <1>2, <1>3, <1>4 DEF Next

\* So it holds after any sequence of calls.
LEMMA TreeAlways == Spec => []TreeInv
BY TreeInitial, TreeStep, PTL DEF Spec

\* Whatever earlier batches left in the levels, compute_root returns the root of the
\* reference tree over the leaves that were pushed, for any number of them.
THEOREM RootsAreReference == Spec => []RootIsReference
<1>1. TreeInv => RootIsReference
  <2> SUFFICES ASSUME TreeInv, Computed PROVE root = RefRoot(leaves) BY DEF RootIsReference
  <2>1. PICK T \in Nat : Tree(levels, T) /\ T <= Len(leaves) /\ root = levels[T + 1][1]
    BY DEF TreeInv, RootInv
  <2>2. /\ IsLevels(levels) /\ Len(levels[1]) = Len(leaves)
        /\ \A i \in 1..Len(leaves) : levels[1][i] = LeafHash(leaves[i])
    BY DEF TreeInv, LeavesInv
  <2>3. Height(Len(leaves)) = T BY <2>1, <2>2, HeightIs
  <2>4. RefNode(leaves, T) = levels[T + 1][1] BY <2>1, <2>2, RowsAreLevels
  <2> QED BY <2>1, <2>3, <2>4 DEF RefRoot
<1> QED BY <1>1, TreeAlways, PTL

\* A leaf of a tree has a path to its root.
LEMMA TreePaths == TreeInv => PathsVerify
<1> SUFFICES ASSUME TreeInv, Computed, NEW i \in Positions, leaves[i + 1] # Pad
             PROVE  root_from_paths(i, leaves[i + 1], get_paths_to(levels, i)) = root
  BY DEF PathsVerify
<1>1. PICK T \in Nat : Tree(levels, T) /\ root = levels[T + 1][1]
  BY DEF TreeInv, RootInv
<1>2. /\ IsLevels(levels) /\ Len(levels[1]) = Len(leaves) /\ Len(leaves) \in Nat
      /\ \A k \in 1..Len(leaves) : levels[1][k] = LeafHash(leaves[k])
  BY DEF TreeInv, LeavesInv
<1>3. i \in 0..(Len(levels[1]) - 1) /\ i + 1 \in 1..Len(leaves) BY <1>2 DEF Positions
<1>4. levels[1][i + 1] = hash_leaf(leaves[i + 1]) BY <1>2, <1>3 DEF LeafHash
<1> QED BY <1>1, <1>2, <1>3, <1>4, PathVerifies

\* After compute_root the path of every leaf that was pushed verifies, in trees of any
\* size and after any earlier calls.
THEOREM EveryPathVerifies == Spec => []PathsVerify
BY TreePaths, TreeAlways, PTL

\* A path that was handed out proves nothing but leaves that were pushed, at their
\* positions: no padding node and no other data.
THEOREM EveryPathBinds == Spec => []PathsBind
<1>1. TreeInv => PathsBind
  <2> SUFFICES ASSUME TreeInv, Computed, NEW i \in Positions,
                      NEW j \in 0..(FirstLeaf(Len(get_paths_to(levels, i)), 1) - 1), NEW d \in Data,
                      root_from_paths(j, d, get_paths_to(levels, i)) = root
               PROVE  j \in Positions /\ leaves[j + 1] = d
    BY DEF PathsBind
  <2>1. PICK T \in Nat : Tree(levels, T) /\ root = levels[T + 1][1]
    BY DEF TreeInv, RootInv
  <2>2. /\ IsLevels(levels) /\ Len(levels[1]) = Len(leaves) /\ Len(leaves) \in Nat
        /\ \A k \in 1..Len(leaves) : levels[1][k] = LeafHash(leaves[k])
    BY DEF TreeInv, LeavesInv
  <2>3. i \in 0..(Len(levels[1]) - 1) BY <2>2 DEF Positions
  <2>4. Len(get_paths_to(levels, i)) = T
    <3>1. get_paths_to(levels, i) = [k \in 1..T |-> levels[k][Sibling(Shift(i, k - 1)) + 1]]
      BY <2>1, <2>2, <2>3, PathIs
    <3> QED BY <3>1
  <2>5. j \in Nat /\ Shift(j, T) = 0
    <3>1. FirstLeaf(T, 1) \in Nat BY FirstLeafIs
    <3>2. j \in Nat /\ j < FirstLeaf(T, 1) BY <2>4, <3>1
    <3>3. Shift(j, T) < 1 /\ Shift(j, T) \in Nat BY <3>2, ShiftBefore, ShiftIs
    <3> QED BY <3>2, <3>3
  <2>6. j < Len(levels[1]) /\ levels[1][j + 1] = hash_leaf(d)
    BY <2>1, <2>2, <2>3, <2>5, PathBinds
  <2>7. j \in Positions /\ j + 1 \in 1..Len(leaves) BY <2>2, <2>5, <2>6 DEF Positions
  <2>8. LeafHash(leaves[j + 1]) = hash_leaf(d) BY <2>2, <2>6, <2>7
  <2>9. leaves[j + 1] # Pad BY <2>8, HashesDiffer DEF LeafHash
  <2>10. hash_leaf(leaves[j + 1]) = hash_leaf(d) BY <2>8, <2>9 DEF LeafHash
  <2> QED BY <2>7, <2>10, HashesDiffer
<1> QED BY <1>1, TreeAlways, PTL
=============================================================================
