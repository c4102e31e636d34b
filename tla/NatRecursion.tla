---------------------------- MODULE NatRecursion ----------------------------
(***************************************************************************)
(* Induction over the natural numbers for a set instead of a predicate,    *)
(* and what follows from it: least elements, and the existence of the      *)
(* functions that are defined by iterating a function.                     *)
(***************************************************************************)
EXTENDS Integers, FiniteSetTheorems, TLAPS

(* A set of naturals with 0 and the successor of each of its elements has  *)
(* all of them.  If n were missing, the predecessor would inject the       *)
(* missing numbers up to n into those below n, which are fewer.            *)
LEMMA SetInduction ==
  ASSUME NEW S, 0 \in S, \A n \in Nat : n \in S => n + 1 \in S
  PROVE  Nat \subseteq S
<1> SUFFICES ASSUME NEW n \in Nat, n \notin S PROVE FALSE
  OBVIOUS
<1> DEFINE D == (0..n) \ S
           f == [k \in D |-> k - 1]
<1>1. IsFiniteSet(D) /\ n \in D
  <2>1. IsFiniteSet(0..n)
    BY FS_Interval
  <2>2. D \in SUBSET (0..n)
    OBVIOUS
  <2>3. IsFiniteSet(D)
    BY <2>1, <2>2, FS_Subset
  <2>4. n \in D
    OBVIOUS
  <2> QED
    BY <2>3, <2>4
<1>2. \A k \in D : k - 1 \in D \ {n}
  <2> TAKE k \in D
  <2>1. k \in Nat /\ k <= n /\ k # 0 /\ k - 1 \in Nat
    OBVIOUS
  <2>2. k - 1 \notin S
    BY <2>1
  <2> QED
    BY <2>1, <2>2
<1>3. f \in [D -> D \ {n}]
  BY <1>2
<1>4. \A x, y \in D : f[x] = f[y] => x = y
  <2>1. \A x \in D : x \in Int /\ f[x] = x - 1
    OBVIOUS
  <2> QED
    BY <2>1
<1> HIDE DEF D, f
<1>5. IsFiniteSet(D \ {n}) /\ Cardinality(D \ {n}) = Cardinality(D) - 1
  BY <1>1, FS_RemoveElement
<1>6. Cardinality(D) \in Nat
  BY <1>1, FS_CardinalityType
<1>7. Cardinality(D \ {n}) < Cardinality(D)
  BY <1>5, <1>6
<1>8. \E x, y \in D : x # y /\ f[x] = f[y]
  BY <1>1, <1>3, <1>5, <1>7, FS_PigeonHole
<1> QED
  BY <1>4, <1>8

(* A nonempty set of naturals has a least element.                         *)
LEMMA LeastElement ==
  ASSUME NEW T \in SUBSET Nat, T # {}
  PROVE  \E m \in T : \A k \in T : m <= k
<1> SUFFICES ASSUME \A m \in T : \E k \in T : k < m PROVE FALSE
  OBVIOUS
<1> DEFINE S == {n \in Nat : \A k \in T : n <= k}
<1>1. 0 \in S
  OBVIOUS
<1>2. \A n \in Nat : n \in S => n + 1 \in S
  <2> SUFFICES ASSUME NEW n \in S, NEW k \in T PROVE n + 1 <= k
    OBVIOUS
  <2>1. n <= k /\ n # k
    OBVIOUS
  <2> QED
    BY <2>1
<1> HIDE DEF S
<1>3. Nat \subseteq S
  BY <1>1, <1>2, SetInduction
<1>4. PICK k \in T : TRUE
  OBVIOUS
<1>5. k + 1 \in S
  BY <1>3
<1> QED
  BY <1>5 DEF S

(* The first n steps of the iteration of g from a.                         *)
Iterates(e, g, a, n) == e[0] = a /\ \A k \in 1..n : e[k] = g[e[k - 1]]

(* They are determined ...                                                 *)
LEMMA IterationUnique ==
  ASSUME NEW X, NEW g \in [X -> X], NEW a \in X, NEW m \in Nat, NEW n \in Nat,
         NEW d, NEW e, Iterates(d, g, a, m), Iterates(e, g, a, n)
  PROVE  \A k \in Nat : k <= m /\ k <= n => d[k] = e[k]
<1> DEFINE S == {k \in Nat : k <= m /\ k <= n => d[k] = e[k]}
<1>1. 0 \in S
  BY DEF Iterates
<1>2. \A k \in Nat : k \in S => k + 1 \in S
  <2> SUFFICES ASSUME NEW k \in S, k + 1 <= m, k + 1 <= n PROVE d[k + 1] = e[k + 1]
    OBVIOUS
  <2>1. k \in Nat /\ d[k] = e[k] /\ k + 1 \in 1..m /\ k + 1 \in 1..n /\ (k + 1) - 1 = k
    OBVIOUS
  <2> QED
    BY <2>1 DEF Iterates
<1> HIDE DEF S
<1>3. Nat \subseteq S
  BY <1>1, <1>2, SetInduction
<1> QED
  BY <1>3 DEF S

(* ... and there are that many.                                            *)
LEMMA IterationSteps ==
  ASSUME NEW X, NEW g \in [X -> X], NEW a \in X
  PROVE  \A n \in Nat : \E e \in [0..n -> X] : Iterates(e, g, a, n)
<1> DEFINE S == {n \in Nat : \E e \in [0..n -> X] : Iterates(e, g, a, n)}
<1>1. 0 \in S
  <2>1. Iterates([k \in 0..0 |-> a], g, a, 0)
    BY DEF Iterates
  <2> QED
    BY <2>1
<1>2. \A n \in Nat : n \in S => n + 1 \in S
  <2> SUFFICES ASSUME NEW n \in Nat, NEW e \in [0..n -> X], Iterates(e, g, a, n)
               PROVE  \E d \in [0..n + 1 -> X] : Iterates(d, g, a, n + 1)
    OBVIOUS
  <2> DEFINE d == [k \in 0..n + 1 |-> IF k <= n THEN e[k] ELSE g[e[n]]]
  <2>1. e[n] \in X /\ g[e[n]] \in X
    OBVIOUS
  <2>2. d \in [0..n + 1 -> X]
    BY <2>1
  <2>3. /\ \A k \in 0..n : d[k] = e[k]
        /\ d[n + 1] = g[e[n]]
    OBVIOUS
  <2> HIDE DEF d
  <2>4. d[0] = a
    BY <2>3 DEF Iterates
  <2>5. ASSUME NEW k \in 1..n + 1 PROVE d[k] = g[d[k - 1]]
    <3>1. k - 1 \in 0..n /\ d[k - 1] = e[k - 1]
      BY <2>3
    <3>2. CASE k = n + 1
      BY <2>3, <3>1, <3>2
    <3>3. CASE k # n + 1
      <4>1. k \in 1..n /\ k \in 0..n
        BY <3>3
      <4> QED
        BY <2>3, <3>1, <4>1 DEF Iterates
    <3> QED
      BY <3>2, <3>3
  <2> QED
    BY <2>2, <2>4, <2>5 DEF Iterates
<1> HIDE DEF S
<1>3. Nat \subseteq S
  BY <1>1, <1>2, SetInduction
<1> QED
  BY <1>3 DEF S

(* So a function on the naturals can be defined by iteration.              *)
Iteration(e, g, a) == e[0] = a /\ \A k \in Nat : e[k + 1] = g[e[k]]

LEMMA IterationExists ==
  ASSUME NEW X, NEW g \in [X -> X], NEW a \in X
  PROVE  \E e \in [Nat -> X] : Iteration(e, g, a)
<1> DEFINE first(n) == CHOOSE e \in [0..n -> X] : Iterates(e, g, a, n)
           e == [n \in Nat |-> first(n)[n]]
<1>1. \A n \in Nat : first(n) \in [0..n -> X] /\ Iterates(first(n), g, a, n)
  BY IterationSteps
<1> HIDE DEF first
<1>2. e \in [Nat -> X]
  BY <1>1
<1>3. e[0] = a
  BY <1>1 DEF Iterates
<1>4. ASSUME NEW k \in Nat PROVE e[k + 1] = g[e[k]]
  <2>1. k + 1 \in Nat /\ k + 1 \in 1..k + 1 /\ (k + 1) - 1 = k
    OBVIOUS
  <2> DEFINE d == first(k)
             f == first(k + 1)
  <2>2. Iterates(d, g, a, k) /\ Iterates(f, g, a, k + 1)
    BY <1>1, <2>1
  <2> HIDE DEF d, f
  <2>3. f[k + 1] = g[f[k]]
    BY <2>1, <2>2 DEF Iterates
  <2>4. f[k] = d[k]
    <3>1. \A j \in Nat : j <= k /\ j <= k + 1 => d[j] = f[j]
      BY <2>1, <2>2, IterationUnique
    <3> QED
      BY <3>1
  <2>5. e[k + 1] = f[k + 1] /\ e[k] = d[k]
    BY <2>1 DEF d, f
  <2> QED
    BY <2>3, <2>4, <2>5
<1> QED
  BY <1>2, <1>3, <1>4 DEF Iteration
=============================================================================
