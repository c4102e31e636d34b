-------------------------- MODULE HelloEpollProofs --------------------------
(***************************************************************************)
(* Proofs of the safety properties of HelloEpoll, for any set of inputs of *)
(* any length, any size of the buffer and of stdio's blocks, and any calls *)
(* that may fail.  First come the facts about the strings that a text is   *)
(* cut into, then one invariant after the other.                           *)
(***************************************************************************)
EXTENDS HelloEpoll, SequenceTheorems, NatRecursion

(* The two parts of a sequence.                                            *)
LEMMA TakeDrop ==
  ASSUME NEW s \in Seq(Units), NEW n \in 0..Len(s)
  PROVE  /\ Take(s, n) \in Seq(Units) /\ Len(Take(s, n)) = n
         /\ \A i \in 1..n : Take(s, n)[i] = s[i]
         /\ Drop(s, n) \in Seq(Units) /\ Len(Drop(s, n)) = Len(s) - n
         /\ \A i \in 1..Len(s) - n : Drop(s, n)[i] = s[n + i]
         /\ Take(s, n) \o Drop(s, n) = s
<1>1. /\ Len(s) \in Nat /\ n \in Nat /\ n <= Len(s)
      /\ \A i \in 1..Len(s) : s[i] \in Units
  BY LenProperties
<1>2. /\ Take(s, n) \in Seq(Units) /\ Len(Take(s, n)) = n
      /\ \A i \in 1..n : Take(s, n)[i] = s[i]
  BY <1>1, SubSeqProperties DEF Take
<1>3. /\ Drop(s, n) \in Seq(Units) /\ Len(Drop(s, n)) = Len(s) - n
      /\ \A i \in 1..Len(s) - n : Drop(s, n)[i] = s[n + i]
  BY <1>1, SubSeqProperties DEF Drop
<1>4. Take(s, n) \o Drop(s, n) = s
  <2>1. /\ Take(s, n) \o Drop(s, n) \in Seq(Units)
        /\ Len(Take(s, n) \o Drop(s, n)) = Len(s)
        /\ \A i \in 1..Len(s) : (Take(s, n) \o Drop(s, n))[i] =
             IF i <= n THEN Take(s, n)[i] ELSE Drop(s, n)[i - n]
    BY <1>1, <1>2, <1>3, ConcatProperties
  <2>2. \A i \in 1..Len(s) : (Take(s, n) \o Drop(s, n))[i] = s[i]
    BY <1>1, <1>2, <1>3, <2>1
  <2> QED
    BY <2>1, <2>2, SeqEqual
<1> QED
  BY <1>2, <1>3, <1>4

(* Two and three sequences in a row.                                       *)
LEMMA Concat ==
  ASSUME NEW s \in Seq(Units), NEW t \in Seq(Units)
  PROVE  /\ s \o t \in Seq(Units) /\ Len(s \o t) = Len(s) + Len(t)
         /\ Len(s) \in Nat /\ Len(t) \in Nat
         /\ \A i \in 1..Len(s) : (s \o t)[i] = s[i]
         /\ \A i \in 1..Len(t) : (s \o t)[Len(s) + i] = t[i]
<1>1. /\ s \o t \in Seq(Units) /\ Len(s \o t) = Len(s) + Len(t)
      /\ \A i \in 1..Len(s) + Len(t) :
           (s \o t)[i] = IF i <= Len(s) THEN s[i] ELSE t[i - Len(s)]
  BY ConcatProperties
<1>2. Len(s) \in Nat /\ Len(t) \in Nat
  BY LenProperties
<1>3. \A i \in 1..Len(t) :
        /\ Len(s) + i \in 1..Len(s) + Len(t)
        /\ ~(Len(s) + i <= Len(s)) /\ (Len(s) + i) - Len(s) = i
  BY <1>2
<1>4. \A i \in 1..Len(s) : i \in 1..Len(s) + Len(t) /\ i <= Len(s)
  BY <1>2
<1> QED
  BY <1>1, <1>2, <1>3, <1>4

LEMMA Assoc ==
  ASSUME NEW s \in Seq(Units), NEW t \in Seq(Units), NEW u \in Seq(Units)
  PROVE  (s \o t) \o u = s \o (t \o u)
BY ConcatAssociative

(* Dropping from a concatenation, and twice.                               *)
LEMMA DropConcat ==
  ASSUME NEW s \in Seq(Units), NEW t \in Seq(Units), NEW n \in 0..Len(s)
  PROVE  Drop(s \o t, n) = Drop(s, n) \o t
<1>1. /\ s \o t \in Seq(Units) /\ Len(s \o t) = Len(s) + Len(t)
      /\ Len(s) \in Nat /\ Len(t) \in Nat /\ n \in Nat /\ n <= Len(s)
  BY Concat
<1>2. /\ Drop(s, n) \in Seq(Units) /\ Len(Drop(s, n)) = Len(s) - n
      /\ \A i \in 1..Len(s) - n : Drop(s, n)[i] = s[n + i]
  BY TakeDrop
<1>3. n \in 0..Len(s \o t)
  BY <1>1
<1>4. /\ Drop(s \o t, n) \in Seq(Units) /\ Len(Drop(s \o t, n)) = Len(s) + Len(t) - n
      /\ \A i \in 1..Len(s) + Len(t) - n : Drop(s \o t, n)[i] = (s \o t)[n + i]
  <2> DEFINE c == s \o t
  <2>1. c \in Seq(Units) /\ Len(c) = Len(s) + Len(t) /\ n \in 0..Len(c)
    BY <1>1, <1>3
  <2> HIDE DEF c
  <2>2. /\ Drop(c, n) \in Seq(Units) /\ Len(Drop(c, n)) = Len(c) - n
        /\ \A i \in 1..Len(c) - n : Drop(c, n)[i] = c[n + i]
    BY <2>1, TakeDrop
  <2>3. /\ Drop(c, n) \in Seq(Units) /\ Len(Drop(c, n)) = Len(s) + Len(t) - n
        /\ \A i \in 1..Len(s) + Len(t) - n : Drop(c, n)[i] = c[n + i]
    BY <2>1, <2>2
  <2> QED
    BY <2>3 DEF c
<1>5. /\ Drop(s, n) \o t \in Seq(Units) /\ Len(Drop(s, n) \o t) = Len(s) - n + Len(t)
      /\ \A i \in 1..Len(s) - n : (Drop(s, n) \o t)[i] = Drop(s, n)[i]
      /\ \A i \in 1..Len(t) : (Drop(s, n) \o t)[Len(s) - n + i] = t[i]
  <2> DEFINE d == Drop(s, n)
  <2>1. d \in Seq(Units) /\ Len(d) = Len(s) - n
    BY <1>2
  <2> HIDE DEF d
  <2>2. /\ d \o t \in Seq(Units) /\ Len(d \o t) = Len(d) + Len(t)
        /\ \A i \in 1..Len(d) : (d \o t)[i] = d[i]
        /\ \A i \in 1..Len(t) : (d \o t)[Len(d) + i] = t[i]
    BY <2>1, Concat
  <2>3. /\ d \o t \in Seq(Units) /\ Len(d \o t) = Len(s) - n + Len(t)
        /\ \A i \in 1..Len(s) - n : (d \o t)[i] = d[i]
        /\ \A i \in 1..Len(t) : (d \o t)[Len(s) - n + i] = t[i]
    BY <2>1, <2>2
  <2> QED
    BY <2>3 DEF d
<1>6. ASSUME NEW i \in 1..Len(s) + Len(t) - n
      PROVE  Drop(s \o t, n)[i] = (Drop(s, n) \o t)[i]
  <2>1. Drop(s \o t, n)[i] = (s \o t)[n + i]
    BY <1>4
  <2>2. CASE i <= Len(s) - n
    <3>1. i \in 1..Len(s) - n /\ n + i \in 1..Len(s)
      BY <1>1, <2>2
    <3>2. (s \o t)[n + i] = s[n + i]
      BY <3>1, Concat
    <3>3. (Drop(s, n) \o t)[i] = s[n + i]
      BY <1>2, <1>5, <3>1
    <3> QED
      BY <2>1, <3>2, <3>3
  <2>3. CASE ~(i <= Len(s) - n)
    <3> DEFINE j == i - (Len(s) - n)
    <3>1. j \in 1..Len(t) /\ n + i = Len(s) + j /\ i = Len(s) - n + j
      BY <1>1, <2>3
    <3> HIDE DEF j
    <3>2. (s \o t)[Len(s) + j] = t[j]
      BY <3>1, Concat
    <3>3. (Drop(s, n) \o t)[Len(s) - n + j] = t[j]
      BY <1>5, <3>1
    <3> QED
      BY <2>1, <3>1, <3>2, <3>3
  <2> QED
    BY <2>2, <2>3
<1>7. Len(Drop(s \o t, n)) = Len(Drop(s, n) \o t)
  BY <1>1, <1>4, <1>5
<1> QED
  BY <1>1, <1>4, <1>5, <1>6, <1>7, SeqEqual

LEMMA DropDrop ==
  ASSUME NEW s \in Seq(Units), NEW m \in Nat, NEW n \in Nat, m + n <= Len(s)
  PROVE  Drop(Drop(s, m), n) = Drop(s, m + n)
<1>1. Len(s) \in Nat /\ m \in 0..Len(s) /\ m + n \in 0..Len(s) /\ n \in 0..Len(s) - m
  BY LenProperties
<1>2. /\ Drop(s, m) \in Seq(Units) /\ Len(Drop(s, m)) = Len(s) - m
      /\ \A i \in 1..Len(s) - m : Drop(s, m)[i] = s[m + i]
  BY <1>1, TakeDrop
<1>3. /\ Drop(s, m + n) \in Seq(Units) /\ Len(Drop(s, m + n)) = Len(s) - (m + n)
      /\ \A i \in 1..Len(s) - (m + n) : Drop(s, m + n)[i] = s[m + n + i]
  BY <1>1, TakeDrop
<1>4. n \in 0..Len(Drop(s, m))
  BY <1>1, <1>2
<1>5. /\ Drop(Drop(s, m), n) \in Seq(Units) /\ Len(Drop(Drop(s, m), n)) = Len(s) - m - n
      /\ \A i \in 1..Len(s) - m - n : Drop(Drop(s, m), n)[i] = Drop(s, m)[n + i]
  <2> DEFINE d == Drop(s, m)
  <2>1. d \in Seq(Units) /\ Len(d) = Len(s) - m /\ n \in 0..Len(d)
    BY <1>2, <1>4
  <2> HIDE DEF d
  <2>2. /\ Drop(d, n) \in Seq(Units) /\ Len(Drop(d, n)) = Len(d) - n
        /\ \A i \in 1..Len(d) - n : Drop(d, n)[i] = d[n + i]
    BY <2>1, TakeDrop
  <2>3. /\ Drop(d, n) \in Seq(Units) /\ Len(Drop(d, n)) = Len(s) - m - n
        /\ \A i \in 1..Len(s) - m - n : Drop(d, n)[i] = d[n + i]
    BY <2>1, <2>2
  <2> QED
    BY <2>3 DEF d
<1>6. ASSUME NEW i \in 1..Len(s) - (m + n)
      PROVE  Drop(Drop(s, m), n)[i] = Drop(s, m + n)[i]
  <2>1. n + i \in 1..Len(s) - m /\ i \in 1..Len(s) - m - n /\ m + (n + i) = m + n + i
    BY <1>1
  <2>2. Drop(s, m)[n + i] = s[m + (n + i)]
    BY <1>2, <2>1
  <2> QED
    BY <1>3, <1>5, <2>1, <2>2
<1>7. Len(Drop(Drop(s, m), n)) = Len(Drop(s, m + n))
  BY <1>1, <1>3, <1>5
<1> QED
  BY <1>3, <1>5, <1>6, <1>7, SeqEqual

(* Behind every position before the end of a text, one string ends first.  *)
LEMMA NextEndExists ==
  ASSUME NEW s \in Seq(Units), NEW n \in Nat, n < Len(s)
  PROVE  /\ NextEnd(s, n) \in n + 1..Len(s)
         /\ EndsAt(s, n, NextEnd(s, n))
<1>1. Len(s) \in Nat
  BY LenProperties
<1> DEFINE T == {m \in n + 1..Len(s) : m \in {n + Cap, Len(s)} \/ s[m] = "newline"}
<1>2. T \in SUBSET Nat /\ Len(s) \in T
  BY <1>1
<1>3. PICK m \in T : \A k \in T : m <= k
  BY <1>2, LeastElement
<1>4. EndsAt(s, n, m)
  <2>1. m \in n + 1..Len(s) /\ (m \in {n + Cap, Len(s)} \/ s[m] = "newline")
    BY <1>3
  <2>2. ASSUME NEW i \in n + 1..m - 1 PROVE i # n + Cap /\ s[i] # "newline"
    <3>1. i \notin T
      BY <1>2, <1>3, <2>1
    <3>2. i \in n + 1..Len(s)
      BY <1>1, <2>1
    <3> QED
      BY <3>1, <3>2
  <2> QED
    BY <2>1, <2>2 DEF EndsAt
<1>5. \E k \in n + 1..Len(s) : EndsAt(s, n, k)
  BY <1>4 DEF EndsAt
<1> QED
  BY <1>5 DEF NextEnd

LEMMA NextEndUnique ==
  ASSUME NEW s \in Seq(Units), NEW n \in Nat, NEW m, EndsAt(s, n, m)
  PROVE  n < Len(s) /\ NextEnd(s, n) = m
<1>1. Len(s) \in Nat /\ m \in n + 1..Len(s) /\ m \in Nat /\ n < Len(s)
  BY LenProperties DEF EndsAt
<1>2. /\ NextEnd(s, n) \in n + 1..Len(s) /\ NextEnd(s, n) \in Nat
      /\ EndsAt(s, n, NextEnd(s, n))
  BY <1>1, NextEndExists
<1> DEFINE k == NextEnd(s, n)
<1> HIDE DEF k
<1>3. \A i, j \in n + 1..Len(s) : EndsAt(s, n, i) /\ EndsAt(s, n, j) => ~(i < j)
  <2> SUFFICES ASSUME NEW i \in n + 1..Len(s), NEW j \in n + 1..Len(s),
                      EndsAt(s, n, i), EndsAt(s, n, j), i < j
               PROVE  FALSE
    OBVIOUS
  <2>1. i \in n + 1..j - 1
    BY <1>1
  <2>2. i # n + Cap /\ s[i] # "newline"
    BY <2>1 DEF EndsAt
  <2>3. i = Len(s)
    BY <2>2 DEF EndsAt
  <2> QED
    BY <1>1, <2>3
<1>4. ~(k < m) /\ ~(m < k)
  BY <1>1, <1>2, <1>3 DEF k
<1> QED
  BY <1>1, <1>2, <1>4 DEF k

(* LineEnd is the iteration that its definition says.                      *)
LEMMA LineEndDef ==
  ASSUME NEW s \in Seq(Units)
  PROVE  /\ LineEnd(s) \in [Nat -> 0..Len(s)]
         /\ LineEnd(s)[0] = 0
         /\ \A k \in Nat : LineEnd(s)[k + 1] = NextEnd(s, LineEnd(s)[k])
<1>1. Len(s) \in Nat
  BY LenProperties
<1> DEFINE X == 0..Len(s)
           g == [n \in X |-> NextEnd(s, n)]
           def(e) == [k \in Nat |-> IF k = 0 THEN 0 ELSE NextEnd(s, e[k - 1])]
<1>2. \A n \in X : NextEnd(s, n) \in X
  <2> SUFFICES ASSUME NEW n \in X PROVE NextEnd(s, n) \in X
    OBVIOUS
  <2>1. CASE n < Len(s)
    <3>1. NextEnd(s, n) \in n + 1..Len(s)
      BY <2>1, NextEndExists
    <3> QED
      BY <1>1, <3>1
  <2>2. CASE ~(n < Len(s))
    BY <2>2 DEF NextEnd
  <2> QED
    BY <2>1, <2>2
<1>3. g \in [X -> X] /\ 0 \in X
  BY <1>1, <1>2
<1>4. \A n \in X : g[n] = NextEnd(s, n)
  OBVIOUS
<1> HIDE DEF g, X
<1>5. PICK e \in [Nat -> X] : Iteration(e, g, 0)
  BY <1>3, IterationExists
<1>6. e = def(e)
  <2>1. ASSUME NEW k \in Nat PROVE e[k] = def(e)[k]
    <3>1. CASE k = 0
      BY <1>5, <3>1 DEF Iteration
    <3>2. CASE k # 0
      <4>1. k - 1 \in Nat /\ (k - 1) + 1 = k
        BY <3>2
      <4>2. e[k] = g[e[k - 1]]
        BY <1>5, <4>1 DEF Iteration
      <4>3. e[k - 1] \in X
        BY <4>1
      <4> QED
        BY <1>4, <3>2, <4>2, <4>3
    <3> QED
      BY <3>1, <3>2
  <2> QED
    BY <2>1
<1>7. LineEnd(s) = CHOOSE f : f = def(f)
  BY DEF LineEnd
<1>8. LineEnd(s) = def(LineEnd(s))
  BY <1>6, <1>7
<1> DEFINE L == LineEnd(s)
<1>9. L = [k \in Nat |-> IF k = 0 THEN 0 ELSE NextEnd(s, L[k - 1])]
  BY <1>8
<1> HIDE DEF L
<1>10. L[0] = 0 /\ \A k \in Nat : L[k + 1] = NextEnd(s, L[k])
  <2>1. L[0] = 0
    BY <1>9
  <2>2. ASSUME NEW k \in Nat PROVE L[k + 1] = NextEnd(s, L[k])
    <3>1. k + 1 \in Nat /\ k + 1 # 0 /\ (k + 1) - 1 = k
      OBVIOUS
    <3> QED
      BY <1>9, <3>1
  <2> QED
    BY <2>1, <2>2
<1> DEFINE S == {k \in Nat : L[k] \in X}
<1>11. 0 \in S
  BY <1>3, <1>10
<1>12. \A k \in Nat : k \in S => k + 1 \in S
  <2> SUFFICES ASSUME NEW k \in Nat, L[k] \in X PROVE k + 1 \in S
    OBVIOUS
  <2>1. L[k + 1] \in X
    BY <1>2, <1>10
  <2>2. k + 1 \in Nat
    OBVIOUS
  <2> QED
    BY <2>1, <2>2
<1> HIDE DEF S
<1>13. Nat \subseteq S
  BY <1>11, <1>12, SetInduction
<1>14. \A k \in Nat : L[k] \in X
  BY <1>13 DEF S
<1>15. L \in [Nat -> X]
  BY <1>9, <1>14
<1> QED
  BY <1>10, <1>15 DEF L, X

(* The strings are as many as the text has units, or fewer.                *)
LEMMA LineEndGrows ==
  ASSUME NEW s \in Seq(Units)
  PROVE  \A k \in Nat : LineEnd(s)[k] >= k \/ LineEnd(s)[k] = Len(s)
<1> DEFINE L == LineEnd(s)
           S == {k \in Nat : L[k] >= k \/ L[k] = Len(s)}
<1>1. /\ Len(s) \in Nat /\ L \in [Nat -> 0..Len(s)] /\ L[0] = 0
      /\ \A k \in Nat : L[k + 1] = NextEnd(s, L[k])
  BY LineEndDef, LenProperties
<1> HIDE DEF L
<1>2. 0 \in S
  BY <1>1
<1>3. ASSUME NEW k \in Nat, k \in S PROVE k + 1 \in S
  <2>1. L[k] \in Nat /\ L[k] <= Len(s) /\ L[k + 1] = NextEnd(s, L[k]) /\ k + 1 \in Nat
    <3>1. L[k] \in 0..Len(s)
      BY <1>1
    <3>2. L[k + 1] = NextEnd(s, L[k])
      BY <1>1
    <3> QED
      BY <1>1, <3>1, <3>2
  <2>2. CASE L[k] < Len(s)
    <3>1. L[k + 1] \in L[k] + 1..Len(s)
      BY <2>1, <2>2, NextEndExists
    <3>2. L[k] >= k
      BY <1>3, <2>2
    <3>3. L[k + 1] >= L[k] + 1
      BY <3>1
    <3>4. L[k + 1] >= k + 1
      BY <2>1, <3>1, <3>2, <3>3
    <3> QED
      BY <2>1, <3>4
  <2>3. CASE L[k] = Len(s)
    <3>1. L[k + 1] = Len(s)
      BY <1>1, <2>1, <2>3 DEF NextEnd
    <3> QED
      BY <2>1, <3>1
  <2> QED
    BY <1>1, <2>1, <2>2, <2>3
<1> HIDE DEF S
<1>4. Nat \subseteq S
  BY <1>2, <1>3, SetInduction
<1> QED
  BY <1>4 DEF S, L
-----------------------------------------------------------------------------
(* Type correctness.                                                       *)

LEMMA SeqTypes ==
  TypeOK <=>
    /\ writer \in Writers
    /\ input \in Seq(Units) /\ unsent \in Seq(Units) /\ kernel \in Seq(Units)
    /\ stdio \in Seq(Units) /\ buffer \in Seq(Units)
    /\ Len(buffer) <= Cap
    /\ closed \in BOOLEAN
    /\ out \in Seq(Seq(Units))
    /\ epoll \in {"none", "open", "closed"}
    /\ is_exit \in {0, 1}
    /\ pc \in {"create", "add", "while", "wait", "fgets", "compare", "returned", "failed"}
BY DEF TypeOK

(* If fgets does not stop in what stdio has, that is short and without a   *)
(* newline.                                                                *)
LEMMA NotFull ==
  ASSUME stdio \in Seq(Units), ~Full
  PROVE  Len(stdio) < Cap /\ \A i \in 1..Len(stdio) : stdio[i] # "newline"
<1> DEFINE T == {n \in 1..Len(stdio) : n = Cap \/ stdio[n] = "newline"}
<1>1. Len(stdio) \in Nat /\ Cap \in Nat /\ Cap # 0
  BY LenProperties, SizesAssumption
<1>2. T = {}
  <2> SUFFICES ASSUME T # {} PROVE FALSE
    OBVIOUS
  <2>1. T \in SUBSET Nat
    OBVIOUS
  <2>2. PICK n \in T : \A k \in T : n <= k
    BY <2>1, LeastElement
  <2>3. \A i \in 1..n - 1 : i \notin T
    BY <2>1, <2>2
  <2>4. \A i \in 1..n - 1 : i \in 1..Len(stdio)
    BY <1>1, <2>2
  <2>5. Stops(n)
    BY <2>2, <2>3, <2>4 DEF Stops
  <2> QED
    BY <2>5 DEF Full
<1>3. \A i \in 1..Len(stdio) : i # Cap /\ stdio[i] # "newline"
  BY <1>2
<1>4. ~(Cap <= Len(stdio))
  BY <1>1, <1>3
<1> QED
  BY <1>1, <1>3, <1>4

(* Where fgets stops, the buffer is not full before.                       *)
LEMMA StopsBound ==
  ASSUME stdio \in Seq(Units), NEW n, Stops(n)
  PROVE  n \in 1..Len(stdio) /\ n \in 0..Len(stdio) /\ n \in Nat /\ n <= Cap
<1>1. Len(stdio) \in Nat /\ Cap \in Nat \ {0} /\ n \in 1..Len(stdio)
  BY LenProperties, SizesAssumption DEF Stops
<1>2. ~(Cap < n)
  <2> SUFFICES ASSUME Cap < n PROVE FALSE
    OBVIOUS
  <2>1. Cap \in 1..n - 1
    BY <1>1
  <2> QED
    BY <2>1 DEF Stops
<1> QED
  BY <1>1, <1>2

LEMMA ReadsRange ==
  ASSUME kernel \in Seq(Units), NEW n, Reads(n)
  PROVE  n \in 1..Len(kernel) /\ n \in 0..Len(kernel) /\ n \in Nat
BY LenProperties DEF Reads

LEMMA TypeInit == Init => TypeOK
<1> SUFFICES ASSUME Init PROVE TypeOK
  OBVIOUS
<1>1. input \in Seq(Units) /\ <<>> \in Seq(Units) /\ <<>> \in Seq(Seq(Units)) /\ Len(<<>>) <= Cap
  BY InputsAssumption, EmptySeq, SizesAssumption DEF Init
<1> QED
  BY <1>1, SeqTypes DEF Init

LEMMA TypeStep == TypeOK /\ [Next]_vars => TypeOK'
<1> SUFFICES ASSUME TypeOK, [Next]_vars PROVE TypeOK'
  OBVIOUS
<1>a. /\ writer \in Writers
      /\ input \in Seq(Units) /\ unsent \in Seq(Units) /\ kernel \in Seq(Units)
      /\ stdio \in Seq(Units) /\ buffer \in Seq(Units)
      /\ Len(buffer) <= Cap
      /\ closed \in BOOLEAN
      /\ out \in Seq(Seq(Units))
      /\ epoll \in {"none", "open", "closed"}
      /\ is_exit \in {0, 1}
      /\ pc \in {"create", "add", "while", "wait", "fgets", "compare", "returned", "failed"}
  BY SeqTypes
<1> SUFFICES
      /\ writer' \in Writers
      /\ input' \in Seq(Units) /\ unsent' \in Seq(Units) /\ kernel' \in Seq(Units)
      /\ stdio' \in Seq(Units) /\ buffer' \in Seq(Units)
      /\ Len(buffer') <= Cap
      /\ closed' \in BOOLEAN
      /\ out' \in Seq(Seq(Units))
      /\ epoll' \in {"none", "open", "closed"}
      /\ is_exit' \in {0, 1}
      /\ pc' \in {"create", "add", "while", "wait", "fgets", "compare", "returned", "failed"}
  BY DEF TypeOK
<1>1. CASE EpollCreate \/ EpollAdd \/ While \/ EpollWait \/ Compare \/ Closes
  BY <1>a, <1>1 DEF EpollCreate, EpollAdd, While, EpollWait, Compare, Closes, ExitFailure, env
<1>2. CASE Fill
  <2>1. PICK n \in 1..Len(kernel) :
          Reads(n) /\ stdio' = stdio \o Take(kernel, n) /\ kernel' = Drop(kernel, n)
    BY <1>2 DEF Fill
  <2>2. Take(kernel, n) \in Seq(Units) /\ Drop(kernel, n) \in Seq(Units)
    BY <1>a, <2>1, ReadsRange, TakeDrop
  <2>3. stdio \o Take(kernel, n) \in Seq(Units)
    BY <1>a, <2>2, ConcatProperties
  <2> QED
    BY <1>a, <1>2, <2>1, <2>2, <2>3 DEF Fill, env
<1>3. CASE Fgets
  <2>1. PICK n \in 1..Len(stdio) :
          Stops(n) /\ buffer' = Take(stdio, n) /\ stdio' = Drop(stdio, n)
    BY <1>3 DEF Fgets
  <2>2. n \in 0..Len(stdio) /\ n <= Cap
    BY <1>a, <2>1, StopsBound
  <2>3. buffer' \in Seq(Units) /\ Len(buffer') <= Cap /\ stdio' \in Seq(Units)
    BY <1>a, <2>1, <2>2, TakeDrop
  <2>4. out' \in Seq(Seq(Units))
    BY <1>a, <1>3, <2>3, AppendProperties DEF Fgets
  <2> QED
    BY <1>a, <1>3, <2>3, <2>4 DEF Fgets, env
<1>4. CASE FgetsEnd
  <2>1. Len(stdio) <= Cap
    BY <1>a, <1>4, NotFull, LenProperties, SizesAssumption DEF FgetsEnd
  <2>2. Append(out, stdio) \in Seq(Seq(Units)) /\ <<>> \in Seq(Units)
    BY <1>a, AppendProperties, EmptySeq
  <2> QED
    BY <1>a, <1>4, <2>1, <2>2 DEF FgetsEnd, env
<1>5. CASE Writes
  <2>1. PICK n \in 1..Len(unsent) : kernel' = kernel \o Take(unsent, n) /\ unsent' = Drop(unsent, n)
    BY <1>5 DEF Writes
  <2>2. n \in 0..Len(unsent)
    BY <1>a, <2>1, LenProperties
  <2>3. Take(unsent, n) \in Seq(Units) /\ unsent' \in Seq(Units)
    BY <1>a, <2>1, <2>2, TakeDrop
  <2>4. kernel' \in Seq(Units)
    BY <1>a, <2>1, <2>3, ConcatProperties
  <2> QED
    BY <1>a, <1>5, <2>3, <2>4 DEF Writes
<1>6. CASE UNCHANGED vars
  BY <1>a, <1>6 DEF vars
<1> QED
  BY <1>1, <1>2, <1>3, <1>4, <1>5, <1>6 DEF Next, Main

(* Every variable keeps its type, and the buffer is never overrun.         *)
THEOREM TypeCorrect == Spec => []TypeOK
  BY TypeInit, TypeStep, PTL DEF Spec
-----------------------------------------------------------------------------
(* The lines.                                                              *)

(* Where in the input fgets is.                                            *)
Pos == LineEnd(input)[Len(out)]

LEMMA Position ==
  ASSUME TypeOK
  PROVE  /\ Len(input) \in Nat /\ Len(out) \in Nat /\ Pos \in 0..Len(input) /\ Pos \in Nat
         /\ LineEnd(input)[Len(out) + 1] = NextEnd(input, Pos)
         /\ \A i \in 1..Len(input) : input[i] \in Units
<1>1. input \in Seq(Units) /\ out \in Seq(Seq(Units))
  BY SeqTypes
<1>2. Len(input) \in Nat /\ Len(out) \in Nat /\ \A i \in 1..Len(input) : input[i] \in Units
  BY <1>1, LenProperties
<1>3. LineEnd(input) \in [Nat -> 0..Len(input)]
  BY <1>1, LineEndDef
<1>4. Pos \in 0..Len(input)
  BY <1>2, <1>3 DEF Pos
<1>5. LineEnd(input)[Len(out) + 1] = NextEnd(input, Pos)
  BY <1>1, <1>2, LineEndDef DEF Pos
<1> QED
  BY <1>2, <1>4, <1>5

(* What stdio holds is the input from there on ...                         *)
LEMMA Ahead ==
  ASSUME TypeOK, StreamInv
  PROVE  /\ Len(stdio) \in Nat /\ Len(kernel) \in Nat /\ Len(unsent) \in Nat
         /\ Pos + Len(stdio) + Len(kernel) + Len(unsent) = Len(input)
         /\ \A i \in 1..Len(stdio) : stdio[i] = input[Pos + i]
<1>1. /\ stdio \in Seq(Units) /\ kernel \in Seq(Units) /\ unsent \in Seq(Units)
      /\ input \in Seq(Units)
  BY SeqTypes
<1>2. /\ stdio \o kernel \in Seq(Units) /\ Len(stdio \o kernel) = Len(stdio) + Len(kernel)
      /\ Len(stdio) \in Nat /\ Len(kernel) \in Nat
      /\ \A i \in 1..Len(stdio) : (stdio \o kernel)[i] = stdio[i]
  BY <1>1, Concat
<1>3. /\ Len(stdio \o kernel \o unsent) = Len(stdio) + Len(kernel) + Len(unsent)
      /\ Len(unsent) \in Nat
      /\ \A i \in 1..Len(stdio) + Len(kernel) :
           (stdio \o kernel \o unsent)[i] = (stdio \o kernel)[i]
  BY <1>1, <1>2, Concat
<1>4. /\ Len(Drop(input, Pos)) = Len(input) - Pos
      /\ \A i \in 1..Len(input) - Pos : Drop(input, Pos)[i] = input[Pos + i]
  BY <1>1, Position, TakeDrop
<1>5. stdio \o kernel \o unsent = Drop(input, Pos)
  BY DEF StreamInv, Pos
<1>6. Len(stdio) + Len(kernel) + Len(unsent) = Len(input) - Pos
  BY <1>3, <1>4, <1>5
<1>7. ASSUME NEW i \in 1..Len(stdio) PROVE stdio[i] = input[Pos + i]
  <2>1. i \in 1..Len(stdio) + Len(kernel) /\ i \in 1..Len(input) - Pos
    BY <1>2, <1>3, <1>6, Position
  <2> QED
    BY <1>2, <1>3, <1>4, <1>5, <2>1
<1> QED
  BY <1>2, <1>3, <1>6, <1>7, Position

(* ... and what is ahead of it when it is dropped, too.                    *)
LEMMA DropAhead ==
  ASSUME TypeOK, StreamInv, NEW n \in 0..Len(stdio)
  PROVE  Drop(stdio, n) \o kernel \o unsent = Drop(input, Pos + n)
<1>1. /\ stdio \in Seq(Units) /\ kernel \in Seq(Units) /\ unsent \in Seq(Units)
      /\ input \in Seq(Units)
  BY SeqTypes
<1>2. /\ stdio \o kernel \in Seq(Units) /\ Len(stdio \o kernel) = Len(stdio) + Len(kernel)
      /\ Len(stdio) \in Nat /\ Len(kernel) \in Nat
  BY <1>1, Concat
<1>3. n \in Nat /\ n <= Len(stdio) /\ n \in 0..Len(stdio \o kernel)
  BY <1>2
<1>4. Drop(stdio, n) \o kernel = Drop(stdio \o kernel, n)
  BY <1>1, DropConcat
<1>5. Drop(stdio \o kernel, n) \o unsent = Drop(stdio \o kernel \o unsent, n)
  BY <1>1, <1>2, <1>3, DropConcat
<1>6. stdio \o kernel \o unsent = Drop(input, Pos)
  BY DEF StreamInv, Pos
<1>7. Pos + n <= Len(input) /\ Pos \in Nat
  BY <1>3, Ahead, Position
<1>8. Drop(Drop(input, Pos), n) = Drop(input, Pos + n)
  BY <1>1, <1>3, <1>7, DropDrop
<1> QED
  BY <1>4, <1>5, <1>6, <1>8

(* A prefix of what stdio holds is a piece of the input.                   *)
LEMMA PieceOfInput ==
  ASSUME TypeOK, StreamInv, NEW n \in 0..Len(stdio)
  PROVE  Take(stdio, n) = SubSeq(input, Pos + 1, Pos + n)
<1>1. stdio \in Seq(Units) /\ input \in Seq(Units)
  BY SeqTypes
<1>2. /\ Len(stdio) \in Nat /\ Pos + Len(stdio) <= Len(input)
      /\ Pos \in Nat /\ Len(input) \in Nat /\ n \in Nat /\ n <= Len(stdio)
      /\ \A i \in 1..Len(stdio) : stdio[i] = input[Pos + i]
      /\ \A i \in 1..Len(input) : input[i] \in Units
  BY Ahead, Position
<1>3. /\ Take(stdio, n) \in Seq(Units) /\ Len(Take(stdio, n)) = n
      /\ \A i \in 1..n : Take(stdio, n)[i] = stdio[i]
  BY <1>1, TakeDrop
<1> DEFINE m == Pos + 1
           k == Pos + n
<1>4. m \in Int /\ k \in Int /\ \A i \in m..k : input[i] \in Units
  BY <1>2
<1>5. /\ k - m + 1 = n /\ (IF m <= k THEN k - m + 1 ELSE 0) = n
      /\ \A i \in 1..n : m + i - 1 = Pos + i /\ i \in 1..Len(stdio)
  BY <1>2
<1> HIDE DEF m, k
<1>6. /\ SubSeq(input, m, k) \in Seq(Units)
      /\ Len(SubSeq(input, m, k)) = IF m <= k THEN k - m + 1 ELSE 0
      /\ \A i \in 1..k - m + 1 : SubSeq(input, m, k)[i] = input[m + i - 1]
  BY <1>4, SubSeqProperties
<1>7. \A i \in 1..n : Take(stdio, n)[i] = SubSeq(input, m, k)[i]
  BY <1>2, <1>3, <1>5, <1>6
<1>8. Take(stdio, n) = SubSeq(input, m, k)
  BY <1>3, <1>5, <1>6, <1>7, SeqEqual
<1> QED
  BY <1>8 DEF m, k

(* fgets stops where the string of the whole input ends ...                *)
LEMMA FgetsCuts ==
  ASSUME TypeOK, StreamInv, NEW n, Stops(n)
  PROVE  /\ Pos < Len(input) /\ LineEnd(input)[Len(out) + 1] = Pos + n
         /\ Take(stdio, n) = Line(input, Len(out) + 1)
<1>1. stdio \in Seq(Units) /\ input \in Seq(Units)
  BY SeqTypes
<1>2. n \in 1..Len(stdio) /\ n \in 0..Len(stdio) /\ n \in Nat /\ n <= Cap
  BY <1>1, StopsBound
<1>3. /\ Len(stdio) \in Nat /\ Pos + Len(stdio) <= Len(input)
      /\ Pos \in Nat /\ Len(input) \in Nat /\ Len(out) \in Nat
      /\ \A i \in 1..Len(stdio) : stdio[i] = input[Pos + i]
  BY Ahead, Position
<1>4. EndsAt(input, Pos, Pos + n)
  <2>1. Pos + n \in Pos + 1..Len(input)
    BY <1>2, <1>3
  <2>2. Pos + n = Pos + Cap \/ input[Pos + n] = "newline"
    BY <1>2, <1>3 DEF Stops
  <2>3. ASSUME NEW i \in Pos + 1..Pos + n - 1
        PROVE  i # Pos + Cap /\ input[i] # "newline"
    <3> DEFINE j == i - Pos
    <3>1. j \in 1..n - 1 /\ j \in 1..Len(stdio) /\ i = Pos + j
      BY <1>2, <1>3
    <3> HIDE DEF j
    <3>2. j # Cap /\ stdio[j] # "newline" /\ stdio[j] = input[Pos + j]
      BY <1>3, <3>1 DEF Stops
    <3> QED
      BY <1>3, <3>1, <3>2, SizesAssumption
  <2>4. Pos + n \in {Pos + Cap, Len(input)} \/ input[Pos + n] = "newline"
    BY <2>2
  <2> QED
    BY <1>2, <1>3, <2>1, <2>3, <2>4 DEF EndsAt
<1>5. Pos < Len(input) /\ NextEnd(input, Pos) = Pos + n
  BY <1>1, <1>3, <1>4, NextEndUnique
<1>6. LineEnd(input)[Len(out) + 1] = Pos + n
  BY <1>5, Position
<1>7. Line(input, Len(out) + 1) = SubSeq(input, Pos + 1, Pos + n)
  <2>1. (Len(out) + 1) - 1 = Len(out)
    BY <1>3
  <2> QED
    BY <1>6, <2>1 DEF Line, Pos
<1>8. Take(stdio, n) = SubSeq(input, Pos + 1, Pos + n)
  BY <1>1, <1>2, <1>3, PieceOfInput
<1> QED
  BY <1>5, <1>6, <1>7, <1>8

(* ... and returns the last string when the stream has ended.              *)
LEMMA FgetsEndCuts ==
  ASSUME TypeOK, StreamInv, ~Full, kernel = <<>>, closed, stdio # <<>>
  PROVE  /\ Pos < Len(input) /\ LineEnd(input)[Len(out) + 1] = Len(input)
         /\ Len(input) = Pos + Len(stdio)
         /\ stdio = Line(input, Len(out) + 1)
<1>1. stdio \in Seq(Units) /\ input \in Seq(Units)
  BY SeqTypes
<1>2. /\ Len(stdio) \in Nat /\ Pos + Len(stdio) = Len(input)
      /\ Pos \in Nat /\ Len(input) \in Nat /\ Len(out) \in Nat
      /\ \A i \in 1..Len(stdio) : stdio[i] = input[Pos + i]
  <2>1. Len(kernel) = 0 /\ Len(unsent) = 0
    BY EmptySeq DEF StreamInv
  <2> QED
    BY <2>1, Ahead, Position
<1>3. Len(stdio) # 0
  BY <1>1, EmptySeq
<1>4. EndsAt(input, Pos, Pos + Len(stdio))
  <2>1. Pos + Len(stdio) \in Pos + 1..Len(input)
    BY <1>2, <1>3
  <2>2. ASSUME NEW i \in Pos + 1..Pos + Len(stdio) - 1
        PROVE  i # Pos + Cap /\ input[i] # "newline"
    <3> DEFINE j == i - Pos
    <3>1. j \in 1..Len(stdio) /\ i = Pos + j
      BY <1>2
    <3> HIDE DEF j
    <3>2. Len(stdio) < Cap /\ stdio[j] # "newline" /\ stdio[j] = input[Pos + j]
      BY <1>1, <1>2, <3>1, NotFull
    <3> QED
      BY <1>2, <3>1, <3>2, SizesAssumption
  <2> QED
    BY <1>2, <2>1, <2>2 DEF EndsAt
<1>5. Pos < Len(input) /\ NextEnd(input, Pos) = Pos + Len(stdio)
  BY <1>1, <1>2, <1>4, NextEndUnique
<1>6. LineEnd(input)[Len(out) + 1] = Pos + Len(stdio)
  BY <1>5, Position
<1>7. Line(input, Len(out) + 1) = SubSeq(input, Pos + 1, Pos + Len(stdio))
  <2>1. (Len(out) + 1) - 1 = Len(out)
    BY <1>2
  <2> QED
    BY <1>6, <2>1 DEF Line, Pos
<1>8. Take(stdio, Len(stdio)) = SubSeq(input, Pos + 1, Pos + Len(stdio))
  <2>1. Len(stdio) \in 0..Len(stdio)
    BY <1>2
  <2> QED
    BY <1>1, <1>2, <2>1, PieceOfInput
<1>9. Take(stdio, Len(stdio)) = stdio
  BY <1>1, SubSeqFull DEF Take
<1> QED
  BY <1>2, <1>5, <1>6, <1>7, <1>8, <1>9

(* A string more, and it is the next one of the input.                     *)
LEMMA LineAppended ==
  ASSUME TypeOK, LinesInOrder, NEW l \in Seq(Units),
         Pos < Len(input), l = Line(input, Len(out) + 1),
         input' = input, out' = Append(out, l)
  PROVE  LinesInOrder' /\ Len(out') = Len(out) + 1
<1>1. out \in Seq(Seq(Units)) /\ Len(out) \in Nat
  BY SeqTypes, Position
<1>2. /\ Len(out') = Len(out) + 1 /\ out'[Len(out) + 1] = l
      /\ \A k \in 1..Len(out) : out'[k] = out[k]
  BY <1>1, AppendProperties
<1>3. ASSUME NEW k \in 1..Len(out) + 1
      PROVE  LineEnd(input)[k - 1] < Len(input) /\ out'[k] = Line(input, k)
  <2>1. CASE k \in 1..Len(out)
    BY <1>2, <2>1 DEF LinesInOrder
  <2>2. CASE k = Len(out) + 1
    <3>1. k - 1 = Len(out)
      BY <1>1, <2>2
    <3> QED
      BY <1>2, <2>2, <3>1 DEF Pos
  <2> QED
    BY <1>1, <2>1, <2>2
<1> QED
  BY <1>2, <1>3 DEF LinesInOrder

LEMMA LinesInit == Init => LinesInOrder /\ StreamInv
<1> SUFFICES ASSUME Init PROVE LinesInOrder /\ StreamInv
  OBVIOUS
<1>1. /\ input \in Seq(Units) /\ unsent = input /\ Len(out) = 0 /\ ~closed
      /\ stdio = <<>> /\ kernel = <<>>
  BY InputsAssumption, EmptySeq DEF Init
<1>2. LineEnd(input)[Len(out)] = 0
  BY <1>1, LineEndDef
<1>3. stdio \o kernel \o unsent = input
  BY <1>1, EmptySeq, ConcatEmptySeq
<1>4. Drop(input, 0) = input
  BY <1>1, SubSeqFull DEF Drop
<1>5. StreamInv
  BY <1>1, <1>2, <1>3, <1>4 DEF StreamInv
<1>6. LinesInOrder
  BY <1>1 DEF LinesInOrder
<1> QED
  BY <1>5, <1>6

LEMMA LinesStep ==
  ASSUME TypeOK, LinesInOrder, StreamInv, [Next]_vars
  PROVE  LinesInOrder' /\ StreamInv'
<1>a. /\ input \in Seq(Units) /\ unsent \in Seq(Units) /\ kernel \in Seq(Units)
      /\ stdio \in Seq(Units)
  BY SeqTypes
<1>b. /\ stdio \o kernel \o unsent = Drop(input, Pos)
      /\ closed => unsent = <<>> /\ writer = "pipe"
  BY DEF StreamInv, Pos
<1>c. input' = input /\ writer' = writer
  BY DEF Next, Main, vars, env, EpollCreate, EpollAdd, While, EpollWait, ExitFailure, Fill,
         Fgets, FgetsEnd, Compare, Writes, Closes
<1>d. ASSUME out' = out PROVE LinesInOrder' /\ Pos' = Pos
  BY <1>c, <1>d DEF LinesInOrder, Pos
<1>e. ASSUME out' = out, stdio' \o kernel' \o unsent' = stdio \o kernel \o unsent,
             closed' => unsent' = <<>> /\ writer' = "pipe"
      PROVE  LinesInOrder' /\ StreamInv'
  <2>1. LinesInOrder' /\ Pos' = Pos
    BY <1>d, <1>e
  <2>2. stdio' \o kernel' \o unsent' = Drop(input', Pos')
    BY <1>b, <1>c, <1>e, <2>1
  <2> QED
    BY <1>e, <2>1, <2>2 DEF StreamInv, Pos
<1>1. CASE EpollCreate \/ EpollAdd \/ While \/ EpollWait \/ Compare \/ Closes \/ UNCHANGED vars
  <2>1. /\ out' = out /\ stdio' = stdio /\ kernel' = kernel /\ unsent' = unsent
        /\ closed' => closed \/ (unsent = <<>> /\ writer = "pipe")
    BY <1>1 DEF EpollCreate, EpollAdd, While, EpollWait, Compare, Closes, ExitFailure, env, vars
  <2> QED
    BY <1>b, <1>c, <1>e, <2>1
<1>2. CASE Writes
  <2>1. PICK n \in 1..Len(unsent) : kernel' = kernel \o Take(unsent, n) /\ unsent' = Drop(unsent, n)
    BY <1>2 DEF Writes
  <2>2. out' = out /\ stdio' = stdio /\ closed' = closed
    BY <1>2 DEF Writes
  <2>3. Len(unsent) \in Nat /\ n \in 0..Len(unsent) /\ unsent # <<>>
    BY <1>a, <2>1, LenProperties, EmptySeq
  <2>4. /\ Take(unsent, n) \in Seq(Units) /\ Drop(unsent, n) \in Seq(Units)
        /\ Take(unsent, n) \o Drop(unsent, n) = unsent
    BY <1>a, <2>3, TakeDrop
  <2> DEFINE t == Take(unsent, n)
             d == Drop(unsent, n)
  <2>5. t \in Seq(Units) /\ d \in Seq(Units) /\ t \o d = unsent
        /\ kernel' = kernel \o t /\ unsent' = d
    BY <2>1, <2>4
  <2> HIDE DEF t, d
  <2>6. stdio \o (kernel \o t) \o d = stdio \o kernel \o unsent
    <3>1. stdio \o kernel \in Seq(Units)
      BY <1>a, Concat
    <3>2. stdio \o (kernel \o t) = (stdio \o kernel) \o t
      BY <1>a, <2>5, Assoc, ZenonT(60)
    <3>3. ((stdio \o kernel) \o t) \o d = (stdio \o kernel) \o (t \o d)
      BY <2>5, <3>1, Assoc, ZenonT(60)
    <3> QED
      BY <2>5, <3>2, <3>3
  <2>7. stdio' \o kernel' \o unsent' = stdio \o kernel \o unsent
    BY <2>2, <2>5, <2>6
  <2> QED
    BY <1>b, <1>e, <2>2, <2>3, <2>7
<1>3. CASE Fill
  <2>0. PICK n \in 1..Len(kernel) :
          Reads(n) /\ stdio' = stdio \o Take(kernel, n) /\ kernel' = Drop(kernel, n)
    BY <1>3 DEF Fill
  <2> DEFINE t == Take(kernel, n)
             d == Drop(kernel, n)
  <2>1. /\ t \in Seq(Units) /\ d \in Seq(Units) /\ t \o d = kernel
    BY <1>a, <2>0, ReadsRange, TakeDrop
  <2>2. /\ stdio' = stdio \o t /\ kernel' = d
        /\ out' = out /\ unsent' = unsent /\ closed' = closed
    BY <1>3, <2>0 DEF Fill, env
  <2> HIDE DEF t, d
  <2>3. (stdio \o t) \o d = stdio \o kernel
    BY <1>a, <2>1, Assoc, ZenonT(60)
  <2>4. stdio' \o kernel' \o unsent' = stdio \o kernel \o unsent
    BY <2>2, <2>3
  <2> QED
    BY <1>b, <1>c, <1>e, <2>2, <2>4
<1>4. CASE Fgets
  <2>1. PICK n \in 1..Len(stdio) :
          Stops(n) /\ buffer' = Take(stdio, n) /\ stdio' = Drop(stdio, n)
    BY <1>4 DEF Fgets
  <2>2. out' = Append(out, Take(stdio, n)) /\ kernel' = kernel /\ unsent' = unsent /\ closed' = closed
    BY <1>4, <2>1 DEF Fgets, env
  <2>3. n \in 0..Len(stdio)
    BY <1>a, <2>1, StopsBound
  <2>4. /\ Pos < Len(input) /\ LineEnd(input)[Len(out) + 1] = Pos + n
        /\ Take(stdio, n) = Line(input, Len(out) + 1)
    BY <2>1, FgetsCuts
  <2>5. Take(stdio, n) \in Seq(Units)
    BY <1>a, <2>3, TakeDrop
  <2>6. LinesInOrder' /\ Len(out') = Len(out) + 1
    BY <1>c, <2>2, <2>4, <2>5, LineAppended
  <2>7. stdio' \o kernel' \o unsent' = Drop(input, Pos + n)
    BY <2>1, <2>2, <2>3, DropAhead
  <2>8. stdio' \o kernel' \o unsent' = Drop(input', LineEnd(input')[Len(out')])
    BY <1>c, <2>4, <2>6, <2>7
  <2>9. closed' => unsent' = <<>> /\ writer' = "pipe"
    BY <1>b, <1>c, <2>2
  <2> QED
    BY <2>6, <2>8, <2>9 DEF StreamInv
<1>5. CASE FgetsEnd
  <2>1. /\ ~Full /\ kernel = <<>> /\ closed /\ stdio' = <<>> /\ kernel' = kernel
        /\ unsent' = unsent /\ closed' = closed
    BY <1>5 DEF FgetsEnd, env
  <2>2. CASE stdio = <<>>
    <3>1. out' = out
      BY <1>5, <2>2 DEF FgetsEnd
    <3> QED
      BY <1>b, <1>c, <1>e, <2>1, <2>2, <3>1
  <2>3. CASE stdio # <<>>
    <3>1. out' = Append(out, stdio)
      BY <1>5, <2>3 DEF FgetsEnd
    <3>2. /\ Pos < Len(input) /\ LineEnd(input)[Len(out) + 1] = Len(input)
          /\ Len(input) = Pos + Len(stdio)
          /\ stdio = Line(input, Len(out) + 1)
      BY <2>1, <2>3, FgetsEndCuts
    <3>3. LinesInOrder' /\ Len(out') = Len(out) + 1
      BY <1>a, <1>c, <3>1, <3>2, LineAppended
    <3>4. unsent = <<>> /\ <<>> \o <<>> \o <<>> = <<>>
      BY <1>b, <2>1, EmptySeq, ConcatEmptySeq
    <3>5. Drop(input, Len(input)) = <<>>
      <4>1. Len(input) \in Nat /\ Len(input) \in 0..Len(input)
        BY <1>a, LenProperties
      <4>2. /\ Drop(input, Len(input)) \in Seq(Units)
            /\ Len(Drop(input, Len(input))) = Len(input) - Len(input)
        BY <1>a, <4>1, TakeDrop
      <4>3. Len(Drop(input, Len(input))) = 0
        BY <4>1, <4>2
      <4> QED
        BY <4>2, <4>3, EmptySeq
    <3>6. stdio' \o kernel' \o unsent' = Drop(input', LineEnd(input')[Len(out')])
      BY <1>c, <2>1, <3>2, <3>3, <3>4, <3>5
    <3> QED
      BY <1>b, <1>c, <2>1, <3>3, <3>6 DEF StreamInv
  <2> QED
    BY <2>2, <2>3
<1> QED
  BY <1>1, <1>2, <1>3, <1>4, <1>5 DEF Next, Main

(* However the writes, the events and the blocks of stdio fall, the strings*)
(* that fgets has stored are the first lines of the input, in order.       *)
THEOREM LinesHandledInOrder == Spec => []LinesInOrder
<1>1. Init => TypeOK /\ LinesInOrder /\ StreamInv
  BY TypeInit, LinesInit
<1>2. /\ TypeOK /\ LinesInOrder /\ StreamInv
      /\ [Next]_vars
      => (TypeOK /\ LinesInOrder /\ StreamInv)'
  BY TypeStep, LinesStep
<1> QED
  BY <1>1, <1>2, PTL DEF Spec
-----------------------------------------------------------------------------
(* The line "exit".                                                        *)

(* A string that fgets stores is in the buffer, and none before it is the  *)
(* line "exit": the program would have stopped.                            *)
LEMMA BufferIsLast ==
  ASSUME TypeOK, ExitInv, pc = "fgets", NEW l \in Seq(Units),
         buffer' = l, out' = Append(out, l)
  PROVE  /\ buffer' = IF out' = <<>> THEN <<>> ELSE Last(out')
         /\ \A k \in 1..Len(out') - 1 : out'[k] # ExitLine
<1>1. out \in Seq(Seq(Units)) /\ Len(out) \in Nat
  BY SeqTypes, Position
<1>2. /\ out' \in Seq(Seq(Units)) /\ Len(out') = Len(out) + 1 /\ out'[Len(out) + 1] = l
      /\ \A k \in 1..Len(out) : out'[k] = out[k]
  BY <1>1, AppendProperties
<1>3. out' # <<>>
  BY <1>1, <1>2, EmptySeq
<1>4. buffer # ExitLine
  BY DEF ExitInv
<1>5. ASSUME NEW k \in 1..Len(out) PROVE out[k] # ExitLine
  <2>1. CASE k = Len(out)
    <3>1. out # <<>>
      BY <1>1, <1>5, EmptySeq
    <3> QED
      BY <1>4, <2>1, <3>1 DEF ExitInv, Last
  <2>2. CASE k # Len(out)
    <3>1. k \in 1..Len(out) - 1
      BY <1>1, <2>2
    <3> QED
      BY <3>1 DEF ExitInv
  <2> QED
    BY <2>1, <2>2
<1>6. \A k \in 1..Len(out') - 1 : k \in 1..Len(out)
  BY <1>1, <1>2
<1>7. \A k \in 1..Len(out') - 1 : out'[k] # ExitLine
  BY <1>2, <1>5, <1>6
<1>8. Last(out') = l
  BY <1>2 DEF Last
<1> QED
  BY <1>3, <1>7, <1>8

LEMMA ExitNotEmpty == <<>> # ExitLine
<1>1. Len(ExitLine) = 2
  BY DEF ExitLine
<1>2. Len(<<>>) = 0
  BY EmptySeq
<1> QED
  BY <1>1, <1>2

LEMMA ExitInit == Init => ExitInv
<1> SUFFICES ASSUME Init PROVE ExitInv
  OBVIOUS
<1>1. out = <<>> /\ buffer = <<>> /\ is_exit = 1 /\ pc = "create" /\ Len(out) = 0
  BY EmptySeq DEF Init
<1> QED
  BY <1>1, ExitNotEmpty DEF ExitInv

LEMMA ExitStep ==
  ASSUME TypeOK, ExitInv, [Next]_vars
  PROVE  ExitInv'
<1>a. /\ buffer = IF out = <<>> THEN <<>> ELSE Last(out)
      /\ is_exit = 0 => pc \in {"while", "returned"} /\ buffer = ExitLine
      /\ pc = "returned" => is_exit = 0
      /\ buffer = ExitLine => is_exit = 0 \/ pc = "compare"
      /\ \A k \in 1..Len(out) - 1 : out[k] # ExitLine
  BY DEF ExitInv
<1>b. is_exit \in {0, 1} /\ stdio \in Seq(Units)
  BY SeqTypes
<1>c. ASSUME out' = out, buffer' = buffer,
             is_exit' = 0 => pc' \in {"while", "returned"} /\ buffer = ExitLine,
             pc' = "returned" => is_exit' = 0,
             buffer = ExitLine => is_exit' = 0 \/ pc' = "compare"
      PROVE  ExitInv'
  BY <1>a, <1>c DEF ExitInv
<1>d. ASSUME pc = "fgets", pc' = "compare", is_exit' = is_exit,
             NEW l \in Seq(Units), buffer' = l, out' = Append(out, l)
      PROVE  ExitInv'
  <2>1. /\ buffer' = IF out' = <<>> THEN <<>> ELSE Last(out')
        /\ \A k \in 1..Len(out') - 1 : out'[k] # ExitLine
    BY <1>d, BufferIsLast
  <2>2. is_exit' # 0
    BY <1>a, <1>d
  <2> QED
    BY <1>d, <2>1, <2>2 DEF ExitInv
<1>1. CASE EpollCreate \/ EpollAdd \/ While \/ EpollWait \/ Fill \/ Closes \/ Writes \/ UNCHANGED vars
  <2>1. out' = out /\ buffer' = buffer /\ is_exit' = is_exit
    BY <1>1 DEF EpollCreate, EpollAdd, While, EpollWait, Fill, Closes, Writes, ExitFailure, env, vars
  <2>2. \/ pc \in {"create", "add", "wait"} /\ pc' \notin {"compare", "returned"}
        \/ pc = "while" /\ IF is_exit = 1 THEN pc' = "wait" ELSE pc' = "returned"
        \/ pc' = pc
    BY <1>1 DEF EpollCreate, EpollAdd, While, EpollWait, Fill, Closes, Writes, ExitFailure, vars
  <2> QED
    BY <1>a, <1>b, <1>c, <2>1, <2>2
<1>2. CASE Compare
  <2>1. /\ out' = out /\ buffer' = buffer /\ pc = "compare" /\ pc' = "while"
        /\ IF buffer = ExitLine THEN is_exit' = 0 ELSE is_exit' = is_exit
    BY <1>2 DEF Compare, ExitLine, env
  <2> QED
    BY <1>a, <1>c, <2>1
<1>3. CASE Fgets
  <2>1. PICK n \in 1..Len(stdio) : Stops(n) /\ buffer' = Take(stdio, n)
    BY <1>3 DEF Fgets
  <2>2. Take(stdio, n) \in Seq(Units)
    BY <1>b, <2>1, StopsBound, TakeDrop
  <2>3. pc = "fgets" /\ pc' = "compare" /\ is_exit' = is_exit /\ out' = Append(out, Take(stdio, n))
    BY <1>3, <2>1 DEF Fgets
  <2> QED
    BY <1>d, <2>1, <2>2, <2>3
<1>4. CASE FgetsEnd
  <2>1. pc = "fgets" /\ pc' = "compare" /\ is_exit' = is_exit
    BY <1>4 DEF FgetsEnd
  <2>2. CASE stdio # <<>>
    <3>1. buffer' = stdio /\ out' = Append(out, stdio)
      BY <1>4, <2>2 DEF FgetsEnd
    <3> QED
      BY <1>b, <1>d, <2>1, <3>1
  <2>3. CASE stdio = <<>>
    <3>1. buffer' = buffer /\ out' = out
      BY <1>4, <2>3 DEF FgetsEnd
    <3> QED
      BY <1>a, <1>c, <2>1, <3>1
  <2> QED
    BY <2>2, <2>3
<1> QED
  BY <1>1, <1>2, <1>3, <1>4 DEF Next, Main

LEMMA ExitReturns == ExitInv => ReturnsOnExit
<1> SUFFICES ASSUME ExitInv PROVE ReturnsOnExit
  OBVIOUS
<1>1. ASSUME pc = "returned" PROVE out # <<>> /\ Last(out) = ExitLine
  <2>1. buffer = ExitLine /\ buffer = IF out = <<>> THEN <<>> ELSE Last(out)
    BY <1>1 DEF ExitInv
  <2> QED
    BY <2>1, ExitNotEmpty
<1> QED
  BY <1>1 DEF ExitInv, ReturnsOnExit

(* The program returns only behind the line "exit", and handles none of    *)
(* the lines behind it.                                                    *)
THEOREM ReturnsOnlyOnExit == Spec => []ReturnsOnExit
<1>1. Init => TypeOK /\ ExitInv
  BY TypeInit, ExitInit
<1>2. TypeOK /\ ExitInv /\ [Next]_vars => (TypeOK /\ ExitInv)'
  BY TypeStep, ExitStep
<1>3. TypeOK /\ ExitInv => ReturnsOnExit
  BY ExitReturns
<1> QED
  BY <1>1, <1>2, <1>3, PTL DEF Spec
-----------------------------------------------------------------------------
(* The terminal.                                                           *)

(* If the lines fit into the buffer, fgets stops at newlines only.         *)
LEMMA StopsAtNewline ==
  ASSUME TypeOK, StreamInv, ShortLines, NEW n, Stops(n)
  PROVE  stdio[n] = "newline"
<1>1. stdio \in Seq(Units) /\ input \in Seq(Units)
  BY SeqTypes
<1>2. n \in 1..Len(stdio) /\ n \in 0..Len(stdio) /\ n \in Nat
  BY <1>1, StopsBound
<1>3. Pos < Len(input) /\ Take(stdio, n) = Line(input, Len(out) + 1)
  BY FgetsCuts
<1>4. Len(out) + 1 \in 1..Len(input)
  <2>1. Len(out) \in Nat /\ Len(input) \in Nat /\ Pos \in Nat
    BY Position
  <2>2. Pos >= Len(out) \/ Pos = Len(input)
    BY <1>1, <2>1, LineEndGrows DEF Pos
  <2> QED
    BY <1>3, <2>1, <2>2
<1>5. Len(Take(stdio, n)) = n /\ Take(stdio, n)[n] = stdio[n]
  <2>1. Len(Take(stdio, n)) = n /\ \A i \in 1..n : Take(stdio, n)[i] = stdio[i]
    BY <1>1, <1>2, TakeDrop
  <2>2. n \in 1..n
    BY <1>2
  <2> QED
    BY <2>1, <2>2
<1>6. Last(Take(stdio, n)) = stdio[n]
  BY <1>5 DEF Last
<1>7. CASE n = Cap
  BY <1>3, <1>4, <1>5, <1>6, <1>7 DEF ShortLines
<1>8. CASE n # Cap
  BY <1>8 DEF Stops
<1> QED
  BY <1>7, <1>8

LEMMA TerminalInit == Init => TerminalInv
<1> SUFFICES ASSUME Init PROVE TerminalInv
  OBVIOUS
<1>1. stdio = <<>> /\ Len(stdio) = 0
  BY EmptySeq DEF Init
<1> QED
  BY <1>1 DEF TerminalInv

LEMMA TerminalStep ==
  ASSUME TypeOK, StreamInv, TerminalInv, [Next]_vars
  PROVE  TerminalInv'
<1>a. input' = input /\ writer' = writer
  BY DEF Next, Main, vars, env, EpollCreate, EpollAdd, While, EpollWait, ExitFailure, Fill,
         Fgets, FgetsEnd, Compare, Writes, Closes
<1>b. ShortLines' = ShortLines
  BY <1>a DEF ShortLines
<1> SUFFICES ASSUME writer = "terminal", ShortLines
             PROVE  /\ stdio' # <<>> => pc' = "fgets"
                    /\ \A i \in 1..Len(stdio') - 1 : stdio'[i] # "newline"
  BY <1>a, <1>b DEF TerminalInv
<1>c. /\ stdio # <<>> => pc = "fgets"
      /\ \A i \in 1..Len(stdio) - 1 : stdio[i] # "newline"
  BY DEF TerminalInv
<1>d. kernel \in Seq(Units) /\ stdio \in Seq(Units) /\ Len(stdio) \in Nat
  BY SeqTypes, LenProperties
<1>e. ASSUME stdio' = <<>>
      PROVE  \A i \in 1..Len(stdio') - 1 : stdio'[i] # "newline"
  BY <1>e, EmptySeq
<1>1. CASE EpollCreate \/ EpollAdd \/ While \/ EpollWait \/ Compare
  <2>1. stdio' = stdio /\ pc # "fgets"
    BY <1>1 DEF EpollCreate, EpollAdd, While, EpollWait, Compare, ExitFailure
  <2> QED
    BY <1>c, <2>1
<1>2. CASE Writes \/ Closes \/ UNCHANGED vars
  <2>1. stdio' = stdio /\ pc' = pc
    BY <1>2 DEF Writes, Closes, vars
  <2> QED
    BY <1>c, <2>1
<1>3. CASE FgetsEnd
  BY <1>3, <1>e DEF FgetsEnd
<1>4. CASE Fill
  <2>1. PICK n \in 1..Len(kernel) :
          Reads(n) /\ stdio' = stdio \o Take(kernel, n)
    BY <1>4 DEF Fill
  <2>2. n \in Nat /\ n \in 0..Len(kernel)
    BY <1>d, <2>1, ReadsRange
  <2> DEFINE t == Take(kernel, n)
  <2>3. t \in Seq(Units) /\ Len(t) = n /\ \A i \in 1..n : t[i] = kernel[i]
    BY <1>d, <2>2, TakeDrop
  <2>4. \A i \in 1..n - 1 : kernel[i] # "newline"
    BY <2>1 DEF Reads, EndOfLine
  <2>5. \A i \in 1..Len(stdio) : stdio[i] # "newline"
    BY <1>4, <1>d, NotFull DEF Fill
  <2>6. stdio' = stdio \o t /\ pc' = "fgets"
    BY <1>4, <2>1 DEF Fill
  <2> HIDE DEF t
  <2>7. /\ Len(stdio') = Len(stdio) + n
        /\ \A i \in 1..Len(stdio) : stdio'[i] = stdio[i]
        /\ \A i \in 1..n : stdio'[Len(stdio) + i] = t[i]
    BY <1>d, <2>3, <2>6, Concat
  <2>8. ASSUME NEW i \in 1..Len(stdio') - 1
        PROVE  stdio'[i] # "newline"
    <3>1. CASE i <= Len(stdio)
      BY <1>d, <2>5, <2>7, <3>1
    <3>2. CASE ~(i <= Len(stdio))
      <4> DEFINE j == i - Len(stdio)
      <4>1. j \in 1..n - 1 /\ j \in 1..n /\ i = Len(stdio) + j
        BY <1>d, <2>2, <2>7, <3>2
      <4> HIDE DEF j
      <4>2. t[j] # "newline"
        BY <2>3, <2>4, <4>1
      <4> QED
        BY <2>7, <4>1, <4>2
    <3> QED
      BY <3>1, <3>2
  <2> QED
    BY <2>6, <2>8
<1>5. CASE Fgets
  <2>1. PICK n \in 1..Len(stdio) : Stops(n) /\ stdio' = Drop(stdio, n)
    BY <1>5 DEF Fgets
  <2>2. stdio[n] = "newline"
    BY <2>1, StopsAtNewline
  <2>3. n \in 0..Len(stdio) /\ n = Len(stdio)
    BY <1>c, <1>d, <2>1, <2>2
  <2>4. stdio' \in Seq(Units) /\ Len(stdio') = Len(stdio) - n
    BY <1>d, <2>1, <2>3, TakeDrop
  <2>5. stdio' = <<>>
    BY <1>d, <2>3, <2>4, EmptySeq
  <2> QED
    BY <1>e, <2>5
<1> QED
  BY <1>1, <1>2, <1>3, <1>4, <1>5 DEF Next, Main

(* At a terminal whose lines fit into the buffer, the program never waits  *)
(* for an event while stdio holds a line that epoll does not see.          *)
THEOREM TerminalLinesSeen == Spec => []NoLineUnseen
<1>1. Init => TypeOK /\ LinesInOrder /\ StreamInv /\ TerminalInv
  BY TypeInit, LinesInit, TerminalInit
<1>2. /\ TypeOK /\ LinesInOrder /\ StreamInv /\ TerminalInv
      /\ [Next]_vars
      => (TypeOK /\ LinesInOrder /\ StreamInv /\ TerminalInv)'
  BY TypeStep, LinesStep, TerminalStep
<1>3. TerminalInv => NoLineUnseen
  BY DEF TerminalInv, NoLineUnseen
<1> QED
  BY <1>1, <1>2, <1>3, PTL DEF Spec

(* All of it: the invariant holds initially, every step keeps it.          *)
THEOREM InvariantHolds == Spec => []IInv
<1>1. Init => IInv
  BY TypeInit, LinesInit, ExitInit, TerminalInit DEF IInv
<1>2. IInv /\ [Next]_vars => IInv'
  BY TypeStep, LinesStep, ExitStep, TerminalStep DEF IInv
<1> QED
  BY <1>1, <1>2, PTL DEF Spec
=============================================================================
