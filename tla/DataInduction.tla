--------------------------- MODULE DataInduction ----------------------------
(***************************************************************************)
(* Induction over the natural numbers for the provers at hand, which       *)
(* cannot instantiate a theorem about an operator: what is to be shown is  *)
(* given as the set of the numbers it is shown for, and the step of a      *)
(* recursive function as a function.  Also what the proofs keep needing of *)
(* finite sets of numbers and of the ends of a sequence.                   *)
(***************************************************************************)
EXTENDS Integers, SequencesExt, FiniteSetsExt, SequenceTheorems, WellFoundedInduction, TLAPS

(* A set of natural numbers that is not empty has a least one. *)
LEMMA LeastNumber ==
  ASSUME NEW T, T \subseteq Nat, T # {}
  PROVE  \E x \in T : \A y \in T : x <= y
<1>1. PICK x \in T : \A y \in T : ~(<<y, x>> \in OpToRel(<, Nat))
  BY NatLessThanWellFounded, WFMin
<1>2. \A y \in T : ~(y < x)
  BY <1>1 DEF OpToRel
<1>3. \A y \in T : x <= y
  BY <1>2
<1> QED
  BY <1>3

LEMMA MinFacts ==
  ASSUME NEW T, T \subseteq Nat, T # {}
  PROVE  Min(T) \in T /\ \A y \in T : Min(T) <= y
BY LeastNumber DEF Min

(* What holds for 0 and from each number on for the next one, holds for all. *)
LEMMA SetInduction ==
  ASSUME NEW P, 0 \in P, \A n \in Nat : n \in P => n + 1 \in P
  PROVE  Nat \subseteq P
<1> DEFINE T == Nat \ P
<1> SUFFICES ASSUME T # {} PROVE FALSE
  OBVIOUS
<1>1. PICK x \in T : \A y \in T : x <= y
  <2>1. T \subseteq Nat
    OBVIOUS
  <2> HIDE DEF T
  <2> QED
    BY <2>1, LeastNumber
<1>2. x \in Nat /\ x # 0 /\ x \notin P
  OBVIOUS
<1>3. x - 1 \in Nat /\ ~(x <= x - 1) /\ (x - 1) + 1 = x
  BY <1>2
<1>4. x - 1 \in P
  BY <1>1, <1>3
<1> QED
  BY <1>2, <1>3, <1>4

(* The same up to a bound. *)
LEMMA BoundedInduction ==
  ASSUME NEW m \in Nat, NEW P, 0 \in P,
         \A n \in Nat : n < m /\ n \in P => n + 1 \in P
  PROVE  0 .. m \subseteq P
<1> DEFINE Q == {n \in Nat : n <= m => n \in P}
<1>1. 0 \in Q
  OBVIOUS
<1>2. \A n \in Nat : n \in Q => n + 1 \in Q
  OBVIOUS
<1>3. Nat \subseteq Q
  <2> HIDE DEF Q
  <2> QED
    BY <1>1, <1>2, SetInduction
<1> QED
  BY <1>3

(* f is the recursive function that has value a at 0, and the step g. *)
IsRecursion(f, n, V, a, g) ==
  f \in [0 .. n -> V] /\ f[0] = a /\ \A i \in 1 .. n : f[i] = g[i][f[i-1]]

(* There is one, whatever the step. *)
LEMMA RecursionExists ==
  ASSUME NEW n \in Nat, NEW V, NEW a \in V, NEW g \in [1 .. n -> [V -> V]]
  PROVE  \E f : IsRecursion(f, n, V, a, g)
<1> DEFINE Follows(f, m) == f \in [0 .. m -> V] /\ f[0] = a
                            /\ \A i \in 1 .. m : f[i] = g[i][f[i-1]]
           P == {m \in 0 .. n : \E f : Follows(f, m)}
<1>1. 0 \in P
  <2>1. Follows([i \in 0 .. 0 |-> a], 0)
    OBVIOUS
  <2>2. 0 \in 0 .. n
    OBVIOUS
  <2> HIDE DEF Follows
  <2> QED
    BY <2>1, <2>2
<1>2. ASSUME NEW m \in Nat, m < n, m \in P PROVE m + 1 \in P
  <2>1. PICK f : Follows(f, m)
    BY <1>2
  <2>2. PICK k \in 1 .. n : k = m + 1
    BY <1>2
  <2>3. f[m] \in V /\ g[k] \in [V -> V]
    BY <2>1, <2>2
  <2>4. PICK v \in V : v = g[k][f[m]]
    BY <2>3
  <2> DEFINE h == [i \in 0 .. k |-> IF i = k THEN v ELSE f[i]]
  <2>5. h \in [0 .. k -> V] /\ h[0] = a /\ h[k] = v
    BY <2>1, <2>2
  <2>6. ASSUME NEW i \in 1 .. k PROVE h[i] = g[i][h[i-1]]
    <3>1. CASE i = k
      <4>1. h[i-1] = f[m]
        BY <2>2, <3>1
      <4> QED
        BY <2>4, <3>1, <4>1
    <3>2. CASE i \in 1 .. m
      <4>1. h[i-1] = f[i-1] /\ h[i] = f[i]
        BY <2>2, <3>2
      <4> QED
        BY <2>1, <3>2, <4>1
    <3> QED
      BY <2>2, <3>1, <3>2
  <2>7. Follows(h, k)
    <3> HIDE DEF h
    <3> QED
      BY <2>5, <2>6
  <2> HIDE DEF Follows
  <2> QED
    BY <2>2, <2>7
<1>3. n \in P
  <2>1. n \in 0 .. n
    OBVIOUS
  <2> HIDE DEF P
  <2> QED
    BY <1>1, <1>2, <2>1, BoundedInduction
<1>4. PICK f : Follows(f, n)
  <2> HIDE DEF Follows
  <2> QED
    BY <1>3
<1> QED
  BY <1>4 DEF IsRecursion

(* There is only one. *)
LEMMA RecursionUnique ==
  ASSUME NEW n \in Nat, NEW f, NEW h, NEW g, f[0] = h[0],
         \A i \in 1 .. n : f[i] = g[i][f[i-1]] /\ h[i] = g[i][h[i-1]]
  PROVE  \A i \in 0 .. n : f[i] = h[i]
<1> DEFINE P == {i \in 0 .. n : f[i] = h[i]}
<1>1. 0 \in P
  OBVIOUS
<1>2. ASSUME NEW i \in Nat, i < n, i \in P PROVE i + 1 \in P
  <2>1. PICK k \in 1 .. n : k = i + 1 /\ k - 1 = i
    BY <1>2
  <2>2. f[k] = h[k]
    BY <1>2, <2>1
  <2> QED
    BY <2>1, <2>2
<1>3. 0 .. n \subseteq P
  <2> HIDE DEF P
  <2> QED
    BY <1>1, <1>2, BoundedInduction
<1> QED
  BY <1>3

(* The greatest of a set of numbers with a bound. *)
LEMMA MaxFacts ==
  ASSUME NEW V, V # {}, NEW k \in Nat, \A v \in V : v \in Int /\ v <= k
  PROVE  Max(V) \in V
<1> DEFINE T == {k - v : v \in V}
<1>1. T \subseteq Nat /\ T # {}
  OBVIOUS
<1>2. PICK x \in T : \A y \in T : x <= y
  <2> HIDE DEF T
  <2> QED
    BY <1>1, LeastNumber
<1>3. PICK m \in V : x = k - m
  OBVIOUS
<1>4. \A v \in V : m >= v
  <2> SUFFICES ASSUME NEW v \in V PROVE m >= v
    OBVIOUS
  <2>1. k - m <= k - v
    BY <1>2, <1>3
  <2> QED
    BY <2>1
<1> QED
  BY <1>3, <1>4 DEF Max
-----------------------------------------------------------------------------
(* Front and Last of a sequence that is not empty. *)
LEMMA FrontFacts ==
  ASSUME NEW S, NEW s \in Seq(S), s # <<>>
  PROVE  /\ Len(s) \in Nat \ {0}
         /\ Front(s) \in Seq(S)
         /\ Len(Front(s)) = Len(s) - 1
         /\ \A i \in 1 .. Len(s) - 1 : Front(s)[i] = s[i]
         /\ Last(s) = s[Len(s)]
         /\ Last(s) \in S
<1> DEFINE n == Len(s)
           f == SubSeq(s, 1, n - 1)
<1>1. n \in Nat \ {0}
  BY EmptySeq
<1>2. \A i \in 1 .. n - 1 : s[i] \in S
  BY <1>1, ElementOfSeq
<1>3. n - 1 \in Int /\ 1 \in Int
  BY <1>1
<1>4. /\ f \in Seq(S)
      /\ Len(f) = IF 1 <= n - 1 THEN (n - 1) - 1 + 1 ELSE 0
      /\ \A i \in 1 .. (n - 1) - 1 + 1 : f[i] = s[1 + i - 1]
  BY <1>2, <1>3, SubSeqProperties
<1>5. s[n] \in S
  BY <1>1, ElementOfSeq
<1>6. Front(s) = f /\ Last(s) = s[n]
  BY DEF Front, Last
<1> HIDE DEF n, f
<1>7. Len(f) = n - 1 /\ \A i \in 1 .. n - 1 : f[i] = s[i]
  BY <1>1, <1>4
<1>. QED
  BY <1>1, <1>4, <1>5, <1>6, <1>7 DEF n

(* The first m elements of a sequence. *)
LEMMA Prefix ==
  ASSUME NEW u \in Seq(Nat), NEW m \in Nat, m <= Len(u)
  PROVE  /\ SubSeq(u, 1, m) \in Seq(Nat) /\ Len(SubSeq(u, 1, m)) = m
         /\ \A j \in 1 .. m : SubSeq(u, 1, m)[j] = u[j]
<1>1. \A i \in 1 .. m : i \in 1 .. Len(u)
  OBVIOUS
<1>2. \A i \in 1 .. m : u[i] \in Nat
  BY <1>1, ElementOfSeq
<1>3. m \in Int /\ 1 \in Int
  OBVIOUS
<1>4. /\ SubSeq(u, 1, m) \in Seq(Nat)
      /\ Len(SubSeq(u, 1, m)) = IF 1 <= m THEN m - 1 + 1 ELSE 0
      /\ \A i \in 1 .. m - 1 + 1 : SubSeq(u, 1, m)[i] = u[1 + i - 1]
  BY <1>2, <1>3, SubSeqProperties
<1> QED
  BY <1>4
=============================================================================
