----------------------- MODULE WorkerAutomatonProofs -----------------------
(***************************************************************************)
(* Proofs about a thread of the parallel engine: what the handlers of      *)
(* worker_automaton.c keep of its tree of query stacks and of its syntax   *)
(* stack, whatever the automaton, the constraint table and the text.       *)
(*                                                                         *)
(* Along(Q, levels, d) says that the labels d have grown the levels of a   *)
(* tree.  '[' and a key push a level (AlongPush), the end of a container   *)
(* or of a member pops one (AlongPop), and everything else a handler does  *)
(* leaves a tree that is alike: the same states, counts and roots, but for *)
(* the counts of the last level (AlongAlike).  The handlers read a token   *)
(* in one of a few forms (ReadOn, PopsOn, DescendsOn, Unmatched, Pruned),  *)
(* and each form keeps a tree that has grown (StepGrows).                  *)
(*                                                                         *)
(* Along the text goes a function g that gives for every place what        *)
(* encloses it.  A thread sees only the top of it: what is below, it takes *)
(* away symbol by symbol, and its units remember where.  At the end, what  *)
(* combine makes of these symbols on the stack of worker 0.                *)
(***************************************************************************)
EXTENDS ParallelExecution, SequenceTheorems, FiniteSetTheorems, DataInduction, TLAPS

(***************************************************************************)
(* What the recursive operator of MultiStack collects.                     *)
(***************************************************************************)
(* A number of T is put behind those before it. *)
WithNumber(T, m, x) == IF m \in T THEN Append(x, m) ELSE x

(* f collects the numbers of T one by one. *)
Orders(f, n, T) ==
  /\ f \in [0 .. n -> Seq(1 .. n)] /\ f[0] = <<>>
  /\ \A m \in 1 .. n : f[m] = WithNumber(T, m, f[m-1])

(* Orders defines a function by recursion on the length of the prefix. *)
LEMMA OrderedRecursion ==
  ASSUME NEW n \in Nat, NEW T
  PROVE  \E f : Orders(f, n, T) /\ Ordered(n, T) = f[n]
<1> DEFINE V == Seq(1 .. n)
           g == [m \in 1 .. n |-> [x \in V |-> WithNumber(T, m, x)]]
<1>1. ASSUME NEW m \in 1 .. n, NEW x \in V PROVE WithNumber(T, m, x) \in V
  BY AppendProperties DEF WithNumber
<1>2. <<>> \in V /\ g \in [1 .. n -> [V -> V]]
  <2>1. <<>> \in V
    OBVIOUS
  <2> HIDE DEF V
  <2>. QED
    BY <1>1, <2>1
<1>3. PICK f : IsRecursion(f, n, V, <<>>, g)
  <2> HIDE DEF V, g
  <2>. QED
    BY <1>2, RecursionExists
<1>4. f \in [0 .. n -> V] /\ f[0] = <<>> /\ \A m \in 1 .. n : f[m] = g[m][f[m-1]]
  BY <1>3 DEF IsRecursion
<1>5. ASSUME NEW m \in 1 .. n PROVE f[m] = WithNumber(T, m, f[m-1])
  <2> HIDE DEF V
  <2>1. f[m-1] \in V
    BY <1>4
  <2>. QED
    BY <1>4, <2>1
<1> HIDE DEF V, g
<1>6. ASSUME NEW m \in 0 .. n
      PROVE  f[m] = IF m = 0 THEN <<>> ELSE WithNumber(T, m, f[m-1])
  BY <1>4, <1>5
<1>7. f = [m \in 0 .. n |-> IF m = 0 THEN <<>> ELSE WithNumber(T, m, f[m-1])]
  BY <1>4, <1>6
<1> DEFINE h == CHOOSE A :
             A = [m \in 0 .. n |-> IF m = 0 THEN <<>>
                                   ELSE IF m \in T THEN Append(A[m-1], m) ELSE A[m-1]]
           h0 == CHOOSE A :
             A = [m \in 0 .. n |-> IF m = 0 THEN <<>> ELSE WithNumber(T, m, A[m-1])]
<1>8. Ordered(n, T) = h[n]
  BY DEF Ordered
<1>9. h0 = [m \in 0 .. n |-> IF m = 0 THEN <<>> ELSE WithNumber(T, m, h0[m-1])]
  BY <1>7
<1>10. h = h0
  BY DEF WithNumber
<1> HIDE DEF h, h0
<1>11. ASSUME NEW m \in 0 .. n
       PROVE  h0[m] = IF m = 0 THEN <<>> ELSE WithNumber(T, m, h0[m-1])
  BY <1>9
<1>12. h0[n] = f[n]
  <2> DEFINE P == {m \in 0 .. n : h0[m] = f[m]}
  <2>1. 0 \in P
    <3>1. 0 \in 0 .. n
      OBVIOUS
    <3>. QED
      BY <1>6, <1>11, <3>1
  <2>2. ASSUME NEW m \in Nat, m < n, m \in P PROVE m + 1 \in P
    <3>1. PICK l \in 0 .. n : l = m + 1 /\ l - 1 = m /\ l # 0
      BY <2>2
    <3>2. h0[l] = WithNumber(T, l, h0[l-1]) /\ f[l] = WithNumber(T, l, f[l-1])
      BY <1>6, <1>11, <3>1
    <3>3. h0[l-1] = f[l-1]
      BY <2>2, <3>1
    <3>. QED
      BY <3>1, <3>2, <3>3
  <2>3. 0 .. n \subseteq P
    <3> HIDE DEF P
    <3>. QED
      BY <2>1, <2>2, BoundedInduction
  <2>. QED
    BY <2>3
<1>. QED
  BY <1>4, <1>5, <1>8, <1>10, <1>12 DEF Orders, V

(* What the first m steps have collected. *)
CollectedBy(s, m, n, T) ==
  /\ \A a \in 1 .. Len(s) : s[a] \in T /\ s[a] <= m
  /\ \A a, b \in 1 .. Len(s) : a < b => s[a] < s[b]
  /\ \A x \in 1 .. m : x \in T => \E a \in 1 .. Len(s) : s[a] = x

(* Ordered(n, T) lists the numbers of T up to n, each once and in order. *)
LEMMA OrderedFacts ==
  ASSUME NEW n \in Nat, NEW T, NEW s, s = Ordered(n, T)
  PROVE  /\ s \in Seq(1 .. n)
         /\ \A a \in 1 .. Len(s) : s[a] \in T
         /\ \A a, b \in 1 .. Len(s) : s[a] = s[b] => a = b
         /\ \A x \in 1 .. n : x \in T => \E a \in 1 .. Len(s) : s[a] = x
<1>1. PICK f : Orders(f, n, T) /\ s = f[n]
  BY OrderedRecursion
<1> DEFINE P == {m \in 0 .. n : CollectedBy(f[m], m, n, T)}
<1>2. 0 \in P
  BY <1>1 DEF Orders, CollectedBy
<1>3. ASSUME NEW m \in Nat, m < n, m \in P PROVE m + 1 \in P
  <2>1. PICK l \in 1 .. n : l = m + 1 /\ l - 1 = m
    BY <1>3
  <2>2. PICK t \in Seq(1 .. n) : t = f[m]
    BY <1>1, <1>3 DEF Orders
  <2>3. PICK u \in Seq(1 .. n) : u = f[l]
    BY <1>1 DEF Orders
  <2>4. CollectedBy(t, m, n, T) /\ Len(t) \in Nat
    BY <1>3, <2>2
  <2>5. u = IF l \in T THEN Append(t, l) ELSE t
    BY <1>1, <2>1, <2>2, <2>3 DEF Orders, WithNumber
  <2>6. CollectedBy(u, l, n, T)
    <3>1. CASE l \in T
      <4>1. /\ Len(u) = Len(t) + 1 /\ u[Len(t) + 1] = l
            /\ \A x \in 1 .. Len(t) : u[x] = t[x]
        BY <2>5, <3>1, AppendProperties
      <4>2. \A a \in 1 .. Len(t) : t[a] \in 1 .. n
        BY ElementOfSeq
      <4>3. \A a \in 1 .. Len(u) : u[a] \in T /\ u[a] <= l
        <5> SUFFICES ASSUME NEW a \in 1 .. Len(u) PROVE u[a] \in T /\ u[a] <= l
          OBVIOUS
        <5>1. CASE a = Len(t) + 1
          BY <2>1, <3>1, <4>1, <5>1
        <5>2. CASE a \in 1 .. Len(t)
          <6>1. t[a] \in T /\ t[a] <= m /\ t[a] \in 1 .. n
            BY <2>4, <4>2, <5>2 DEF CollectedBy
          <6>. QED
            BY <2>1, <4>1, <5>2, <6>1
        <5>3. a = Len(t) + 1 \/ a \in 1 .. Len(t)
          <6>1. PICK p \in Nat : p = Len(t)
            BY <2>4
          <6>2. a \in 1 .. p + 1
            BY <4>1, <6>1
          <6>3. a = p + 1 \/ a \in 1 .. p
            BY <6>2
          <6>. QED
            BY <6>1, <6>3
        <5>. QED
          BY <5>1, <5>2, <5>3
      <4>4. \A a, b \in 1 .. Len(u) : a < b => u[a] < u[b]
        <5> SUFFICES ASSUME NEW a \in 1 .. Len(u), NEW b \in 1 .. Len(u), a < b
                     PROVE  u[a] < u[b]
          OBVIOUS
        <5>1. a \in 1 .. Len(t) /\ u[a] = t[a]
          <6>1. PICK p \in Nat : p = Len(t)
            BY <2>4
          <6>2. a \in 1 .. p + 1 /\ b \in 1 .. p + 1
            BY <4>1, <6>1
          <6>3. a \in 1 .. p
            BY <6>2
          <6>. QED
            BY <4>1, <6>1, <6>3
        <5>2. t[a] <= m /\ t[a] \in 1 .. n
          BY <2>4, <4>2, <5>1 DEF CollectedBy
        <5>3. CASE b = Len(t) + 1
          BY <2>1, <4>1, <5>1, <5>2, <5>3
        <5>4. CASE b \in 1 .. Len(t)
          BY <2>4, <4>1, <5>1, <5>4 DEF CollectedBy
        <5>5. b = Len(t) + 1 \/ b \in 1 .. Len(t)
          <6>1. Len(u) = Len(t) + 1 /\ Len(t) \in Nat
            BY <2>4, <4>1
          <6>2. PICK p \in Nat : p = Len(t)
            BY <6>1
          <6>3. b \in 1 .. p + 1
            BY <6>1, <6>2
          <6>4. b = p + 1 \/ b \in 1 .. p
            BY <6>3
          <6>. QED
            BY <6>2, <6>4
        <5>. QED
          BY <5>3, <5>4, <5>5
      <4>5. \A x \in 1 .. l : x \in T => \E a \in 1 .. Len(u) : u[a] = x
        <5> SUFFICES ASSUME NEW x \in 1 .. l, x \in T
                     PROVE  \E a \in 1 .. Len(u) : u[a] = x
          OBVIOUS
        <5>1. CASE x = l
          BY <2>4, <4>1, <5>1
        <5>2. CASE x # l
          <6>1. x \in 1 .. m
            BY <2>1, <5>2
          <6>2. PICK a \in 1 .. Len(t) : t[a] = x
            BY <2>4, <6>1 DEF CollectedBy
          <6>. QED
            BY <2>4, <4>1, <6>2
        <5>. QED
          BY <5>1, <5>2
      <4>. QED
        BY <4>3, <4>4, <4>5 DEF CollectedBy
    <3>2. CASE l \notin T
      <4>1. u = t
        BY <2>5, <3>2
      <4>2. \A a \in 1 .. Len(t) : t[a] \in 1 .. n
        BY ElementOfSeq
      <4>3. \A a \in 1 .. Len(t) : t[a] <= l
        BY <2>1, <2>4, <4>2 DEF CollectedBy
      <4>4. \A x \in 1 .. l : x \in T => x \in 1 .. m
        BY <2>1, <3>2
      <4>. QED
        BY <2>4, <4>1, <4>3, <4>4 DEF CollectedBy
    <3>. QED
      BY <3>1, <3>2
  <2>. QED
    BY <2>1, <2>3, <2>6
<1>4. n \in P
  <2>1. n \in 0 .. n
    OBVIOUS
  <2> HIDE DEF P
  <2>. QED
    BY <1>2, <1>3, <2>1, BoundedInduction
<1>5. CollectedBy(s, n, n, T) /\ s \in Seq(1 .. n)
  BY <1>1, <1>4 DEF Orders
<1>6. \A a \in 1 .. Len(s) : s[a] \in 1 .. n
  BY <1>5, ElementOfSeq
<1>7. \A a, b \in 1 .. Len(s) : s[a] = s[b] => a = b
  <2>1. Len(s) \in Nat
    BY <1>5
  <2>. QED
    BY <1>5, <1>6, <2>1 DEF CollectedBy
<1>. QED
  BY <1>5, <1>7 DEF CollectedBy

-----------------------------------------------------------------------------
(***************************************************************************)
(* The level the query automaton goes to: getNextNode of multi_stack.h.    *)
(***************************************************************************)
(* The labels of the texts. *)
Labels == Keys \union {ARRAY}

(* A node of a worker's query stacks. *)
Node(Q) == [query_state : States(Q), count : Nat, matched_start : Int, roots : SUBSET Nat]

(* dfaNextStateByStr stays among the states of the automaton. *)
LEMMA StateAfter ==
  ASSUME NEW Q, IsQueryDFA(Q), NEW q \in States(Q), NEW l \in Labels
  PROVE  dfaNextStateByStr(Q, q, l) \in States(Q)
<1>1. CASE l = ARRAY \/ l \in Q.names
  BY <1>1 DEF IsQueryDFA, dfaNextStateByStr
<1>2. CASE ~(l = ARRAY \/ l \in Q.names)
  <2>1. dfaNextStateByStr(Q, q, l) = Q.next[q][ANY_KEY]
    BY <1>2 DEF dfaNextStateByStr
  <2>. QED
    BY <2>1 DEF IsQueryDFA
<1>. QED
  BY <1>1, <1>2

(* So does the next state of a node. *)
LEMMA NextStateType ==
  ASSUME NEW Q, IsQueryDFA(Q), NEW x \in Node(Q), NEW l \in Labels
  PROVE  NextState(Q, x, l) \in States(Q)
<1>1. x.query_state \in States(Q) /\ 0 \in States(Q)
  BY DEF Node, States, IsQueryDFA
<1>2. dfaNextStateByStr(Q, x.query_state, l) \in States(Q)
  BY <1>1, StateAfter
<1>. QED
  BY <1>1, <1>2 DEF NextState

(* Behind every root of R stands exactly one node of the level. *)
Stands(level, R) ==
  /\ \A m \in DOMAIN level : RootsOf(level, m) \subseteq R
  /\ \A r \in R : \E m \in DOMAIN level :
       \A x \in DOMAIN level : r \in RootsOf(level, x) <=> x = m

(* label leads every root from one level to the next. *)
Led(Q, level, above, R, label) ==
  \A r \in R, m \in DOMAIN level, x \in DOMAIN above :
    r \in RootsOf(level, m) /\ r \in RootsOf(above, x)
      => above[x].query_state = NextState(Q, level[m], label)

(* The first nodes of a level that lead to their next state. *)
Firsts(Q, level, label) ==
  Ordered(Len(level), {m \in DOMAIN level : \A x \in 1 .. m-1 :
                         NextState(Q, level[x], label) # NextState(Q, level[m], label)})

(* The first node that leads where the m-th of the level leads. *)
NodeFor(Q, level, label, m) ==
  [query_state |-> NextState(Q, level[m], label), count |-> 0, matched_start |-> INVALID,
   roots |-> UNION {RootsOf(level, y) : y \in {x \in DOMAIN level :
               NextState(Q, level[x], label) = NextState(Q, level[m], label)}}]

(* getNextNode: one node for every state that some node leads to. *)
LEMMA NextLevelForm ==
  ASSUME NEW Q, NEW level, NEW label
  PROVE  NextLevel(Q, level, label) =
           [n \in DOMAIN Firsts(Q, level, label) |->
              NodeFor(Q, level, label, Firsts(Q, level, label)[n])]
<1>1. \A q, R : [Root(q) EXCEPT !.roots = R]
                  = [query_state |-> q, count |-> 0, matched_start |-> INVALID, roots |-> R]
  BY DEF Root
<1>2. NextLevel(Q, level, label) =
        [n \in DOMAIN Firsts(Q, level, label) |->
           [Root(NextState(Q, level[Firsts(Q, level, label)[n]], label)) EXCEPT !.roots =
              UNION {RootsOf(level, y) : y \in {x \in DOMAIN level :
                NextState(Q, level[x], label)
                  = NextState(Q, level[Firsts(Q, level, label)[n]], label)}}]]
  BY Zenon DEF NextLevel, Firsts
<1>. QED
  BY <1>1, <1>2, Zenon DEF NodeFor

(* The roots of the first level are their own, later ones carry theirs. *)
LEMMA RootsBehind ==
  ASSUME NEW Q, NEW level \in Seq(Node(Q)), NEW m \in 1 .. Len(level)
  PROVE  RootsOf(level, m) # {} /\ RootsOf(level, m) \subseteq Nat
<1>1. level[m] \in Node(Q)
  BY ElementOfSeq
<1>2. level[m].roots \subseteq Nat /\ m \in Nat
  BY <1>1 DEF Node
<1>3. CASE level[m].roots = {}
  BY <1>2, <1>3 DEF RootsOf, IsRoot
<1>4. CASE level[m].roots # {}
  BY <1>2, <1>4 DEF RootsOf, IsRoot
<1>. QED
  BY <1>3, <1>4

(* Every node leads to the same state as exactly one of the first ones. *)
LEMMA FirstsFacts ==
  ASSUME NEW Q, NEW level \in Seq(Node(Q)), NEW label, NEW s, s = Firsts(Q, level, label)
  PROVE  /\ s \in Seq(1 .. Len(level))
         /\ \A m \in 1 .. Len(level) : \E n \in 1 .. Len(s) :
              NextState(Q, level[s[n]], label) = NextState(Q, level[m], label)
         /\ \A n, b \in 1 .. Len(s) :
              NextState(Q, level[s[n]], label) = NextState(Q, level[s[b]], label) => n = b
<1> DEFINE nx(m) == NextState(Q, level[m], label)
           T == {m \in DOMAIN level : \A x \in 1 .. m-1 : nx(x) # nx(m)}
<1>1. Len(level) \in Nat /\ DOMAIN level = 1 .. Len(level)
  OBVIOUS
<1>2. s = Ordered(Len(level), T)
  BY DEF Firsts
<1>3. /\ s \in Seq(1 .. Len(level))
      /\ \A n \in 1 .. Len(s) : s[n] \in T
      /\ \A n, b \in 1 .. Len(s) : s[n] = s[b] => n = b
      /\ \A x \in 1 .. Len(level) : x \in T => \E n \in 1 .. Len(s) : s[n] = x
  <2> HIDE DEF T
  <2>. QED
    BY <1>1, <1>2, OrderedFacts
<1>4. ASSUME NEW m \in 1 .. Len(level)
      PROVE  \E n \in 1 .. Len(s) : nx(s[n]) = nx(m)
  <2> DEFINE S == {x \in 1 .. Len(level) : nx(x) = nx(m)}
  <2>1. S \subseteq Nat /\ S # {}
    OBVIOUS
  <2>2. PICK x \in S : \A y \in S : x <= y
    <3> HIDE DEF S
    <3>. QED
      BY <2>1, LeastNumber
  <2>3. x \in 1 .. Len(level) /\ nx(x) = nx(m)
    OBVIOUS
  <2>4. ASSUME NEW y \in 1 .. x-1 PROVE nx(y) # nx(x)
    <3>1. y \in 1 .. Len(level) /\ ~(x <= y)
      BY <1>1, <2>3
    <3> HIDE DEF nx
    <3>. QED
      BY <2>2, <2>3, <3>1
  <2>5. x \in T
    BY <1>1, <2>3, <2>4
  <2> HIDE DEF T, S, nx
  <2>. QED
    BY <1>3, <2>3, <2>5
<1>5. ASSUME NEW n \in 1 .. Len(s), NEW b \in 1 .. Len(s), nx(s[n]) = nx(s[b])
      PROVE  n = b
  <2>1. s[n] \in 1 .. Len(level) /\ s[b] \in 1 .. Len(level) /\ s[n] \in T /\ s[b] \in T
    BY <1>1, <1>3
  <2>2. ~(s[n] < s[b]) /\ ~(s[b] < s[n])
    <3>1. \A x \in 1 .. s[n]-1 : nx(x) # nx(s[n])
      BY <2>1
    <3>2. \A x \in 1 .. s[b]-1 : nx(x) # nx(s[b])
      BY <2>1
    <3> HIDE DEF nx, T
    <3>. QED
      BY <1>5, <2>1, <3>1, <3>2
  <2>3. s[n] = s[b]
    BY <2>1, <2>2
  <2>. QED
    BY <1>3, <2>3
<1>. QED
  BY <1>3, <1>4, <1>5

(* The s[n]-th node of a level is the first that leads to the n-th above it. *)
Above(Q, level, label, s, above) ==
  /\ above \in Seq(Node(Q)) /\ Len(above) = Len(s) /\ DOMAIN above = 1 .. Len(s)
  /\ s \in Seq(1 .. Len(level))
  /\ \A m \in 1 .. Len(level) : \E n \in 1 .. Len(s) :
       NextState(Q, level[s[n]], label) = NextState(Q, level[m], label)
  /\ \A n, b \in 1 .. Len(s) :
       NextState(Q, level[s[n]], label) = NextState(Q, level[s[b]], label) => n = b
  /\ \A n \in 1 .. Len(s) :
       /\ above[n].query_state = NextState(Q, level[s[n]], label)
       /\ above[n].roots # {}
       /\ RootsOf(above, n) = UNION {RootsOf(level, y) : y \in {x \in DOMAIN level :
            NextState(Q, level[x], label) = NextState(Q, level[s[n]], label)}}

(* Each node of the next level stands for one of the first ones. *)
LEMMA NextLevelNodes ==
  ASSUME NEW Q, IsQueryDFA(Q), NEW level \in Seq(Node(Q)), NEW label \in Labels,
         NEW above, above = NextLevel(Q, level, label),
         NEW s, s = Firsts(Q, level, label)
  PROVE  Above(Q, level, label, s, above)
<1> DEFINE nx(m) == NextState(Q, level[m], label)
           from(n) == {x \in DOMAIN level : nx(x) = nx(s[n])}
<1>1. Len(level) \in Nat /\ DOMAIN level = 1 .. Len(level)
  OBVIOUS
<1>2. /\ s \in Seq(1 .. Len(level))
      /\ \A m \in 1 .. Len(level) : \E n \in 1 .. Len(s) : nx(s[n]) = nx(m)
      /\ \A n, b \in 1 .. Len(s) : nx(s[n]) = nx(s[b]) => n = b
  BY FirstsFacts
<1>3. above = [n \in 1 .. Len(s) |->
                 [query_state |-> nx(s[n]), count |-> 0, matched_start |-> INVALID,
                  roots |-> UNION {RootsOf(level, y) : y \in from(n)}]]
  BY <1>2, NextLevelForm DEF NodeFor
<1>4. \A m \in 1 .. Len(level) : nx(m) \in States(Q) /\ RootsOf(level, m) # {} /\ RootsOf(level, m) \subseteq Nat
  <2>1. \A m \in 1 .. Len(level) : level[m] \in Node(Q)
    BY ElementOfSeq
  <2>. QED
    BY <2>1, NextStateType, RootsBehind
<1>5. Len(s) \in Nat /\ \A n \in 1 .. Len(s) : s[n] \in 1 .. Len(level)
  BY <1>2, ElementOfSeq
<1> HIDE DEF nx
<1>6. \A n \in 1 .. Len(s) : /\ s[n] \in from(n) /\ from(n) \subseteq 1 .. Len(level)
  BY <1>1, <1>5
<1>7. \A n \in 1 .. Len(s) : above[n] = [query_state |-> nx(s[n]), count |-> 0, matched_start |-> INVALID,
                  roots |-> UNION {RootsOf(level, y) : y \in from(n)}]
  BY <1>3
<1>8. ASSUME NEW n \in 1 .. Len(s)
      PROVE  /\ above[n].query_state = nx(s[n]) /\ above[n].roots # {}
             /\ above[n].roots = UNION {RootsOf(level, y) : y \in from(n)}
             /\ above[n] \in Node(Q)
  <2>1. UNION {RootsOf(level, y) : y \in from(n)} \subseteq Nat
    BY <1>4, <1>6
  <2>2. UNION {RootsOf(level, y) : y \in from(n)} # {}
    BY <1>4, <1>5, <1>6
  <2>3. nx(s[n]) \in States(Q)
    BY <1>4, <1>5
  <2>4. PICK u \in SUBSET Nat : u = UNION {RootsOf(level, y) : y \in from(n)}
    BY <2>1
  <2>5. INVALID \in Int
    BY DEF INVALID
  <2>6. above[n] = [query_state |-> nx(s[n]), count |-> 0, matched_start |-> INVALID, roots |-> u]
    BY <1>7, <2>4
  <2>7. above[n] \in Node(Q)
    BY <2>3, <2>5, <2>6 DEF Node
  <2>8. above[n].query_state = nx(s[n]) /\ above[n].roots = u
    BY <2>6
  <2>. QED
    BY <2>2, <2>4, <2>7, <2>8
<1>9. above \in Seq(Node(Q)) /\ Len(above) = Len(s) /\ DOMAIN above = 1 .. Len(s)
  <2>1. above \in [1 .. Len(s) -> Node(Q)]
    <3> HIDE DEF from
    <3>. QED
      BY <1>3, <1>8
  <2>. QED
    BY <1>5, <2>1
<1>10. \A n \in 1 .. Len(s) : RootsOf(above, n) = UNION {RootsOf(level, y) : y \in from(n)}
  <2> HIDE DEF from
  <2>. QED
    BY <1>8 DEF RootsOf, IsRoot
<1>. QED
  BY <1>2, <1>8, <1>9, <1>10 DEF nx, Above

(* If one node stands behind every root on a level, so it does on the next,
   and the label has led each root there. *)
LEMMA NextLevelFacts ==
  ASSUME NEW Q, IsQueryDFA(Q), NEW level \in Seq(Node(Q)), NEW R, R \subseteq Nat,
         Stands(level, R), NEW label \in Labels,
         NEW above, above = NextLevel(Q, level, label)
  PROVE  /\ above \in Seq(Node(Q))
         /\ Stands(above, R)
         /\ \A x \in 1 .. Len(above) : above[x].roots # {}
         /\ Led(Q, level, above, R, label)
<1> DEFINE nx(m) == NextState(Q, level[m], label)
           s == Firsts(Q, level, label)
           from(n) == {x \in DOMAIN level : nx(x) = nx(s[n])}
<1>1. Len(level) \in Nat /\ DOMAIN level = 1 .. Len(level)
  OBVIOUS
<1>2. /\ above \in Seq(Node(Q)) /\ Len(above) = Len(s) /\ DOMAIN above = 1 .. Len(s)
      /\ s \in Seq(1 .. Len(level))
      /\ \A m \in 1 .. Len(level) : \E n \in 1 .. Len(s) : nx(s[n]) = nx(m)
      /\ \A n, b \in 1 .. Len(s) : nx(s[n]) = nx(s[b]) => n = b
      /\ \A n \in 1 .. Len(s) :
           /\ above[n].query_state = nx(s[n]) /\ above[n].roots # {}
           /\ RootsOf(above, n) = UNION {RootsOf(level, y) : y \in from(n)}
  <2>1. PICK t : t = s
    OBVIOUS
  <2> HIDE DEF s
  <2>2. t = Firsts(Q, level, label)
    BY <2>1 DEF s
  <2>3. Above(Q, level, label, t, above)
    BY <2>2, NextLevelNodes
  <2>4. Above(Q, level, label, s, above)
    BY <2>1, <2>3
  <2>. QED
    BY <2>4 DEF Above
<1>5. Len(s) \in Nat /\ \A n \in 1 .. Len(s) : s[n] \in 1 .. Len(level)
  BY <1>2, ElementOfSeq
<1> HIDE DEF s, nx
<1>6. \A n \in 1 .. Len(s) : /\ s[n] \in from(n) /\ from(n) \subseteq 1 .. Len(level)
  BY <1>1, <1>5
<1>8. \A n \in 1 .. Len(s) : above[n].query_state = nx(s[n]) /\ above[n].roots # {}
  BY <1>2
<1>9. above \in Seq(Node(Q)) /\ Len(above) = Len(s) /\ DOMAIN above = 1 .. Len(s)
  BY <1>2
<1>10. \A n \in 1 .. Len(s) : RootsOf(above, n) = UNION {RootsOf(level, y) : y \in from(n)}
  BY <1>2
<1>11. Stands(above, R)
  <2>1. \A n \in 1 .. Len(s) : RootsOf(above, n) \subseteq R
    BY <1>1, <1>6, <1>10 DEF Stands
  <2>2. ASSUME NEW r \in R
        PROVE  \E n \in 1 .. Len(s) : \A x \in 1 .. Len(s) : r \in RootsOf(above, x) <=> x = n
    <3>1. PICK m \in 1 .. Len(level) : \A x \in 1 .. Len(level) : r \in RootsOf(level, x) <=> x = m
      BY <1>1 DEF Stands
    <3>2. PICK n \in 1 .. Len(s) : nx(s[n]) = nx(m)
      BY <1>2
    <3>3. r \in RootsOf(above, n)
      <4>1. m \in from(n) /\ r \in RootsOf(level, m)
        BY <1>1, <3>1, <3>2
      <4>. QED
        BY <1>10, <4>1
    <3>4. ASSUME NEW x \in 1 .. Len(s), r \in RootsOf(above, x) PROVE x = n
      <4>1. PICK y \in from(x) : r \in RootsOf(level, y)
        BY <1>10, <3>4
      <4>2. y = m /\ nx(y) = nx(s[x])
        BY <1>1, <3>1, <4>1
      <4>. QED
        BY <1>2, <3>2, <4>2
    <3>. QED
      BY <3>3, <3>4
  <2>3. DOMAIN above = 1 .. Len(s)
    BY <1>9
  <2>4. \A m \in DOMAIN above : RootsOf(above, m) \subseteq R
    BY <2>1, <2>3
  <2>5. \A r \in R : \E m \in DOMAIN above :
          \A x \in DOMAIN above : r \in RootsOf(above, x) <=> x = m
    <3> SUFFICES ASSUME NEW r \in R
                 PROVE  \E m \in DOMAIN above :
                          \A x \in DOMAIN above : r \in RootsOf(above, x) <=> x = m
      OBVIOUS
    <3>1. PICK n \in 1 .. Len(s) : \A x \in 1 .. Len(s) : r \in RootsOf(above, x) <=> x = n
      BY <2>2
    <3>2. n \in DOMAIN above /\ \A x \in DOMAIN above : r \in RootsOf(above, x) <=> x = n
      BY <2>3, <3>1
    <3>. QED
      BY <3>2
  <2>. QED
    BY <2>4, <2>5, Zenon DEF Stands
<1>12. Led(Q, level, above, R, label)
  <2> SUFFICES ASSUME NEW r \in R, NEW m \in 1 .. Len(level), NEW x \in 1 .. Len(s),
                      r \in RootsOf(level, m), r \in RootsOf(above, x)
               PROVE  above[x].query_state = nx(m)
    BY <1>1, <1>9 DEF Led, nx
  <2>1. PICK y \in from(x) : r \in RootsOf(level, y)
    BY <1>10
  <2>2. y = m
    BY <1>1, <2>1 DEF Stands
  <2>. QED
    BY <1>8, <2>1, <2>2
<1>. QED
  BY <1>8, <1>9, <1>11, <1>12

-----------------------------------------------------------------------------
(***************************************************************************)
(* The tree of a worker: along which labels it has grown.                  *)
(***************************************************************************)
(* levels is a worker's tree, grown from the roots of its first level along
   the labels d. *)
Along(Q, levels, d) ==
  /\ levels \in Seq(Seq(Node(Q))) /\ d \in Seq(Labels) /\ Len(levels) = Len(d) + 1
  /\ \A m \in DOMAIN levels[1] : levels[1][m].roots = {}
  /\ \A n \in 1 .. Len(levels) :
       /\ Stands(levels[n], DOMAIN levels[1])
       /\ n > 1 => \A m \in DOMAIN levels[n] : levels[n][m].roots # {}
  /\ \A n \in 1 .. Len(d) : Led(Q, levels[n], levels[n+1], DOMAIN levels[1], d[n])

(* On the first level every node is its own root. *)
LEMMA RootsStand ==
  ASSUME NEW level, \A m \in DOMAIN level : level[m].roots = {}
  PROVE  Stands(level, DOMAIN level)
BY DEF Stands, RootsOf, IsRoot

(* A level of roots is a tree along no label. *)
LEMMA AlongRoots ==
  ASSUME NEW Q, NEW level \in Seq(Node(Q)), \A m \in DOMAIN level : level[m].roots = {}
  PROVE  Along(Q, <<level>>, <<>>)
<1>1. /\ <<level>> \in Seq(Seq(Node(Q))) /\ Len(<<level>>) = 1 /\ <<level>>[1] = level
      /\ <<>> \in Seq(Labels) /\ Len(<<>>) = 0
  OBVIOUS
<1>2. Stands(level, DOMAIN level)
  BY RootsStand
<1>. QED
  BY <1>1, <1>2 DEF Along

(* The next level makes the tree one along the label too. *)
LEMMA AlongPush ==
  ASSUME NEW Q, IsQueryDFA(Q), NEW levels, NEW d, Along(Q, levels, d),
         NEW label \in Labels
  PROVE  Along(Q, queryStacksPush(Q, levels, label), Append(d, label))
<1> DEFINE n == Len(levels)
           top == levels[n]
           new == NextLevel(Q, top, label)
           ls == Append(levels, new)
           R == DOMAIN levels[1]
<1>1. /\ levels \in Seq(Seq(Node(Q))) /\ d \in Seq(Labels) /\ n = Len(d) + 1
      /\ n \in Nat \ {0} /\ Len(d) \in Nat /\ 1 \in 1 .. n /\ n \in 1 .. n
  BY DEF Along
<1>2. top \in Seq(Node(Q)) /\ levels[1] \in Seq(Node(Q))
  BY <1>1, ElementOfSeq
<1>3. queryStacksPush(Q, levels, label) = ls
  BY <1>1 DEF queryStacksPush, Last
<1>4. R \subseteq Nat /\ Stands(top, R)
  BY <1>1, <1>2 DEF Along
<1>5. /\ new \in Seq(Node(Q)) /\ Stands(new, R)
      /\ \A x \in 1 .. Len(new) : new[x].roots # {}
      /\ Led(Q, top, new, R, label)
  <2> HIDE DEF top, R
  <2>1. new = NextLevel(Q, top, label)
    OBVIOUS
  <2>2. top \in Seq(Node(Q))
    BY <1>2
  <2> HIDE DEF new
  <2>. QED
    BY <1>4, <2>1, <2>2, NextLevelFacts
<1>6. DOMAIN new = 1 .. Len(new)
  BY <1>5
<1> HIDE DEF new, top
<1>7. /\ ls \in Seq(Seq(Node(Q))) /\ Len(ls) = n + 1 /\ ls[n + 1] = new
      /\ \A m \in 1 .. n : ls[m] = levels[m]
  BY <1>1, <1>5, AppendProperties
<1>8. /\ Append(d, label) \in Seq(Labels) /\ Len(Append(d, label)) = n
      /\ Append(d, label)[n] = label
      /\ \A m \in 1 .. Len(d) : Append(d, label)[m] = d[m]
  BY <1>1, AppendProperties
<1> DEFINE e == Append(d, label)
<1> HIDE DEF ls, e
<1>9. ls[1] = levels[1]
  BY <1>1, <1>7
<1> HIDE DEF n
<1>10. ASSUME NEW m \in 1 .. Len(ls)
       PROVE  /\ Stands(ls[m], R)
              /\ m > 1 => \A x \in DOMAIN ls[m] : ls[m][x].roots # {}
  <2>1. CASE m \in 1 .. n
    BY <1>7, <2>1 DEF Along, n
  <2>2. CASE m = n + 1
    BY <1>5, <1>6, <1>7, <2>2
  <2>3. m \in 1 .. n + 1
    BY <1>7
  <2>4. m \in 1 .. n \/ m = n + 1
    BY <1>1, <2>3
  <2>. QED
    BY <2>1, <2>2, <2>4
<1>11. ASSUME NEW m \in 1 .. Len(e)
       PROVE  Led(Q, ls[m], ls[m+1], R, e[m])
  <2>1. CASE m \in 1 .. Len(d)
    <3>1. m \in 1 .. n /\ m + 1 \in 1 .. n
      BY <1>1, <2>1
    <3>2. ls[m] = levels[m] /\ ls[m+1] = levels[m+1] /\ e[m] = d[m]
      BY <1>7, <1>8, <2>1, <3>1 DEF e
    <3>. QED
      BY <2>1, <3>2 DEF Along
  <2>2. CASE m = n
    <3>1. ls[m] = top /\ ls[m+1] = new /\ e[m] = label
      BY <1>1, <1>7, <1>8, <2>2 DEF e, top, n
    <3>. QED
      BY <1>5, <3>1
  <2>. QED
    BY <1>1, <1>8, <2>1, <2>2 DEF e
<1>12. \A m \in DOMAIN ls[1] : ls[1][m].roots = {}
  BY <1>9 DEF Along
<1>13. ls \in Seq(Seq(Node(Q))) /\ e \in Seq(Labels) /\ Len(ls) = Len(e) + 1
  BY <1>1, <1>7, <1>8 DEF e
<1>14. DOMAIN ls[1] = R
  BY <1>9
<1> HIDE DEF R
<1>15. \A m \in 1 .. Len(ls) :
         /\ Stands(ls[m], DOMAIN ls[1])
         /\ m > 1 => \A x \in DOMAIN ls[m] : ls[m][x].roots # {}
  BY <1>10, <1>14, Zenon
<1>16. \A m \in 1 .. Len(e) : Led(Q, ls[m], ls[m+1], DOMAIN ls[1], e[m])
  BY <1>11, <1>14, Zenon
<1>17. Along(Q, ls, e)
  BY <1>12, <1>13, <1>15, <1>16, Zenon DEF Along
<1>. QED
  BY <1>3, <1>17 DEF e

(* Without its last levels it is a tree along the labels before. *)
LEMMA AlongPop ==
  ASSUME NEW Q, NEW levels, NEW d, Along(Q, levels, d), d # <<>>
  PROVE  Along(Q, queryStacksPop(levels), Front(d))
<1>1. /\ levels \in Seq(Seq(Node(Q))) /\ d \in Seq(Labels) /\ Len(levels) = Len(d) + 1
      /\ Len(d) \in Nat \ {0}
  BY EmptySeq DEF Along
<1>2. PICK n \in Nat \ {0} : n = Len(d) /\ Len(levels) = n + 1
  BY <1>1
<1>3. queryStacksPop(levels) = Front(levels)
  BY <1>2 DEF queryStacksPop
<1>4. levels # <<>>
  BY <1>2
<1> DEFINE ls == Front(levels)
           e == Front(d)
<1>5. /\ ls \in Seq(Seq(Node(Q))) /\ Len(ls) = n
      /\ \A m \in 1 .. n : ls[m] = levels[m]
  <2>1. /\ ls \in Seq(Seq(Node(Q))) /\ Len(ls) = Len(levels) - 1
        /\ \A m \in 1 .. Len(levels) - 1 : ls[m] = levels[m]
    BY <1>1, <1>4, FrontFacts
  <2>2. Len(levels) - 1 = n
    BY <1>2
  <2>. QED
    BY <2>1, <2>2
<1>6. /\ e \in Seq(Labels) /\ Len(e) = n - 1
      /\ \A m \in 1 .. n - 1 : e[m] = d[m]
  BY <1>1, <1>2, FrontFacts
<1> HIDE DEF ls, e
<1>7. ls[1] = levels[1]
  BY <1>2, <1>5
<1>8. ASSUME NEW m \in 1 .. n
      PROVE  /\ Stands(ls[m], DOMAIN ls[1])
             /\ m > 1 => \A x \in DOMAIN ls[m] : ls[m][x].roots # {}
  <2>1. m \in 1 .. Len(levels) /\ ls[m] = levels[m]
    BY <1>2, <1>5
  <2>. QED
    BY <1>7, <2>1 DEF Along
<1>9. ASSUME NEW m \in 1 .. n - 1
      PROVE  Led(Q, ls[m], ls[m+1], DOMAIN ls[1], e[m])
  <2>1. m \in 1 .. Len(d) /\ m \in 1 .. n /\ m + 1 \in 1 .. n
    BY <1>2
  <2>2. ls[m] = levels[m] /\ ls[m+1] = levels[m+1] /\ e[m] = d[m]
    BY <1>5, <1>6, <2>1
  <2>. QED
    BY <1>7, <2>1, <2>2 DEF Along
<1>10. \A m \in DOMAIN ls[1] : ls[1][m].roots = {}
  BY <1>7 DEF Along
<1>11. Len(ls) = Len(e) + 1
  BY <1>2, <1>5, <1>6
<1>12. \A m \in 1 .. Len(ls) :
         /\ Stands(ls[m], DOMAIN ls[1])
         /\ m > 1 => \A x \in DOMAIN ls[m] : ls[m][x].roots # {}
  BY <1>5, <1>8
<1>13. \A m \in 1 .. Len(e) : Led(Q, ls[m], ls[m+1], DOMAIN ls[1], e[m])
  BY <1>6, <1>9
<1>14. ls \in Seq(Seq(Node(Q))) /\ e \in Seq(Labels)
  BY <1>5, <1>6
<1>15. Along(Q, ls, e)
  BY <1>10, <1>11, <1>12, <1>13, <1>14, Zenon DEF Along
<1>. QED
  BY <1>3, <1>15 DEF ls, e

(* Without its last level, where one remains. *)
LEMMA AlongPopOne ==
  ASSUME NEW Q, NEW levels, Along(Q, levels, <<>>)
  PROVE  Along(Q, queryStacksPop(levels), <<>>)
<1>1. Len(levels) = 1
  BY DEF Along
<1>2. queryStacksPop(levels) = << <<>> >>
  BY <1>1 DEF queryStacksPop
<1>3. <<>> \in Seq(Node(Q)) /\ \A m \in DOMAIN <<>> : <<>>[m].roots = {}
  OBVIOUS
<1>. QED
  BY <1>2, <1>3, AlongRoots

(* Two trees whose nodes differ in what was matched only, but for those of the
   last level, whose counters may differ too. *)
SameNodes(a, b) ==
  /\ Len(a) = Len(b)
  /\ \A m \in 1 .. Len(a) : a[m].query_state = b[m].query_state /\ a[m].roots = b[m].roots

SameCounts(a, b) == \A m \in 1 .. Len(a) : a[m].count = b[m].count

Alike(ls, ms) ==
  /\ Len(ls) = Len(ms)
  /\ \A n \in 1 .. Len(ls) : SameNodes(ls[n], ms[n])
  /\ \A n \in 1 .. Len(ls) - 1 : SameCounts(ls[n], ms[n])

(* Who stands behind a root does not depend on what was matched. *)
LEMMA SameStands ==
  ASSUME NEW Q, NEW a \in Seq(Node(Q)), NEW b \in Seq(Node(Q)), SameNodes(a, b)
  PROVE  /\ DOMAIN a = 1 .. Len(a) /\ DOMAIN b = DOMAIN a
         /\ \A m \in DOMAIN a : RootsOf(a, m) = RootsOf(b, m)
         /\ \A R : Stands(a, R) => Stands(b, R)
<1>1. DOMAIN a = 1 .. Len(a) /\ DOMAIN b = DOMAIN a
  BY DEF SameNodes
<1>2. \A m \in DOMAIN a : RootsOf(a, m) = RootsOf(b, m)
  BY <1>1 DEF SameNodes, RootsOf, IsRoot
<1>3. ASSUME NEW R, Stands(a, R) PROVE Stands(b, R)
  BY <1>1, <1>2, <1>3 DEF Stands
<1>. QED
  BY <1>1, <1>2, <1>3

(* Nor does the state a node leads to, if its count is the same. *)
LEMMA SameNext ==
  ASSUME NEW Q, NEW x \in Node(Q), NEW y \in Node(Q), NEW label,
         x.query_state = y.query_state, x.roots = y.roots, x.count = y.count
  PROVE  NextState(Q, x, label) = NextState(Q, y, label)
BY DEF NextState, Admits, IsRoot

(* A tree that is alike has grown along the same labels. *)
LEMMA AlongAlike ==
  ASSUME NEW Q, NEW levels, NEW d, Along(Q, levels, d),
         NEW ls \in Seq(Seq(Node(Q))), Alike(levels, ls)
  PROVE  Along(Q, ls, d)
<1>1. /\ levels \in Seq(Seq(Node(Q))) /\ d \in Seq(Labels) /\ Len(levels) = Len(d) + 1
      /\ Len(d) \in Nat /\ Len(ls) = Len(levels)
  BY DEF Along, Alike
<1>2. PICK n \in Nat : n = Len(d) /\ Len(levels) = n + 1 /\ Len(ls) = n + 1
  BY <1>1
<1>3. ASSUME NEW m \in 1 .. n + 1
      PROVE  levels[m] \in Seq(Node(Q)) /\ ls[m] \in Seq(Node(Q)) /\ SameNodes(levels[m], ls[m])
  BY <1>1, <1>2, ElementOfSeq DEF Alike
<1>4. ASSUME NEW m \in 1 .. n + 1
      PROVE  /\ DOMAIN ls[m] = DOMAIN levels[m] /\ DOMAIN levels[m] = 1 .. Len(levels[m])
             /\ \A x \in DOMAIN levels[m] : RootsOf(ls[m], x) = RootsOf(levels[m], x)
             /\ \A R : Stands(levels[m], R) => Stands(ls[m], R)
  BY <1>3, SameStands
<1>5. 1 \in 1 .. n + 1
  BY <1>2
<1>6. DOMAIN ls[1] = DOMAIN levels[1] /\ \A m \in DOMAIN ls[1] : ls[1][m].roots = {}
  <2>1. SameNodes(levels[1], ls[1]) /\ DOMAIN ls[1] = DOMAIN levels[1]
        /\ DOMAIN levels[1] = 1 .. Len(levels[1])
    BY <1>3, <1>4, <1>5
  <2>. QED
    BY <2>1 DEF SameNodes, Along
<1>7. ASSUME NEW m \in 1 .. n + 1
      PROVE  /\ Stands(ls[m], DOMAIN ls[1])
             /\ m > 1 => \A x \in DOMAIN ls[m] : ls[m][x].roots # {}
  <2>1. Stands(levels[m], DOMAIN levels[1]) /\ (m > 1 => \A x \in DOMAIN levels[m] : levels[m][x].roots # {})
    BY <1>2 DEF Along
  <2>2. \A x \in 1 .. Len(levels[m]) : levels[m][x].roots = ls[m][x].roots
    BY <1>3 DEF SameNodes
  <2>. QED
    BY <1>4, <1>6, <2>1, <2>2
<1>8. ASSUME NEW m \in 1 .. n
      PROVE  Led(Q, ls[m], ls[m+1], DOMAIN ls[1], d[m])
  <2>1. m \in 1 .. n + 1 /\ m + 1 \in 1 .. n + 1 /\ m \in 1 .. Len(levels) - 1
    BY <1>2
  <2> SUFFICES ASSUME NEW r \in DOMAIN ls[1], NEW x \in DOMAIN ls[m], NEW y \in DOMAIN ls[m+1],
                      r \in RootsOf(ls[m], x), r \in RootsOf(ls[m+1], y)
               PROVE  ls[m+1][y].query_state = NextState(Q, ls[m][x], d[m])
    BY DEF Led
  <2>2. r \in DOMAIN levels[1] /\ x \in DOMAIN levels[m] /\ y \in DOMAIN levels[m+1]
    BY <1>4, <1>6, <2>1
  <2>3. r \in RootsOf(levels[m], x) /\ r \in RootsOf(levels[m+1], y)
    BY <1>4, <2>1, <2>2
  <2>4. levels[m+1][y].query_state = NextState(Q, levels[m][x], d[m])
    <3>1. Led(Q, levels[m], levels[m+1], DOMAIN levels[1], d[m])
      BY <1>2 DEF Along
    <3>. QED
      BY <2>2, <2>3, <3>1 DEF Led
  <2>5. ls[m+1][y].query_state = levels[m+1][y].query_state
    BY <1>3, <1>4, <2>1, <2>2 DEF SameNodes
  <2>6. NextState(Q, ls[m][x], d[m]) = NextState(Q, levels[m][x], d[m])
    <3>1. ls[m][x] \in Node(Q) /\ levels[m][x] \in Node(Q) /\ x \in 1 .. Len(levels[m])
      BY <1>3, <1>4, <2>1, <2>2, ElementOfSeq
    <3>2. /\ ls[m][x].query_state = levels[m][x].query_state
          /\ ls[m][x].roots = levels[m][x].roots
      BY <1>3, <2>1, <3>1 DEF SameNodes
    <3>3. ls[m][x].count = levels[m][x].count
      <4>1. SameCounts(levels[m], ls[m])
        BY <2>1 DEF Alike
      <4>. QED
        BY <3>1, <4>1 DEF SameCounts
    <3>. QED
      BY <3>1, <3>2, <3>3, SameNext
  <2>. QED
    BY <2>4, <2>5, <2>6
<1>. QED
  BY <1>1, <1>2, <1>6, <1>7, <1>8 DEF Along

-----------------------------------------------------------------------------
(***************************************************************************)
(* The record of a worker, and what its handlers change of it.             *)
(***************************************************************************)
(* Unmatched symbols a unit notes, symbols of a syntax stack, and what a
   thread may infer of what encloses it. *)
SymbolTypes == {"RCB", "RB", "OBJECT", "ARRAY", "PRI"}

Symbols == {"LCB", "KY", "LB"}
Shadows == {"INVALID", "KY", "LB"}

WorkerFields ==
  {"base", "end", "at", "ss", "shadow_ss", "levels", "out", "unit", "units", "finished"}

(* A unit that is being collected. *)
IsUnit(u) ==
  /\ DOMAIN u = {"state", "symbols", "start", "has_pruned"}
  /\ u.symbols \in Seq([type : SymbolTypes, index : Int])
  /\ u.start \in Int /\ u.has_pruned \in BOOLEAN

(* What the handlers need of a worker's record. *)
IsWorker(Q, w) ==
  /\ DOMAIN w = WorkerFields
  /\ w.base \in Nat /\ w.end \in Nat /\ w.at \in Nat
  /\ w.ss \in Seq(Symbols)
  /\ w.shadow_ss \in Shadows
  /\ w.levels \in Seq(Seq(Node(Q))) /\ w.levels # <<>>
  /\ IsUnit(w.unit)
  /\ w.finished \in BOOLEAN

(* Every field but the tuples and the tree. *)
SameRest(w, v) ==
  /\ v.base = w.base /\ v.end = w.end /\ v.at = w.at /\ v.ss = w.ss
  /\ v.shadow_ss = w.shadow_ss /\ v.unit = w.unit /\ v.units = w.units
  /\ v.finished = w.finished

(* A unit whose start is set. *)
Started(u, x) ==
  IF u.state = "MATCHED" THEN u ELSE [u EXCEPT !.state = "MATCHED", !.start = x]

(* A unit is started at most once. *)
LEMMA StartedForm ==
  ASSUME NEW Q, NEW w, IsWorker(Q, w), NEW p \in Nat,
         NEW u, u = Started(w.unit, p - w.base), NEW v, v = StartUnit(w, p)
  PROVE  /\ v = [w EXCEPT !.unit = u]
         /\ IsUnit(u) /\ u.state = "MATCHED" /\ u.has_pruned = w.unit.has_pruned
         /\ u.symbols = w.unit.symbols
<1>1. IsUnit(w.unit) /\ p - w.base \in Int
  BY DEF IsWorker
<1>2. /\ IsUnit(u) /\ u.state = "MATCHED" /\ u.has_pruned = w.unit.has_pruned
      /\ u.symbols = w.unit.symbols
  <2>1. CASE w.unit.state = "MATCHED"
    BY <1>1, <2>1 DEF Started
  <2>2. CASE w.unit.state # "MATCHED"
    BY <1>1, <2>2 DEF Started, IsUnit
  <2>. QED
    BY <2>1, <2>2
<1>3. v = [w EXCEPT !.unit = u]
  BY Zenon DEF StartUnit, Started
<1>. QED
  BY <1>2, <1>3

(* What an entry put behind a sequence makes of it. *)
LEMMA PutBehind ==
  ASSUME NEW S, NEW f \in Seq(S), NEW e \in S, NEW r, r = Append(f, e)
  PROVE  /\ r \in Seq(S) /\ r # <<>> /\ Len(r) = Len(f) + 1
         /\ r[Len(f) + 1] = e /\ \A m \in 1 .. Len(f) : r[m] = f[m]
<1>1. Append(f, e) \in Seq(S)
  OBVIOUS
<1>2. Len(r) = Len(f) + 1
  BY <1>1
<1>3. r[Len(f) + 1] = e
  BY <1>1
<1>4. \A m \in 1 .. Len(f) : r[m] = f[m]
  BY <1>1
<1>5. r # <<>>
  <2>1. Len(f) \in Nat
    OBVIOUS
  <2>. QED
    BY <1>2, <2>1
<1>. QED
  BY <1>1, <1>2, <1>3, <1>4, <1>5

(* The current level is replaced by one with the same nodes. *)
LEMMA NewTop ==
  ASSUME NEW Q, NEW levels \in Seq(Seq(Node(Q))), levels # <<>>,
         NEW top \in Seq(Node(Q)), SameNodes(Last(levels), top),
         NEW ls, ls = Append(Front(levels), top)
  PROVE  ls \in Seq(Seq(Node(Q))) /\ ls # <<>> /\ Alike(levels, ls)
<1>1. PICK n \in Nat \ {0} : n = Len(levels)
  BY EmptySeq
<1>2. /\ Front(levels) \in Seq(Seq(Node(Q))) /\ Len(Front(levels)) = n - 1
      /\ \A m \in 1 .. n - 1 : Front(levels)[m] = levels[m]
      /\ Last(levels) = levels[n]
  <2>1. /\ Front(levels) \in Seq(Seq(Node(Q))) /\ Len(Front(levels)) = Len(levels) - 1
        /\ \A m \in 1 .. Len(levels) - 1 : Front(levels)[m] = levels[m]
        /\ Last(levels) = levels[Len(levels)]
    BY FrontFacts
  <2>. QED
    BY <1>1, <2>1
<1>3. /\ ls \in Seq(Seq(Node(Q))) /\ ls # <<>> /\ Len(ls) = (n - 1) + 1 /\ ls[(n - 1) + 1] = top
      /\ \A m \in 1 .. n - 1 : ls[m] = Front(levels)[m]
  <2>1. PICK f \in Seq(Seq(Node(Q))) : f = Front(levels) /\ Len(f) = n - 1
    BY <1>2
  <2>2. ls = Append(f, top)
    BY <2>1
  <2>3. PICK S : S = Seq(Node(Q))
    OBVIOUS
  <2>4. f \in Seq(S) /\ top \in S
    BY <2>1, <2>3
  <2>5. /\ ls \in Seq(S) /\ ls # <<>> /\ Len(ls) = Len(f) + 1
        /\ ls[Len(f) + 1] = top /\ \A m \in 1 .. Len(f) : ls[m] = f[m]
    BY <2>2, <2>4, PutBehind
  <2>. QED
    BY <2>1, <2>3, <2>5
<1>4. Len(ls) = n /\ ls[n] = top /\ \A m \in 1 .. n - 1 : ls[m] = levels[m]
  BY <1>2, <1>3
<1>5. ASSUME NEW m \in 1 .. n PROVE SameNodes(levels[m], ls[m])
  <2>1. CASE m = n
    BY <1>2, <1>4, <2>1
  <2>2. CASE m \in 1 .. n - 1
    BY <1>4, <2>2 DEF SameNodes
  <2>3. m = n \/ m \in 1 .. n - 1
    OBVIOUS
  <2>. QED
    BY <2>1, <2>2, <2>3
<1>6. \A m \in 1 .. n - 1 : SameCounts(levels[m], ls[m])
  BY <1>4 DEF SameCounts
<1>. QED
  BY <1>1, <1>3, <1>4, <1>5, <1>6 DEF Alike

(* A tree is alike to itself. *)
LEMMA AlikeSelf == ASSUME NEW ls PROVE Alike(ls, ls)
BY DEF Alike, SameNodes, SameCounts

(* What a handler makes of the nodes of a level. *)
Kept(Q, F, level) ==
  /\ DOMAIN F = DOMAIN level
  /\ \A m \in DOMAIN level : /\ F[m] \in Node(Q)
                             /\ F[m].query_state = level[m].query_state
                             /\ F[m].roots = level[m].roots

(* What such a function makes of a level has the same nodes. *)
LEMMA KeptFacts ==
  ASSUME NEW Q, NEW level \in Seq(Node(Q)), NEW F, F = [m \in DOMAIN level |-> F[m]],
         Kept(Q, F, level)
  PROVE  F \in Seq(Node(Q)) /\ SameNodes(level, F)
<1>1. DOMAIN level = 1 .. Len(level) /\ Len(level) \in Nat
  OBVIOUS
<1>2. F \in [1 .. Len(level) -> Node(Q)]
  BY <1>1 DEF Kept
<1>3. F \in Seq(Node(Q)) /\ Len(F) = Len(level)
  BY <1>1, <1>2
<1>. QED
  BY <1>1, <1>3 DEF Kept, SameNodes

(* Another start and another count leave a node one. *)
LEMMA NodeKept ==
  ASSUME NEW Q, NEW x \in Node(Q)
  PROVE  /\ \A n \in Int : LET y == [x EXCEPT !.matched_start = n] IN
              /\ y \in Node(Q) /\ y.query_state = x.query_state /\ y.roots = x.roots
              /\ y.count = x.count
         /\ CountUp(x) \in Node(Q) /\ CountUp(x).query_state = x.query_state
         /\ CountUp(x).roots = x.roots
BY DEF Node, CountUp

(* Clearing a match keeps the node. *)
LEMMA ClearedKept ==
  ASSUME NEW Q, NEW x \in Node(Q), NEW c
  PROVE  /\ Cleared(c, x) \in Node(Q) /\ Cleared(c, x).query_state = x.query_state
         /\ Cleared(c, x).roots = x.roots /\ Cleared(c, x).count = x.count
<1>1. INVALID \in Int
  BY DEF INVALID
<1>. QED
  BY <1>1, NodeKept DEF Cleared

(* So does starting one. *)
LEMMA StartsKept ==
  ASSUME NEW Q, NEW x \in Node(Q), NEW c, NEW p \in Int, NEW b \in Int
  PROVE  /\ StartsMatch(c, p, b, x) \in Node(Q)
         /\ StartsMatch(c, p, b, x).query_state = x.query_state
         /\ StartsMatch(c, p, b, x).roots = x.roots
         /\ StartsMatch(c, p, b, x).count = x.count
<1>1. p - b \in Int
  OBVIOUS
<1>. QED
  BY <1>1, NodeKept DEF StartsMatch

-----------------------------------------------------------------------------
(***************************************************************************)
(* What a thread is after it has read a token.                             *)
(***************************************************************************)
(* The fields of a worker's record. *)
LEMMA Fields ==
  ASSUME NEW Q, NEW w, IsWorker(Q, w)
  PROVE  /\ w.base \in Nat /\ w.end \in Nat /\ w.at \in Nat
         /\ w.ss \in Seq(Symbols)
         /\ w.shadow_ss \in Shadows
         /\ w.levels \in Seq(Seq(Node(Q))) /\ w.levels # <<>>
         /\ Last(w.levels) \in Seq(Node(Q)) /\ Last(w.levels) = w.levels[Len(w.levels)]
         /\ IsUnit(w.unit) /\ w.unit.has_pruned \in BOOLEAN /\ w.finished \in BOOLEAN
         /\ w.unit.symbols \in Seq([type : SymbolTypes, index : Int])
<1>1. /\ w.levels \in Seq(Seq(Node(Q))) /\ w.levels # <<>>
  BY DEF IsWorker
<1>2. Last(w.levels) \in Seq(Node(Q)) /\ Last(w.levels) = w.levels[Len(w.levels)]
  BY <1>1, FrontFacts
<1>. QED
  BY <1>2 DEF IsWorker, IsUnit

(* A handler that gives every current node what F says. *)
LEMMA MapForm ==
  ASSUME NEW Q, NEW w, IsWorker(Q, w), NEW F, F = [m \in DOMAIN Last(w.levels) |-> F[m]],
         Kept(Q, F, Last(w.levels)),
         NEW v, v = [w EXCEPT !.levels = Append(Front(@), F)]
  PROVE  IsWorker(Q, v) /\ Alike(w.levels, v.levels) /\ SameRest(w, v)
<1> DEFINE ls == Append(Front(w.levels), F)
<1>1. F \in Seq(Node(Q)) /\ SameNodes(Last(w.levels), F)
  BY Fields, KeptFacts
<1>2. ls \in Seq(Seq(Node(Q))) /\ ls # <<>> /\ Alike(w.levels, ls)
  BY <1>1, Fields, NewTop
<1>3. v = [w EXCEPT !.levels = ls]
  OBVIOUS
<1> HIDE DEF ls
<1>4. v.levels = ls /\ SameRest(w, v) /\ DOMAIN v = DOMAIN w
  BY <1>3 DEF IsWorker, WorkerFields, SameRest
<1>. QED
  BY <1>2, <1>4 DEF IsWorker, SameRest

(* Only the tuples change. *)
LEMMA OutForm ==
  ASSUME NEW Q, NEW w, IsWorker(Q, w), NEW o, NEW v, v = [w EXCEPT !.out = o]
  PROVE  IsWorker(Q, v) /\ v.levels = w.levels /\ SameRest(w, v)
<1>1. v.levels = w.levels /\ SameRest(w, v) /\ DOMAIN v = DOMAIN w
  BY DEF IsWorker, WorkerFields, SameRest
<1>. QED
  BY <1>1 DEF IsWorker, SameRest

(* What thread c has after it read a token: only these fields change. *)
ReadOn(Q, w, v, s, h, ls, u) ==
  /\ IsWorker(Q, v) /\ Alike(ls, v.levels)
  /\ v.base = w.base /\ v.end = w.end /\ v.at = w.at + 1 /\ v.ss = s
  /\ v.shadow_ss = h /\ v.unit = u /\ v.units = w.units /\ v.finished = w.finished

(* The fields one by one make up the whole. *)
LEMMA ReadOnForm ==
  ASSUME NEW Q, NEW w, IsWorker(Q, w), NEW x, IsWorker(Q, x),
         x.base = w.base, x.end = w.end, x.at = w.at, x.units = w.units,
         x.finished = w.finished, NEW ls, Alike(ls, x.levels),
         NEW v, v = [x EXCEPT !.at = @ + 1]
  PROVE  ReadOn(Q, w, v, x.ss, x.shadow_ss, ls, x.unit)
<1>1. /\ DOMAIN v = WorkerFields /\ v.base = w.base /\ v.end = w.end /\ v.at = w.at + 1
      /\ v.ss = x.ss /\ v.shadow_ss = x.shadow_ss /\ v.levels = x.levels /\ v.unit = x.unit
      /\ v.units = w.units /\ v.finished = w.finished
  BY DEF IsWorker, WorkerFields
<1>2. IsWorker(Q, v)
  <2>1. w.at + 1 \in Nat
    BY DEF IsWorker
  <2>. QED
    BY <1>1, <2>1 DEF IsWorker
<1>. QED
  BY <1>1, <1>2 DEF ReadOn

(* '{': a match may start, the stack grows. *)
LEMMA ReadLCB ==
  ASSUME NEW c \in DOMAIN worker, LCB(c), IsWorker(qa, worker[c])
  PROVE  LET w == worker[c] IN
         ReadOn(qa, w, worker'[c], Append(w.ss, "LCB"), w.shadow_ss, w.levels,
                Started(w.unit, (w.at + 1) - w.base))
<1> DEFINE p == worker[c].at + 1
           w1 == [StartUnit(worker[c], p) EXCEPT !.ss = Append(@, "LCB")]
           t(node) == MarkIf({PREDICATE}, "{", node) \o MarkIf({CONDITION}, "", node)
           start(node) == StartsMatch(c, p, w1.base, node)
           w2 == AddTuples(c, w1, Current(w1), t)
           w3 == MapCurrent(w2, start)
<1>1. worker' = [worker EXCEPT ![c] = [w3 EXCEPT !.at = @ + 1]]
  BY Zenon DEF LCB, Becomes
<1>2. worker'[c] = [w3 EXCEPT !.at = @ + 1]
  <2> HIDE DEF w3
  <2>. QED
    BY <1>1
<1>3. PICK o : w2 = [w1 EXCEPT !.out = o]
  <2> HIDE DEF w1, t
  <2>. QED
    BY Zenon DEF AddTuples
<1> DEFINE F == [m \in DOMAIN Last(w2.levels) |-> start(Last(w2.levels)[m])]
<1>4. w3 = [w2 EXCEPT !.levels = Append(Front(@), F)]
  <2> HIDE DEF w2, start
  <2>. QED
    BY Zenon DEF MapCurrent
<1> HIDE DEF w2, w3
<1>5. p \in Nat
  BY Fields
<1>6. PICK u : u = Started(worker[c].unit, p - worker[c].base)
  OBVIOUS
<1>16. u = Started(worker[c].unit, (worker[c].at + 1) - worker[c].base)
  BY <1>6
<1>7. IsUnit(u) /\ StartUnit(worker[c], p) = [worker[c] EXCEPT !.unit = u]
  <2> HIDE DEF p
  <2>. QED
    BY <1>5, <1>6, StartedForm
<1>8. /\ w1.base = worker[c].base /\ w1.end = worker[c].end /\ w1.at = worker[c].at
      /\ w1.ss = Append(worker[c].ss, "LCB") /\ w1.shadow_ss = worker[c].shadow_ss
      /\ w1.levels = worker[c].levels /\ w1.unit = u /\ w1.units = worker[c].units
      /\ w1.finished = worker[c].finished /\ DOMAIN w1 = WorkerFields
  BY <1>7 DEF IsWorker, WorkerFields
<1>9. Append(worker[c].ss, "LCB") \in Seq(Symbols)
  <2>1. "LCB" \in Symbols
    BY DEF Symbols
  <2>. QED
    BY <2>1, Fields, AppendProperties
<1> HIDE DEF p, w1
<1>10. IsWorker(qa, w1)
  BY <1>7, <1>8, <1>9 DEF IsWorker
<1>11. IsWorker(qa, w2) /\ w2.levels = w1.levels /\ SameRest(w1, w2)
  BY <1>3, <1>10, OutForm
<1>12. Kept(qa, F, Last(w2.levels))
  <2>1. Last(w2.levels) \in Seq(Node(qa)) /\ w1.base \in Int /\ p \in Int
    BY <1>5, <1>8, <1>11, Fields
  <2>2. ASSUME NEW m \in DOMAIN Last(w2.levels)
        PROVE  /\ F[m] \in Node(qa) /\ F[m].query_state = Last(w2.levels)[m].query_state
               /\ F[m].roots = Last(w2.levels)[m].roots
    <3>1. Last(w2.levels)[m] \in Node(qa)
      BY <2>1
    <3>. QED
      BY <2>1, <3>1, StartsKept
  <2> HIDE DEF F
  <2>3. DOMAIN F = DOMAIN Last(w2.levels)
    BY DEF F
  <2>. QED
    BY <2>2, <2>3 DEF Kept
<1>13. IsWorker(qa, w3) /\ Alike(w2.levels, w3.levels) /\ SameRest(w2, w3)
  <2>1. F = [m \in DOMAIN Last(w2.levels) |-> F[m]]
    OBVIOUS
  <2> HIDE DEF F
  <2>. QED
    BY <1>4, <1>11, <1>12, <2>1, MapForm
<1>14. ReadOn(qa, worker[c], worker'[c], w3.ss, w3.shadow_ss, w2.levels, w3.unit)
  <2>1. /\ w3.base = worker[c].base /\ w3.end = worker[c].end /\ w3.at = worker[c].at
        /\ w3.units = worker[c].units /\ w3.finished = worker[c].finished
    BY <1>8, <1>11, <1>13 DEF SameRest
  <2>. QED
    BY <1>2, <1>13, <2>1, ReadOnForm
<1>15. /\ w3.ss = Append(worker[c].ss, "LCB") /\ w3.shadow_ss = worker[c].shadow_ss
       /\ w2.levels = worker[c].levels /\ w3.unit = u
  BY <1>8, <1>11, <1>13 DEF SameRest
<1>. QED
  BY <1>14, <1>15, <1>16, Zenon

(* A stack without its n top elements. *)
Drop(s, n) == SubSeq(s, 1, Len(s) - n)

(* Same stretch of the stream, same units. *)
Kin(w, v) ==
  /\ v.base = w.base /\ v.end = w.end /\ v.at = w.at
  /\ v.units = w.units /\ v.finished = w.finished

(* Reading a token changes neither the stretch nor the units. *)
LEMMA ReadOnKin ==
  ASSUME NEW Q, NEW w, IsWorker(Q, w), NEW x, IsWorker(Q, x), Kin(w, x),
         NEW ls, Alike(ls, x.levels), NEW v, v = [x EXCEPT !.at = @ + 1]
  PROVE  ReadOn(Q, w, v, x.ss, x.shadow_ss, ls, x.unit)
BY ReadOnForm DEF Kin

(* Being alike is transitive. *)
LEMMA AlikeTwice ==
  ASSUME NEW a, NEW b, NEW e, Alike(a, b), Alike(b, e),
         Len(a) \in Nat
  PROVE  Alike(a, e)
<1>1. ASSUME NEW n \in 1 .. Len(a) PROVE SameNodes(a[n], e[n])
  BY DEF Alike, SameNodes
<1>2. ASSUME NEW n \in 1 .. Len(a) - 1 PROVE SameCounts(a[n], e[n])
  <2>1. n \in 1 .. Len(a)
    OBVIOUS
  <2>2. SameCounts(a[n], b[n]) /\ SameCounts(b[n], e[n]) /\ Len(a[n]) = Len(b[n])
    BY <2>1 DEF Alike, SameNodes
  <2>. QED
    BY <2>2 DEF SameCounts
<1>3. Len(a) = Len(e)
  BY DEF Alike
<1>. QED
  BY <1>1, <1>2, <1>3 DEF Alike

(* The elements of the array above are counted. *)
LEMMA CountForm ==
  ASSUME NEW Q, NEW w, IsWorker(Q, w), NEW v, v = MapCurrent(w, CountUp)
  PROVE  IsWorker(Q, v) /\ Alike(w.levels, v.levels) /\ SameRest(w, v)
<1> DEFINE F == [m \in DOMAIN Last(w.levels) |-> CountUp(Last(w.levels)[m])]
<1>1. v = [w EXCEPT !.levels = Append(Front(@), F)]
  BY Zenon DEF MapCurrent
<1>2. Kept(Q, F, Last(w.levels))
  <2>1. Last(w.levels) \in Seq(Node(Q))
    BY Fields
  <2>2. ASSUME NEW m \in DOMAIN Last(w.levels)
        PROVE  /\ F[m] \in Node(Q) /\ F[m].query_state = Last(w.levels)[m].query_state
               /\ F[m].roots = Last(w.levels)[m].roots
    <3>1. Last(w.levels)[m] \in Node(Q)
      BY <2>1
    <3>. QED
      BY <3>1, NodeKept
  <2>3. DOMAIN F = DOMAIN Last(w.levels)
    OBVIOUS
  <2> HIDE DEF F
  <2>. QED
    BY <2>2, <2>3 DEF Kept
<1>3. F = [m \in DOMAIN Last(w.levels) |-> F[m]]
  OBVIOUS
<1> HIDE DEF F
<1>. QED
  BY <1>1, <1>2, <1>3, MapForm

(* The matches of the current level are cleared. *)
LEMMA ClearedForm ==
  ASSUME NEW Q, NEW w, IsWorker(Q, w), NEW c, NEW F,
         F = [m \in DOMAIN Last(w.levels) |-> Cleared(c, Last(w.levels)[m])],
         NEW v, v = [w EXCEPT !.levels = Append(Front(@), F)]
  PROVE  IsWorker(Q, v) /\ Alike(w.levels, v.levels) /\ SameRest(w, v)
<1>1. Kept(Q, F, Last(w.levels))
  <2>1. Last(w.levels) \in Seq(Node(Q))
    BY Fields
  <2>2. ASSUME NEW m \in DOMAIN Last(w.levels)
        PROVE  /\ F[m] \in Node(Q) /\ F[m].query_state = Last(w.levels)[m].query_state
               /\ F[m].roots = Last(w.levels)[m].roots
    <3>1. Last(w.levels)[m] \in Node(Q)
      BY <2>1
    <3>. QED
      BY <3>1, ClearedKept
  <2>3. DOMAIN F = DOMAIN Last(w.levels)
    OBVIOUS
  <2>. QED
    BY <2>2, <2>3 DEF Kept
<1>2. F = [m \in DOMAIN Last(w.levels) |-> F[m]]
  OBVIOUS
<1>. QED
  BY <1>1, <1>2, MapForm

(* The syntax stack loses its top symbols. *)
LEMMA PopSyntaxForm ==
  ASSUME NEW Q, NEW w, IsWorker(Q, w), NEW n \in {1, 2}, n <= Len(w.ss),
         NEW v, v = PopSyntax(w, n)
  PROVE  /\ IsWorker(Q, v) /\ Kin(w, v) /\ v.levels = w.levels
         /\ v.shadow_ss = w.shadow_ss /\ v.unit = w.unit
         /\ v.ss = Drop(w.ss, n)
<1>1. v = [w EXCEPT !.ss = Drop(w.ss, n)]
  BY DEF PopSyntax, Drop
<1>2. /\ Kin(w, v) /\ v.levels = w.levels /\ v.shadow_ss = w.shadow_ss /\ v.unit = w.unit
      /\ v.ss = Drop(w.ss, n) /\ DOMAIN v = DOMAIN w
  BY <1>1 DEF IsWorker, WorkerFields, Kin
<1>3. Drop(w.ss, n) \in Seq(Symbols)
  <2>1. w.ss \in Seq(Symbols) /\ Len(w.ss) \in Nat
    BY Fields
  <2>2. \A m \in 1 .. Len(w.ss) - n : w.ss[m] \in Symbols
    <3>1. \A m \in 1 .. Len(w.ss) - n : m \in 1 .. Len(w.ss)
      BY <2>1
    <3>. QED
      BY <2>1, <3>1, ElementOfSeq
  <2>3. Len(w.ss) - n \in Int /\ 1 \in Int
    BY <2>1
  <2>. QED
    BY <2>2, <2>3, SubSeqProperties DEF Drop
<1>. QED
  BY <1>2, <1>3 DEF IsWorker, Kin

(* The tree loses its last level, its first one excepted. *)
LEMMA PopLevelsForm ==
  ASSUME NEW Q, NEW w, IsWorker(Q, w), NEW v, v = [w EXCEPT !.levels = queryStacksPop(@)]
  PROVE  /\ IsWorker(Q, v) /\ SameRest(w, v) /\ v.levels = queryStacksPop(w.levels)
<1>1. v.levels = queryStacksPop(w.levels) /\ SameRest(w, v) /\ DOMAIN v = DOMAIN w
  BY DEF IsWorker, WorkerFields, SameRest
<1>2. queryStacksPop(w.levels) \in Seq(Seq(Node(Q))) /\ queryStacksPop(w.levels) # <<>>
  <2>1. CASE Len(w.levels) > 1
    <3>1. queryStacksPop(w.levels) = Front(w.levels)
      BY <2>1 DEF queryStacksPop
    <3>2. /\ w.levels \in Seq(Seq(Node(Q))) /\ w.levels # <<>>
      BY Fields
    <3>3. Front(w.levels) \in Seq(Seq(Node(Q))) /\ Len(Front(w.levels)) = Len(w.levels) - 1
          /\ Len(w.levels) \in Nat
      BY <3>2, FrontFacts
    <3>. QED
      BY <2>1, <3>1, <3>3
  <2>2. CASE ~(Len(w.levels) > 1)
    BY <2>2 DEF queryStacksPop
  <2>. QED
    BY <2>1, <2>2
<1>. QED
  BY <1>1, <1>2 DEF IsWorker, SameRest

(* The tree loses two levels. *)
LEMMA PopLevelsTwiceForm ==
  ASSUME NEW Q, NEW w, IsWorker(Q, w), NEW v, v = PopLevels(w, 2)
  PROVE  /\ IsWorker(Q, v) /\ SameRest(w, v)
         /\ v.levels = queryStacksPop(queryStacksPop(w.levels))
<1>1. PICK x : x = [w EXCEPT !.levels = queryStacksPop(@)]
  OBVIOUS
<1>2. IsWorker(Q, x) /\ SameRest(w, x) /\ x.levels = queryStacksPop(w.levels)
  BY <1>1, PopLevelsForm
<1>3. PICK y : y = [x EXCEPT !.levels = queryStacksPop(@)]
  OBVIOUS
<1>4. IsWorker(Q, y) /\ SameRest(x, y) /\ y.levels = queryStacksPop(x.levels)
  BY <1>2, <1>3, PopLevelsForm
<1>5. v = y
  BY <1>1, <1>2, <1>3 DEF PopLevels, IsWorker, WorkerFields
<1>. QED
  BY <1>2, <1>4, <1>5 DEF SameRest

(* An element of an array is complete. *)
LEMMA EndElementForm ==
  ASSUME NEW Q, NEW c, NEW w, IsWorker(Q, w), Len(w.ss) >= 1, NEW closing,
         NEW v, v = EndElement(c, w, closing)
  PROVE  /\ IsWorker(Q, v) /\ Kin(w, v) /\ Alike(w.levels, v.levels)
         /\ v.shadow_ss = w.shadow_ss /\ v.unit = w.unit
         /\ v.ss = Drop(w.ss, 1)
<1> DEFINE t(node) == MarkIf(closing, "}", node)
           x == PopSyntax(w, 1)
           y == AddTuples(c, x, Current(w), t)
<1>1. v = MapCurrent(y, CountUp)
  BY Zenon DEF EndElement
<1>2. PICK o : y = [x EXCEPT !.out = o]
  <2> HIDE DEF x, t
  <2>. QED
    BY Zenon DEF AddTuples
<1>3. /\ IsWorker(Q, x) /\ Kin(w, x) /\ x.levels = w.levels
      /\ x.shadow_ss = w.shadow_ss /\ x.unit = w.unit
      /\ x.ss = Drop(w.ss, 1)
  <2>1. x = PopSyntax(w, 1) /\ 1 \in {1, 2} /\ 1 <= Len(w.ss)
    BY Fields
  <2> HIDE DEF x
  <2>. QED
    BY <2>1, PopSyntaxForm
<1> HIDE DEF x, y
<1>4. IsWorker(Q, y) /\ y.levels = x.levels /\ SameRest(x, y)
  <2>1. IsWorker(Q, x)
    BY <1>3
  <2>. QED
    BY <1>2, <2>1, OutForm
<1>5. IsWorker(Q, v) /\ Alike(y.levels, v.levels) /\ SameRest(y, v)
  BY <1>1, <1>4, CountForm
<1>. QED
  BY <1>3, <1>4, <1>5 DEF SameRest, Kin

(* A thread that knows what encloses it notes it. *)
LEMMA InferForm ==
  ASSUME NEW Q, NEW w, IsWorker(Q, w), NEW p, NEW outside, NEW v, v = Infer(w, p, outside)
  PROVE  /\ IsWorker(Q, v) /\ Kin(w, v) /\ v.levels = w.levels
         /\ v.unit = w.unit /\ v.ss = w.ss
         /\ v.shadow_ss = IF w.shadow_ss = "INVALID" THEN syntaxStackInference(w, p, outside)
                                                     ELSE w.shadow_ss
<1>1. PICK h : h = IF w.shadow_ss = "INVALID" THEN syntaxStackInference(w, p, outside)
                                              ELSE w.shadow_ss
  OBVIOUS
<1>2. v = [w EXCEPT !.shadow_ss = h]
  BY <1>1, Zenon DEF Infer
<1>3. h \in Shadows
  BY <1>1, Fields DEF syntaxStackInference, Shadows
<1>4. /\ Kin(w, v) /\ v.levels = w.levels /\ v.unit = w.unit /\ v.ss = w.ss
      /\ v.shadow_ss = h /\ DOMAIN v = DOMAIN w
  BY <1>2 DEF IsWorker, WorkerFields, Kin
<1>. QED
  BY <1>1, <1>3, <1>4 DEF IsWorker, Kin

-----------------------------------------------------------------------------
(***************************************************************************)
(* The roots a thread starts from, and symbols the unit has not opened.    *)
(***************************************************************************)
(* A thread other than 0 starts from every state. *)
EveryState(Q, level) ==
  /\ Len(level) = Q.n + 1
  /\ \A m \in 1 .. Q.n + 1 : level[m].query_state = m - 1

(* A thread starts with one level: worker 0 in state 1, the others in every
   state of the automaton. *)
LEMMA StartForm ==
  ASSUME NEW c, IsQueryDFA(qa), NEW ls, ls = initQueryStacks(startStates(c))
  PROVE  /\ ls \in Seq(Seq(Node(qa))) /\ ls # <<>> /\ Len(ls) = 1 /\ Along(qa, ls, <<>>)
         /\ c # 0 => EveryState(qa, ls[1])
         /\ c = 0 => Len(ls[1]) = 1 /\ ls[1][1].query_state = 1
<1> DEFINE s == startStates(c)
           level == [m \in DOMAIN s |-> Root(s[m])]
<1>1. qa.n \in Nat \ {0}
  BY DEF IsQueryDFA
<1>2. PICK n \in Nat : /\ DOMAIN s = 1 .. n
                       /\ \A m \in 1 .. n : s[m] \in States(qa)
                       /\ c # 0 => n = qa.n + 1 /\ \A m \in 1 .. n : s[m] = m - 1
                       /\ c = 0 => n = 1 /\ s[1] = 1
  <2>1. CASE c = 0
    <3>1. s = <<1>> /\ 1 \in States(qa)
      BY <1>1, <2>1 DEF startStates, States
    <3> HIDE DEF s
    <3>2. DOMAIN s = 1 .. 1 /\ s[1] = 1
      BY <3>1
    <3>. QED
      BY <2>1, <3>1, <3>2
  <2>2. CASE c # 0
    <3>1. s = [q \in 1 .. qa.n + 1 |-> q - 1]
      BY <2>2 DEF startStates
    <3> HIDE DEF s
    <3>2. \A m \in 1 .. qa.n + 1 : s[m] \in States(qa) /\ s[m] = m - 1
      BY <1>1, <3>1 DEF States
    <3>3. DOMAIN s = 1 .. qa.n + 1 /\ qa.n + 1 \in Nat
      BY <1>1, <3>1
    <3>. QED
      BY <2>2, <3>2, <3>3
  <2>. QED
    BY <2>1, <2>2
<1> HIDE DEF s
<1>3. \A m \in 1 .. n : /\ Root(s[m]) \in Node(qa) /\ Root(s[m]).query_state = s[m]
                        /\ Root(s[m]).roots = {}
  BY <1>2 DEF Root, Node, INVALID
<1>4. level \in [1 .. n -> Node(qa)]
  BY <1>2, <1>3
<1>5. level \in Seq(Node(qa)) /\ Len(level) = n /\ DOMAIN level = 1 .. n
  BY <1>4
<1>6. \A m \in 1 .. n : level[m].query_state = s[m] /\ level[m].roots = {}
  BY <1>2, <1>3
<1>7. ls = <<level>>
  BY DEF initQueryStacks, s
<1> HIDE DEF level
<1>8. Along(qa, <<level>>, <<>>)
  BY <1>5, <1>6, AlongRoots
<1>9. ls[1] = level /\ Len(ls) = 1 /\ ls # <<>> /\ ls \in Seq(Seq(Node(qa)))
  BY <1>5, <1>7
<1>10. c # 0 => EveryState(qa, level)
  BY <1>2, <1>5, <1>6 DEF EveryState
<1>11. c = 0 => Len(level) = 1 /\ level[1].query_state = 1
  BY <1>2, <1>5, <1>6
<1>. QED
  BY <1>7, <1>8, <1>9, <1>10, <1>11

(* A closing symbol of a container the unit has not opened. *)
Unmatched(c, w, v, type, p) ==
  /\ IsWorker(qa, v)
  /\ v.base = w.base /\ v.end = w.end /\ v.at = w.at /\ v.finished = w.finished
  /\ v.unit.state = "UNMATCHED"
  /\ \/ /\ w.unit.state # "MATCHED"
        /\ v.levels = w.levels /\ v.ss = w.ss /\ v.shadow_ss = w.shadow_ss
        /\ v.units = w.units /\ v.unit.start = w.unit.start
        /\ v.unit.has_pruned = w.unit.has_pruned
        /\ v.unit.symbols = Append(w.unit.symbols, [type |-> type, index |-> p - w.base])
     \/ /\ w.unit.state = "MATCHED"
        /\ v.levels = initQueryStacks(startStates(c)) /\ v.ss = <<>> /\ v.shadow_ss = "INVALID"
        /\ v.units = Append(w.units, Closed(w, FlattenSeq(w.levels), p - w.base))
        /\ v.unit.start = INVALID /\ v.unit.has_pruned = FALSE
        /\ v.unit.symbols = << [type |-> type, index |-> p - w.base] >>

(* The symbol is noted, and the unit is over. *)
LEMMA UnmatchedForm ==
  ASSUME NEW c, IsQueryDFA(qa), NEW w, IsWorker(qa, w), NEW type \in SymbolTypes,
         NEW p \in Nat, NEW v, v = addUnmatchedSymbol(CloseUnit(c, w, p), type, p)
  PROVE  Unmatched(c, w, v, type, p)
<1>0. PICK x : x = CloseUnit(c, w, p)
  OBVIOUS
<1> DEFINE s == [type |-> type, index |-> p - x.base]
<1>1. v = [x EXCEPT !.unit.symbols = Append(@, s), !.unit.state = "UNMATCHED"]
  <2>1. v = addUnmatchedSymbol(x, type, p)
    BY <1>0
  <2>2. addUnmatchedSymbol(x, type, p) =
          [x EXCEPT !.unit.symbols = Append(@, s), !.unit.state = "UNMATCHED"]
    BY Zenon DEF addUnmatchedSymbol
  <2>. QED
    BY <2>1, <2>2
<1>2. IsWorker(qa, x) /\ x.base = w.base /\ x.end = w.end /\ x.at = w.at /\ x.finished = w.finished
      /\ \/ w.unit.state # "MATCHED" /\ x = w
         \/ /\ w.unit.state = "MATCHED"
            /\ x.levels = initQueryStacks(startStates(c)) /\ x.ss = <<>> /\ x.shadow_ss = "INVALID"
            /\ x.units = Append(w.units, Closed(w, FlattenSeq(w.levels), p - w.base))
            /\ x.unit = NewUnit("MATCHED")
  <2>1. CASE w.unit.state # "MATCHED"
    BY <1>0, <2>1 DEF CloseUnit
  <2>2. CASE w.unit.state = "MATCHED"
    <3>1. PICK ls : ls = initQueryStacks(startStates(c))
      OBVIOUS
    <3>2. PICK closed : closed = Closed(w, FlattenSeq(w.levels), p - w.base)
      OBVIOUS
    <3>3. x = [w EXCEPT !.units = Append(@, closed),
                        !.unit = NewUnit("MATCHED"),
                        !.ss = <<>>, !.shadow_ss = "INVALID", !.levels = ls,
                        !.out = NoTuples(startStates(c))]
      BY <1>0, <2>2, <3>1, <3>2 DEF CloseUnit
    <3>4. /\ x.base = w.base /\ x.end = w.end /\ x.at = w.at /\ x.finished = w.finished
          /\ x.levels = ls /\ x.ss = <<>> /\ x.shadow_ss = "INVALID"
          /\ x.units = Append(w.units, closed) /\ x.unit = NewUnit("MATCHED")
          /\ DOMAIN x = WorkerFields
      BY <3>3 DEF IsWorker, WorkerFields
    <3>5. ls \in Seq(Seq(Node(qa))) /\ ls # <<>>
      BY <3>1, StartForm
    <3>6. IsUnit(NewUnit("MATCHED"))
      BY DEF IsUnit, NewUnit, INVALID
    <3>7. <<>> \in Seq(Symbols) /\ "INVALID" \in Shadows
      BY DEF Shadows
    <3>8. IsWorker(qa, x)
      BY <3>4, <3>5, <3>6, <3>7 DEF IsWorker
    <3>. QED
      BY <2>2, <3>1, <3>2, <3>4, <3>8
  <2>. QED
    BY <2>1, <2>2
<1>3. /\ v.base = x.base /\ v.end = x.end /\ v.at = x.at /\ v.finished = x.finished
      /\ v.levels = x.levels /\ v.ss = x.ss /\ v.shadow_ss = x.shadow_ss /\ v.units = x.units
      /\ DOMAIN v = WorkerFields
      /\ v.unit = [x.unit EXCEPT !.symbols = Append(x.unit.symbols, s), !.state = "UNMATCHED"]
  <2> HIDE DEF s
  <2>. QED
    BY <1>1, <1>2 DEF IsWorker, WorkerFields
<1>4. IsUnit(x.unit)
  BY <1>2 DEF IsWorker
<1>5. s \in [type : SymbolTypes, index : Int]
  BY <1>2 DEF IsWorker
<1> HIDE DEF s
<1>6. Append(x.unit.symbols, s) \in Seq([type : SymbolTypes, index : Int])
  BY <1>4, <1>5, AppendProperties DEF IsUnit
<1>7. /\ v.unit.state = "UNMATCHED" /\ v.unit.start = x.unit.start
      /\ v.unit.has_pruned = x.unit.has_pruned
      /\ v.unit.symbols = Append(x.unit.symbols, s) /\ DOMAIN v.unit = DOMAIN x.unit
  BY <1>3, <1>4 DEF IsUnit
<1>8. IsUnit(v.unit)
  BY <1>4, <1>6, <1>7 DEF IsUnit
<1>9. IsWorker(qa, v)
  BY <1>2, <1>3, <1>8 DEF IsWorker
<1>10. s = [type |-> type, index |-> p - w.base]
  BY <1>2 DEF s
<1>11. CASE w.unit.state # "MATCHED" /\ x = w
  BY <1>2, <1>3, <1>7, <1>9, <1>10, <1>11 DEF Unmatched
<1>12. CASE /\ w.unit.state = "MATCHED"
            /\ x.levels = initQueryStacks(startStates(c)) /\ x.ss = <<>> /\ x.shadow_ss = "INVALID"
            /\ x.units = Append(w.units, Closed(w, FlattenSeq(w.levels), p - w.base))
            /\ x.unit = NewUnit("MATCHED")
  <2>1. x.unit.symbols = <<>> /\ x.unit.start = INVALID /\ x.unit.has_pruned = FALSE
    BY <1>12 DEF NewUnit
  <2>2. v.unit.symbols = <<s>>
    BY <1>7, <2>1
  <2>. QED
    BY <1>2, <1>3, <1>7, <1>9, <1>10, <1>12, <2>1, <2>2 DEF Unmatched
<1>. QED
  BY <1>2, <1>11, <1>12

-----------------------------------------------------------------------------
(***************************************************************************)
(* Roots that were pruned, matches that were cleared.                      *)
(***************************************************************************)
(* A function from 1 .. n is a sequence of length n. *)
LEMMA FunctionIsSeq ==
  ASSUME NEW S, NEW n \in Nat, NEW f \in [1 .. n -> S]
  PROVE  f \in Seq(S) /\ Len(f) = n /\ DOMAIN f = 1 .. n
OBVIOUS

(* Level n with its matches cleared. *)
ClearedAt(c, w, n) == [m \in DOMAIN w.levels[n] |-> Cleared(c, w.levels[n][m])]

(* The level below the last one has its matches cleared; if there is none,
   nothing changes. *)
LEMMA ClearedBelow ==
  ASSUME NEW Q, NEW c, NEW w, IsWorker(Q, w), NEW n, n = Len(w.levels) - 1,
         NEW F, F = ClearedAt(c, w, n),
         NEW v, v = [w EXCEPT !.levels[n] = F]
  PROVE  IsWorker(Q, v) /\ Alike(w.levels, v.levels) /\ SameRest(w, v)
<1>1. w.levels \in Seq(Seq(Node(Q))) /\ w.levels # <<>>
  BY Fields
<1>2. PICK l \in Nat \ {0} : l = Len(w.levels) /\ DOMAIN w.levels = 1 .. l /\ n = l - 1
  <2>1. Len(w.levels) \in Nat \ {0}
    BY <1>1, EmptySeq
  <2>2. DOMAIN w.levels = 1 .. Len(w.levels)
    BY <1>1
  <2>. QED
    BY <2>1, <2>2
<1>3. PICK ls : ls = [w.levels EXCEPT ![n] = F]
  OBVIOUS
<1>4. v.levels = ls /\ SameRest(w, v) /\ DOMAIN v = DOMAIN w
  BY <1>3 DEF IsWorker, WorkerFields, SameRest
<1>5. ASSUME NEW m \in 1 .. l
      PROVE  /\ ls[m] \in Seq(Node(Q)) /\ SameNodes(w.levels[m], ls[m])
             /\ SameCounts(w.levels[m], ls[m])
  <2>1. w.levels[m] \in Seq(Node(Q))
    BY <1>1, <1>2, ElementOfSeq
  <2>2. CASE m # n
    <3>1. ls[m] = w.levels[m]
      BY <1>2, <1>3, <2>2
    <3>. QED
      BY <2>1, <3>1 DEF SameNodes, SameCounts
  <2>3. CASE m = n
    <3>1. ls[m] = F
      BY <1>2, <1>3, <2>3
    <3>2. PICK level \in Seq(Node(Q)) : level = w.levels[m]
      BY <2>1
    <3>3. F = [x \in DOMAIN level |-> Cleared(c, level[x])]
      BY <2>3, <3>2 DEF ClearedAt
    <3>4. DOMAIN level = 1 .. Len(level) /\ Len(level) \in Nat
      BY <3>2
    <3>5. ASSUME NEW x \in 1 .. Len(level)
          PROVE  /\ F[x] \in Node(Q) /\ F[x].query_state = level[x].query_state
                 /\ F[x].roots = level[x].roots /\ F[x].count = level[x].count
      <4>1. level[x] \in Node(Q) /\ F[x] = Cleared(c, level[x])
        BY <3>3, <3>4, ElementOfSeq
      <4>. QED
        BY <4>1, ClearedKept
    <3>6. F \in [1 .. Len(level) -> Node(Q)]
      BY <3>3, <3>4, <3>5
    <3>7. F \in Seq(Node(Q)) /\ Len(F) = Len(level)
      BY <3>4, <3>6, FunctionIsSeq
    <3>8. SameNodes(level, F) /\ SameCounts(level, F)
      BY <3>5, <3>7 DEF SameNodes, SameCounts
    <3>. QED
      BY <3>1, <3>2, <3>7, <3>8
  <2>. QED
    BY <2>2, <2>3
<1>6. ls \in Seq(Seq(Node(Q))) /\ Len(ls) = l /\ ls # <<>>
  <2>1. DOMAIN ls = 1 .. l
    BY <1>2, <1>3
  <2>2. ls \in [1 .. l -> Seq(Node(Q))]
    BY <1>3, <1>5, <2>1
  <2>3. ls \in Seq(Seq(Node(Q))) /\ Len(ls) = l
    BY <1>2, <2>2
  <2>. QED
    BY <2>3
<1>7. Alike(w.levels, ls)
  BY <1>2, <1>5, <1>6 DEF Alike
<1>. QED
  BY <1>4, <1>6, <1>7 DEF IsWorker, SameRest

(* The roots that remain stand behind one node each. *)
LEMMA PrunedFacts ==
  ASSUME NEW Q, IsQueryDFA(Q), NEW levels \in Seq(Seq(Node(Q))), levels # <<>>,
         \A m \in DOMAIN levels[1] : levels[1][m].roots = {},
         NEW states, NEW ls, ls = pruneQueryPaths(levels, states)
  PROVE  /\ Along(Q, ls, <<>>)
         /\ EveryState(Q, levels[1]) /\ states # {} /\ states \subseteq States(Q)
              => ls[1] # <<>>
<1>1. PICK level \in Seq(Node(Q)) : level = levels[1]
  <2>1. 1 \in 1 .. Len(levels)
    BY EmptySeq
  <2>. QED
    BY <2>1, ElementOfSeq
<1>2. PICK s : s = Survivors(level, states)
  OBVIOUS
<1>3. DOMAIN level = 1 .. Len(level) /\ Len(level) \in Nat
  BY <1>1
<1>4. /\ s \in Seq(1 .. Len(level))
      /\ \A x \in 1 .. Len(level) : x \in {q + 1 : q \in states} =>
           \E m \in 1 .. Len(s) : s[m] = x
  <2>1. s = Ordered(Len(level), {q + 1 : q \in states})
    BY <1>2 DEF Survivors
  <2>2. PICK T : T = {q + 1 : q \in states}
    OBVIOUS
  <2>3. s = Ordered(Len(level), T) /\ Len(level) \in Nat
    BY <1>3, <2>1, <2>2
  <2>4. s \in Seq(1 .. Len(level))
        /\ \A x \in 1 .. Len(level) : x \in T => \E m \in 1 .. Len(s) : s[m] = x
    BY <2>3, OrderedFacts
  <2>. QED
    BY <2>2, <2>4
<1>5. PICK n \in Nat : n = Len(s) /\ DOMAIN s = 1 .. n
  BY <1>4
<1>6. PICK new : new = [m \in 1 .. n |-> level[s[m]]]
  OBVIOUS
<1>7. ls = <<new>>
  BY <1>1, <1>2, <1>5, <1>6 DEF pruneQueryPaths
<1>8. ASSUME NEW m \in 1 .. n PROVE new[m] \in Node(Q) /\ new[m].roots = {}
  <2>1. s[m] \in 1 .. Len(level)
    BY <1>4, <1>5, ElementOfSeq
  <2>2. new[m] = level[s[m]] /\ level[s[m]] \in Node(Q)
    BY <1>6, <2>1, ElementOfSeq
  <2>. QED
    BY <1>1, <1>3, <2>1, <2>2
<1>9. new \in [1 .. n -> Node(Q)]
  BY <1>6, <1>8
<1>10. new \in Seq(Node(Q)) /\ Len(new) = n /\ DOMAIN new = 1 .. n
  BY <1>9, FunctionIsSeq
<1>11. Along(Q, <<new>>, <<>>)
  BY <1>8, <1>10, AlongRoots
<1>12. ASSUME EveryState(Q, level), states # {}, states \subseteq States(Q)
       PROVE  new # <<>>
  <2>1. PICK q \in states : TRUE
    BY <1>12
  <2>2. q \in 0 .. Q.n /\ Q.n \in Nat
    BY <1>12 DEF States, IsQueryDFA
  <2>3. q + 1 \in 1 .. Len(level)
    BY <1>12, <2>2 DEF EveryState
  <2>4. PICK m \in 1 .. Len(s) : s[m] = q + 1
    BY <1>4, <2>3
  <2>5. n # 0
    BY <1>5, <2>4
  <2>. QED
    BY <1>10, <2>5
<1>. QED
  BY <1>1, <1>7, <1>11, <1>12

(* The query automaton and its constraint table. *)
QueryType ==
  /\ IsQueryDFA(qa)
  /\ ct \in {CLOSE} \union [Labels -> SUBSET States(qa)]

(* Before the first label of a unit the roots may be pruned. *)
Pruned(c, w, v, label) ==
  /\ IsWorker(qa, v) /\ Kin(w, v) /\ v.ss = w.ss /\ v.shadow_ss = w.shadow_ss
  /\ v.unit.state = w.unit.state /\ v.unit.symbols = w.unit.symbols
  /\ v.unit.start = w.unit.start
  /\ \/ /\ v.levels = w.levels /\ v.unit.has_pruned = w.unit.has_pruned
        /\ c = 0 \/ ct = CLOSE \/ w.unit.has_pruned
     \/ /\ c # 0 /\ ct # CLOSE /\ ~w.unit.has_pruned /\ v.unit.has_pruned
        /\ \/ v.levels = w.levels
           \/ ct[label] # {} /\ v.levels = pruneQueryPaths(w.levels, ct[label])

(* The constraint table leaves a level of the tree's nodes. *)
LEMMA PruneForm ==
  ASSUME QueryType, NEW c, NEW w, IsWorker(qa, w),
         c # 0 => \A m \in DOMAIN w.levels[1] : w.levels[1][m].roots = {},
         NEW label \in Labels, NEW v, v = Prune(c, w, label)
  PROVE  Pruned(c, w, v, label)
<1>1. CASE c = 0 \/ ct = CLOSE \/ w.unit.has_pruned
  <2>1. v = w
    BY <1>1 DEF Prune
  <2>. QED
    BY <1>1, <2>1 DEF Pruned, Kin
<1>2. CASE ~(c = 0 \/ ct = CLOSE \/ w.unit.has_pruned)
  <2>1. PICK ls : ls = IF ct[label] = {} THEN w.levels ELSE pruneQueryPaths(w.levels, ct[label])
    OBVIOUS
  <2>2. PICK o : v = [w EXCEPT !.unit.has_pruned = TRUE, !.levels = ls, !.out = o]
    BY <1>2, <2>1 DEF Prune
  <2>3. ls \in Seq(Seq(Node(qa))) /\ ls # <<>>
    <3>1. w.levels \in Seq(Seq(Node(qa))) /\ w.levels # <<>>
      BY Fields
    <3>2. CASE ct[label] = {}
      BY <2>1, <3>1, <3>2
    <3>3. CASE ct[label] # {}
      <4>1. ls = pruneQueryPaths(w.levels, ct[label])
        BY <2>1, <3>3
      <4>2. Along(qa, ls, <<>>)
        BY <1>2, <3>1, <4>1, PrunedFacts DEF QueryType
      <4>. QED
        BY <4>2 DEF Along
    <3>. QED
      BY <3>2, <3>3
  <2>4. /\ Kin(w, v) /\ v.ss = w.ss /\ v.shadow_ss = w.shadow_ss /\ v.levels = ls
        /\ DOMAIN v = DOMAIN w
        /\ v.unit = [w.unit EXCEPT !.has_pruned = TRUE]
    BY <2>2 DEF IsWorker, WorkerFields, Kin
  <2>5. IsUnit(w.unit)
    BY Fields
  <2>6. /\ v.unit.state = w.unit.state /\ v.unit.symbols = w.unit.symbols
        /\ v.unit.start = w.unit.start /\ v.unit.has_pruned = TRUE
        /\ DOMAIN v.unit = DOMAIN w.unit
    BY <2>4, <2>5 DEF IsUnit
  <2>7. IsUnit(v.unit)
    BY <2>5, <2>6 DEF IsUnit
  <2>8. IsWorker(qa, v)
    BY <2>3, <2>4, <2>7 DEF IsWorker, Kin
  <2>. QED
    BY <1>2, <2>1, <2>4, <2>6, <2>8 DEF Pruned
<1>. QED
  BY <1>1, <1>2

-----------------------------------------------------------------------------
(***************************************************************************)
(* The end of an object, of an array.                                      *)
(***************************************************************************)
(* What encloses the container or literal that ends with the next token. *)
Enclosing(w, outside) ==
  IF w.shadow_ss = "INVALID" THEN syntaxStackInference(w, w.at + 1, outside) ELSE w.shadow_ss

(* A container of the unit itself is closed, or one that was opened before
   the unit and is noted. *)
ClosesUnit(c, w, v, type) ==
  \E x : Unmatched(c, w, x, type, w.at + 1) /\ v = [x EXCEPT !.at = @ + 1]

(* The unit's own containers are all closed already. *)
ClosesInferred(c, w, v, type) ==
  \E x : /\ IsWorker(qa, x) /\ Kin(w, x) /\ x.ss = w.ss /\ x.unit = w.unit
         /\ Alike(w.levels, x.levels) /\ ClosesUnit(c, x, v, type)

(* The tree loses its last n levels. *)
PopsOn(w, v, s, h, n) ==
  \E ls : /\ ls \in Seq(Seq(Node(qa))) /\ ls # <<>> /\ Alike(w.levels, ls)
          /\ ReadOn(qa, w, v, s, h,
                    IF n = 1 THEN queryStacksPop(ls) ELSE queryStacksPop(queryStacksPop(ls)),
                    w.unit)

(* Thread c takes a new record, the others keep theirs. *)
LEMMA BecomesForm ==
  ASSUME NEW c \in DOMAIN worker, NEW x, Becomes(c, x)
  PROVE  worker'[c] = [x EXCEPT !.at = @ + 1]
BY DEF Becomes

(* What a switch on what encloses the container comes to. *)
LEMMA ClosesForm ==
  ASSUME NEW c, IsQueryDFA(qa), NEW w, IsWorker(qa, w), NEW type \in SymbolTypes,
         NEW p, p = w.at + 1, NEW y, y = addUnmatchedSymbol(CloseUnit(c, w, p), type, p),
         NEW v, v = [y EXCEPT !.at = @ + 1]
  PROVE  ClosesUnit(c, w, v, type)
<1>1. p \in Nat
  BY Fields
<1>2. Unmatched(c, w, y, type, p)
  BY <1>1, UnmatchedForm
<1>. QED
  BY <1>2 DEF ClosesUnit

(* A sequence has no element, one, or more. *)
LEMMA LengthCases ==
  ASSUME NEW S, NEW s \in Seq(S)
  PROVE  /\ s = <<>> \/ Len(s) = 1 \/ Len(s) > 1
         /\ Len(s) = 1 => s # <<>> /\ Len(s) >= 1
         /\ Len(s) > 1 => s # <<>> /\ Len(s) # 1 /\ Len(s) >= 1 /\ Len(s) >= 2
<1>1. (s = <<>>) <=> (Len(s) = 0)
  BY EmptySeq
<1>2. PICK n \in Nat : n = Len(s)
  BY LenProperties
<1>3. CASE s = <<>>
  <2>1. n = 0
    BY <1>1, <1>2, <1>3
  <2>. QED
    BY <1>2, <1>3, <2>1
<1>4. CASE s # <<>>
  <2>1. n # 0
    BY <1>1, <1>2, <1>4
  <2>2. n = 1 \/ n > 1
    BY <2>1
  <2>3. n >= 1 /\ (n > 1 => n # 1 /\ n >= 2)
    BY <2>1
  <2>. QED
    BY <1>2, <1>4, <2>2, <2>3, Zenon
<1>. QED
  BY <1>3, <1>4

(* The cases of a switch end with these. *)
LEMMA EndElementOn ==
  ASSUME NEW c, NEW w, IsWorker(qa, w), NEW x, IsWorker(qa, x), Kin(w, x),
         Alike(w.levels, x.levels), Len(x.ss) >= 1, NEW closing,
         NEW y, y = EndElement(c, x, closing), NEW v, v = [y EXCEPT !.at = @ + 1]
  PROVE  ReadOn(qa, w, v, Drop(x.ss, 1), x.shadow_ss, w.levels, x.unit)
<1>1. /\ IsWorker(qa, y) /\ Kin(x, y) /\ Alike(x.levels, y.levels)
      /\ y.shadow_ss = x.shadow_ss /\ y.unit = x.unit
      /\ y.ss = Drop(x.ss, 1)
  BY EndElementForm
<1>2. Kin(w, y) /\ Alike(w.levels, y.levels)
  <2>1. Len(w.levels) \in Nat
    BY Fields
  <2>. QED
    BY <1>1, <2>1, AlikeTwice DEF Kin
<1>3. ReadOn(qa, w, v, y.ss, y.shadow_ss, w.levels, y.unit)
  BY <1>1, <1>2, ReadOnKin
<1>. QED
  BY <1>1, <1>3

(* The syntax stack loses its top symbol, and nothing else changes. *)
LEMMA PopSyntaxOn ==
  ASSUME NEW c, NEW w, IsWorker(qa, w), NEW x, IsWorker(qa, x), Kin(w, x),
         Alike(w.levels, x.levels), Len(x.ss) >= 1,
         NEW y, y = PopSyntax(x, 1), NEW v, v = [y EXCEPT !.at = @ + 1]
  PROVE  ReadOn(qa, w, v, Drop(x.ss, 1), x.shadow_ss, w.levels, x.unit)
<1>1. /\ IsWorker(qa, y) /\ Kin(x, y) /\ y.levels = x.levels
      /\ y.shadow_ss = x.shadow_ss /\ y.unit = x.unit
      /\ y.ss = Drop(x.ss, 1)
  <2>1. 1 \in {1, 2} /\ 1 <= Len(x.ss)
    OBVIOUS
  <2>. QED
    BY <2>1, PopSyntaxForm
<1>2. Kin(w, y)
  BY <1>1 DEF Kin
<1>3. ReadOn(qa, w, v, y.ss, y.shadow_ss, w.levels, y.unit)
  BY <1>1, <1>2, ReadOnKin
<1>. QED
  BY <1>1, <1>3

(* What is below the top of the syntax stack. *)
LEMMA SecondTopForm ==
  ASSUME NEW Q, NEW w, IsWorker(Q, w), Len(w.ss) > 1
  PROVE  SecondTop(w) = w.ss[Len(w.ss) - 1]
BY DEF SecondTop

(* The branches of the switch, from what is read off the worker before. *)
LEMMA ReadRCB ==
  ASSUME NEW c \in DOMAIN worker, RCB(c), IsQueryDFA(qa), IsWorker(qa, worker[c])
  PROVE  LET w == worker[c]
             v == worker'[c]
         IN
         \/ w.ss = <<>> /\ ClosesUnit(c, w, v, "RCB")
         \/ /\ Len(w.ss) = 1 /\ Enclosing(w, {"LCB", "END"}) = "KY"
            /\ ClosesInferred(c, w, v, "OBJECT")
         \/ /\ Len(w.ss) = 1 /\ Enclosing(w, {"LCB", "END"}) # "KY"
            /\ ReadOn(qa, w, v, Drop(w.ss, 1), Enclosing(w, {"LCB", "END"}), w.levels, w.unit)
         \/ /\ Len(w.ss) > 1 /\ w.ss[Len(w.ss) - 1] = "KY"
            /\ PopsOn(w, v, Drop(w.ss, 2), w.shadow_ss, 1)
         \/ /\ Len(w.ss) > 1 /\ w.ss[Len(w.ss) - 1] = "LB"
            /\ ReadOn(qa, w, v, Drop(w.ss, 1), w.shadow_ss, w.levels, w.unit)
         \/ /\ Len(w.ss) > 1 /\ w.ss[Len(w.ss) - 1] \notin {"KY", "LB"}
            /\ ReadOn(qa, w, v, w.ss, w.shadow_ss, w.levels, w.unit)
<1> DEFINE p == worker[c].at + 1
           t(node)     == CompletedTuple(c, worker[c], p, node)
           clear(node) == Cleared(c, node)
           emitted == AddTuples(c, worker[c], Current(worker[c]), t)
           done == MapCurrent(emitted, clear)
           only == Infer(done, p, {"LCB", "END"})
           F == [m \in DOMAIN Last(emitted.levels) |-> Cleared(c, Last(emitted.levels)[m])]
<1>1. IF worker[c].ss = <<>>
        THEN Becomes(c, addUnmatchedSymbol(CloseUnit(c, worker[c], p), "RCB", p))
      ELSE IF Len(worker[c].ss) = 1
        THEN IF only.shadow_ss = "INVALID"
               THEN Becomes(c, PopSyntax(only, 1))
             ELSE IF only.shadow_ss = "KY"
               THEN Becomes(c, addUnmatchedSymbol(CloseUnit(c, only, p), "OBJECT", p))
               ELSE Becomes(c, EndElement(c, only, {PREDICATE, INCOMPLETE_INDEX}))
      ELSE IF SecondTop(worker[c]) = "KY"
        THEN Becomes(c, PopLevels(PopSyntax(done, 2), 1))
      ELSE IF SecondTop(worker[c]) = "LB"
        THEN Becomes(c, EndElement(c, done, {PREDICATE}))
        ELSE Becomes(c, done)
  BY Zenon DEF RCB
<1>2. PICK o : emitted = [worker[c] EXCEPT !.out = o]
  <2> HIDE DEF t
  <2>. QED
    BY Zenon DEF AddTuples
<1>3. done = [emitted EXCEPT !.levels = Append(Front(@), F)]
  <2> HIDE DEF emitted
  <2>. QED
    BY Zenon DEF MapCurrent
<1> HIDE DEF emitted, done
<1>4. IsWorker(qa, emitted) /\ emitted.levels = worker[c].levels /\ SameRest(worker[c], emitted)
  BY <1>2, OutForm
<1>5. IsWorker(qa, done) /\ Alike(emitted.levels, done.levels) /\ SameRest(emitted, done)
  <2>1. IsWorker(qa, emitted) /\ F = [m \in DOMAIN Last(emitted.levels) |-> Cleared(c, Last(emitted.levels)[m])]
    BY <1>4
  <2> HIDE DEF F
  <2>. QED
    BY <1>3, <2>1, ClearedForm
<1>6. /\ IsWorker(qa, done) /\ Alike(worker[c].levels, done.levels) /\ Kin(worker[c], done)
      /\ done.ss = worker[c].ss /\ done.shadow_ss = worker[c].shadow_ss
      /\ done.unit = worker[c].unit
  BY <1>4, <1>5 DEF SameRest, Kin
<1>7. /\ IsWorker(qa, only) /\ Kin(done, only) /\ only.levels = done.levels
      /\ only.unit = done.unit /\ only.ss = done.ss
      /\ only.shadow_ss = IF done.shadow_ss = "INVALID"
                            THEN syntaxStackInference(done, p, {"LCB", "END"})
                            ELSE done.shadow_ss
  <2>1. IsWorker(qa, done)
    BY <1>6
  <2> HIDE DEF p
  <2>. QED
    BY <2>1, InferForm
<1>8. only.shadow_ss = Enclosing(worker[c], {"LCB", "END"})
  <2>1. syntaxStackInference(done, p, {"LCB", "END"})
          = syntaxStackInference(worker[c], p, {"LCB", "END"})
    BY <1>6 DEF syntaxStackInference, TypeAt, Delivered, Kin
  <2>. QED
    BY <1>6, <1>7, <2>1, Zenon DEF Enclosing
<1> HIDE DEF only
<1>9. /\ IsWorker(qa, only) /\ Alike(worker[c].levels, only.levels) /\ Kin(worker[c], only)
      /\ only.ss = worker[c].ss /\ only.unit = worker[c].unit
  BY <1>6, <1>7 DEF Kin
<1>10. /\ worker[c].ss = <<>> \/ Len(worker[c].ss) = 1 \/ Len(worker[c].ss) > 1
       /\ Len(worker[c].ss) = 1 => worker[c].ss # <<>> /\ Len(worker[c].ss) >= 1
       /\ Len(worker[c].ss) > 1 => /\ worker[c].ss # <<>> /\ Len(worker[c].ss) # 1
                                    /\ Len(worker[c].ss) >= 1 /\ Len(worker[c].ss) >= 2
  <2>1. worker[c].ss \in Seq(Symbols)
    BY Fields
  <2>. QED
    BY <2>1, LengthCases
<1>11. PICK q : q = p
  OBVIOUS
<1>12. q = worker[c].at + 1 /\ q = only.at + 1 /\ q = done.at + 1
  BY <1>6, <1>9, <1>11 DEF Kin
<1> HIDE DEF p
<1>13. CASE worker[c].ss = <<>>
  <2>1. PICK y : y = addUnmatchedSymbol(CloseUnit(c, worker[c], q), "RCB", q)
    OBVIOUS
  <2>2. worker'[c] = [y EXCEPT !.at = @ + 1]
    BY <1>1, <1>11, <1>13, <2>1, BecomesForm
  <2>3. "RCB" \in SymbolTypes
    BY DEF SymbolTypes
  <2>4. ClosesUnit(c, worker[c], worker'[c], "RCB")
    BY <1>12, <2>1, <2>2, <2>3, ClosesForm
  <2>. QED
    BY <1>13, <2>4
<1>14. CASE Len(worker[c].ss) = 1 /\ only.shadow_ss = "KY"
  <2>1. PICK y : y = addUnmatchedSymbol(CloseUnit(c, only, q), "OBJECT", q)
    OBVIOUS
  <2>2. worker'[c] = [y EXCEPT !.at = @ + 1]
    <3>1. worker[c].ss # <<>> /\ only.shadow_ss # "INVALID"
      BY <1>10, <1>14, Zenon
    <3>. QED
      BY <1>1, <1>11, <1>14, <2>1, <3>1, BecomesForm
  <2>3. "OBJECT" \in SymbolTypes
    BY DEF SymbolTypes
  <2>4. ClosesUnit(c, only, worker'[c], "OBJECT")
    BY <1>9, <1>12, <2>1, <2>2, <2>3, ClosesForm
  <2>5. ClosesInferred(c, worker[c], worker'[c], "OBJECT")
    BY <1>9, <2>4 DEF ClosesInferred
  <2>. QED
    BY <1>8, <1>14, <2>5
<1>15. CASE Len(worker[c].ss) = 1 /\ only.shadow_ss # "KY"
  <2>1. PICK x : /\ x = only /\ IsWorker(qa, x) /\ Kin(worker[c], x)
                 /\ Alike(worker[c].levels, x.levels)
                 /\ x.ss = worker[c].ss /\ x.unit = worker[c].unit
    BY <1>9
  <2>2. Len(x.ss) >= 1 /\ worker[c].ss # <<>>
    BY <1>10, <1>15, <2>1, Zenon
  <2>3. ReadOn(qa, worker[c], worker'[c], Drop(x.ss, 1), x.shadow_ss, worker[c].levels, x.unit)
    <3>1. CASE x.shadow_ss = "INVALID"
      <4>1. PICK y : y = PopSyntax(x, 1)
        OBVIOUS
      <4>2. Becomes(c, y)
        BY <1>1, <1>15, <2>1, <2>2, <3>1, <4>1, Zenon
      <4>3. worker'[c] = [y EXCEPT !.at = @ + 1]
        BY <4>2, BecomesForm
      <4>4. IsWorker(qa, x) /\ Kin(worker[c], x) /\ Alike(worker[c].levels, x.levels)
        BY <2>1
      <4>. QED
        BY <2>2, <4>1, <4>3, <4>4, PopSyntaxOn
    <3>2. CASE x.shadow_ss # "INVALID"
      <4>1. PICK y, closing : closing = {PREDICATE, INCOMPLETE_INDEX} /\ y = EndElement(c, x, closing)
        OBVIOUS
      <4>2. Becomes(c, y)
        BY <1>1, <1>15, <2>1, <2>2, <3>2, <4>1, Zenon
      <4>3. worker'[c] = [y EXCEPT !.at = @ + 1]
        BY <4>2, BecomesForm
      <4>4. IsWorker(qa, x) /\ Kin(worker[c], x) /\ Alike(worker[c].levels, x.levels)
        BY <2>1
      <4>. QED
        <5>1. Len(x.ss) >= 1 /\ y = EndElement(c, x, closing)
          BY <2>2, <4>1
        <5>. QED
          BY <4>3, <4>4, <5>1, EndElementOn
    <3>. QED
      BY <3>1, <3>2
  <2>. QED
    BY <1>8, <1>15, <2>1, <2>3, Zenon
<1>16. CASE Len(worker[c].ss) > 1 /\ SecondTop(worker[c]) = "KY"
  <2>1. PICK y : y = PopSyntax(done, 2)
    OBVIOUS
  <2>2. PICK z : z = PopLevels(y, 1)
    OBVIOUS
  <2>3. worker'[c] = [z EXCEPT !.at = @ + 1]
    <3>1. worker[c].ss # <<>> /\ Len(worker[c].ss) # 1
      BY <1>10, <1>16, Zenon
    <3>2. Becomes(c, z)
      BY <1>1, <1>16, <3>1, <2>1, <2>2, Zenon
    <3>. QED
      BY <3>2, BecomesForm
  <2>4. /\ IsWorker(qa, y) /\ Kin(done, y) /\ y.levels = done.levels
        /\ y.shadow_ss = done.shadow_ss /\ y.unit = done.unit
        /\ y.ss = Drop(done.ss, 2)
    <3>1. IsWorker(qa, done) /\ 2 <= Len(done.ss)
      BY <1>6, <1>16
    <3>. QED
      BY <2>1, <3>1, PopSyntaxForm
  <2>5. z = [y EXCEPT !.levels = queryStacksPop(@)]
    BY <2>2 DEF PopLevels
  <2>6. IsWorker(qa, z) /\ SameRest(y, z) /\ z.levels = queryStacksPop(y.levels)
    BY <2>4, <2>5, PopLevelsForm
  <2>7. Kin(worker[c], z)
    BY <1>6, <2>4, <2>6 DEF Kin, SameRest
  <2>8. ReadOn(qa, worker[c], worker'[c], z.ss, z.shadow_ss, queryStacksPop(done.levels), z.unit)
    <3>1. Alike(queryStacksPop(done.levels), z.levels)
      BY <2>4, <2>6, AlikeSelf
    <3>. QED
      BY <2>3, <2>6, <2>7, <3>1, ReadOnKin
  <2>9. z.ss = Drop(worker[c].ss, 2) /\ z.unit = worker[c].unit
        /\ z.shadow_ss = worker[c].shadow_ss
    BY <1>6, <2>4, <2>6 DEF SameRest
  <2>10. done.levels \in Seq(Seq(Node(qa))) /\ done.levels # <<>>
    BY <1>6, Fields
  <2>11. PopsOn(worker[c], worker'[c], Drop(worker[c].ss, 2), worker[c].shadow_ss, 1)
    BY <1>6, <2>8, <2>9, <2>10 DEF PopsOn
  <2>12. worker[c].ss[Len(worker[c].ss) - 1] = "KY"
    BY <1>16, SecondTopForm
  <2>. QED
    BY <1>16, <2>11, <2>12
<1>17. CASE Len(worker[c].ss) > 1 /\ SecondTop(worker[c]) = "LB"
  <2>1. PICK x : /\ x = done /\ IsWorker(qa, x) /\ Kin(worker[c], x)
                 /\ Alike(worker[c].levels, x.levels) /\ x.shadow_ss = worker[c].shadow_ss
                 /\ x.ss = worker[c].ss /\ x.unit = worker[c].unit
    BY <1>6
  <2>2. Len(x.ss) >= 1 /\ worker[c].ss # <<>> /\ Len(worker[c].ss) # 1
    BY <1>10, <1>17, <2>1, Zenon
  <2>3. PICK y, closing : closing = {PREDICATE} /\ y = EndElement(c, x, closing)
    OBVIOUS
  <2>4. Becomes(c, y)
    <3>1. SecondTop(worker[c]) # "KY"
      BY <1>17
    <3>. QED
      BY <1>1, <1>17, <2>1, <2>2, <2>3, <3>1, Zenon
  <2>5. worker'[c] = [y EXCEPT !.at = @ + 1]
    BY <2>4, BecomesForm
  <2>6. IsWorker(qa, x) /\ Kin(worker[c], x) /\ Alike(worker[c].levels, x.levels)
    BY <2>1
  <2>7. ReadOn(qa, worker[c], worker'[c], Drop(x.ss, 1), x.shadow_ss, worker[c].levels, x.unit)
    <3>1. Len(x.ss) >= 1 /\ y = EndElement(c, x, closing)
      BY <2>2, <2>3
    <3>. QED
      BY <2>5, <2>6, <3>1, EndElementOn
  <2>8. worker[c].ss[Len(worker[c].ss) - 1] = "LB"
    BY <1>17, SecondTopForm
  <2>. QED
    BY <1>17, <2>1, <2>7, <2>8, Zenon
<1>18. CASE Len(worker[c].ss) > 1 /\ SecondTop(worker[c]) \notin {"KY", "LB"}
  <2>1. worker'[c] = [done EXCEPT !.at = @ + 1]
    <3>1. worker[c].ss # <<>> /\ Len(worker[c].ss) # 1
      BY <1>10, <1>18, Zenon
    <3>2. SecondTop(worker[c]) # "KY" /\ SecondTop(worker[c]) # "LB"
      BY <1>18
    <3>3. Becomes(c, done)
      BY <1>1, <3>1, <3>2, Zenon
    <3>. QED
      BY <3>3, BecomesForm
  <2>2. ReadOn(qa, worker[c], worker'[c], done.ss, done.shadow_ss, worker[c].levels, done.unit)
    BY <1>6, <2>1, ReadOnKin
  <2>3. worker[c].ss[Len(worker[c].ss) - 1] \notin {"KY", "LB"}
    BY <1>18, SecondTopForm
  <2>. QED
    BY <1>6, <1>18, <2>2, <2>3, Zenon
<1>. QED
  BY <1>13, <1>14, <1>15, <1>16, <1>17, <1>18, <1>10, Zenon

(* The syntax stack and the tree are cut together. *)
LEMMA PopBothOn ==
  ASSUME NEW w, IsWorker(qa, w), NEW x, IsWorker(qa, x), Kin(w, x), Alike(w.levels, x.levels),
         x.unit = w.unit, NEW n \in {1, 2}, n <= Len(x.ss), NEW m \in {1, 2},
         NEW y, y = PopSyntax(x, n), NEW z, z = PopLevels(y, m)
  PROVE  /\ IsWorker(qa, z) /\ Kin(w, z) /\ z.ss = Drop(x.ss, n) /\ z.shadow_ss = x.shadow_ss
         /\ z.unit = w.unit
         /\ z.levels = IF m = 1 THEN queryStacksPop(x.levels)
                                ELSE queryStacksPop(queryStacksPop(x.levels))
<1>1. /\ IsWorker(qa, y) /\ Kin(x, y) /\ y.levels = x.levels
      /\ y.shadow_ss = x.shadow_ss /\ y.unit = x.unit /\ y.ss = Drop(x.ss, n)
  BY PopSyntaxForm
<1>2. /\ IsWorker(qa, z) /\ SameRest(y, z)
      /\ z.levels = IF m = 1 THEN queryStacksPop(y.levels)
                             ELSE queryStacksPop(queryStacksPop(y.levels))
  <2>1. IsWorker(qa, y)
    BY <1>1
  <2>2. CASE m = 1
    <3>1. z = [y EXCEPT !.levels = queryStacksPop(@)]
      BY <2>2 DEF PopLevels
    <3>2. IsWorker(qa, z) /\ SameRest(y, z) /\ z.levels = queryStacksPop(y.levels)
      BY <2>1, <3>1, PopLevelsForm
    <3>. QED
      BY <2>2, <3>2
  <2>3. CASE m = 2
    <3>1. z = PopLevels(y, 2)
      BY <2>3
    <3>2. /\ IsWorker(qa, z) /\ SameRest(y, z)
          /\ z.levels = queryStacksPop(queryStacksPop(y.levels))
      BY <2>1, <3>1, PopLevelsTwiceForm
    <3>. QED
      BY <2>3, <3>2
  <2>. QED
    BY <2>2, <2>3
<1>. QED
  BY <1>1, <1>2 DEF Kin, SameRest

(* The fields of a record whose tree was cut. *)
LEMMA PopsOnForm ==
  ASSUME NEW w, IsWorker(qa, w), NEW ls, ls \in Seq(Seq(Node(qa))), ls # <<>>,
         Alike(w.levels, ls), NEW n \in {1, 2},
         NEW z, IsWorker(qa, z), Kin(w, z), z.unit = w.unit,
         Alike(IF n = 1 THEN queryStacksPop(ls) ELSE queryStacksPop(queryStacksPop(ls)), z.levels),
         NEW v, v = [z EXCEPT !.at = @ + 1]
  PROVE  PopsOn(w, v, z.ss, z.shadow_ss, n)
<1>1. PICK ms : ms = IF n = 1 THEN queryStacksPop(ls) ELSE queryStacksPop(queryStacksPop(ls))
  OBVIOUS
<1>2. Alike(ms, z.levels)
  BY <1>1
<1>3. ReadOn(qa, w, v, z.ss, z.shadow_ss, ms, z.unit)
  BY <1>2, ReadOnKin
<1>. QED
  BY <1>1, <1>3 DEF PopsOn

(* A member's array is complete: its key goes too. *)
LEMMA PopsOnBoth ==
  ASSUME NEW w, IsWorker(qa, w), NEW x, IsWorker(qa, x), Kin(w, x), Alike(w.levels, x.levels),
         x.unit = w.unit, NEW n \in {1, 2}, n <= Len(x.ss), NEW m \in {1, 2},
         NEW v, v = [PopLevels(PopSyntax(x, n), m) EXCEPT !.at = @ + 1]
  PROVE  PopsOn(w, v, Drop(x.ss, n), x.shadow_ss, m)
<1>1. PICK y, z : y = PopSyntax(x, n) /\ z = PopLevels(y, m)
  OBVIOUS
<1>2. /\ IsWorker(qa, z) /\ Kin(w, z) /\ z.ss = Drop(x.ss, n) /\ z.shadow_ss = x.shadow_ss
      /\ z.unit = w.unit
      /\ z.levels = IF m = 1 THEN queryStacksPop(x.levels)
                             ELSE queryStacksPop(queryStacksPop(x.levels))
  BY <1>1, PopBothOn
<1>3. PICK ls : ls = x.levels /\ ls \in Seq(Seq(Node(qa))) /\ ls # <<>> /\ Alike(w.levels, ls)
  BY Fields
<1>4. Alike(IF m = 1 THEN queryStacksPop(ls) ELSE queryStacksPop(queryStacksPop(ls)), z.levels)
  BY <1>2, <1>3, AlikeSelf
<1>5. v = [z EXCEPT !.at = @ + 1]
  BY <1>1
<1>6. PopsOn(w, v, z.ss, z.shadow_ss, m)
  BY <1>2, <1>3, <1>4, <1>5, PopsOnForm
<1>. QED
  BY <1>2, <1>6

(* An array that is an element is complete: it is counted. *)
LEMMA PopsOnElement ==
  ASSUME NEW w, IsWorker(qa, w), NEW x, IsWorker(qa, x), Kin(w, x), Alike(w.levels, x.levels),
         x.unit = w.unit, 1 <= Len(x.ss),
         NEW u, u = PopLevels(PopSyntax(x, 1), 1),
         NEW y, y = MapCurrent(u, CountUp),
         NEW v, v = [y EXCEPT !.at = @ + 1]
  PROVE  PopsOn(w, v, Drop(x.ss, 1), x.shadow_ss, 1)
<1>1. PICK z : z = PopSyntax(x, 1) /\ u = PopLevels(z, 1)
  OBVIOUS
<1>2. /\ IsWorker(qa, u) /\ Kin(w, u) /\ u.ss = Drop(x.ss, 1) /\ u.shadow_ss = x.shadow_ss
      /\ u.unit = w.unit /\ u.levels = queryStacksPop(x.levels)
  <2>1. PICK n \in {1, 2} : n = 1
    OBVIOUS
  <2>2. z = PopSyntax(x, n) /\ u = PopLevels(z, n) /\ n <= Len(x.ss)
    BY <1>1, <2>1
  <2>3. /\ IsWorker(qa, u) /\ Kin(w, u) /\ u.ss = Drop(x.ss, n) /\ u.shadow_ss = x.shadow_ss
        /\ u.unit = w.unit
        /\ u.levels = IF n = 1 THEN queryStacksPop(x.levels)
                               ELSE queryStacksPop(queryStacksPop(x.levels))
    BY <2>2, PopBothOn
  <2>. QED
    BY <2>1, <2>3
<1>3. IsWorker(qa, y) /\ Alike(u.levels, y.levels) /\ SameRest(u, y)
  BY <1>2, CountForm
<1>4. /\ Kin(w, y) /\ y.ss = Drop(x.ss, 1) /\ y.shadow_ss = x.shadow_ss /\ y.unit = w.unit
  BY <1>2, <1>3 DEF Kin, SameRest
<1>5. PICK ls : ls = x.levels /\ ls \in Seq(Seq(Node(qa))) /\ ls # <<>> /\ Alike(w.levels, ls)
  BY Fields
<1>6. PICK n \in {1, 2} : n = 1
  OBVIOUS
<1>7. Alike(IF n = 1 THEN queryStacksPop(ls) ELSE queryStacksPop(queryStacksPop(ls)), y.levels)
  BY <1>2, <1>3, <1>5, <1>6
<1>8. PopsOn(w, v, y.ss, y.shadow_ss, n)
  BY <1>3, <1>4, <1>5, <1>7, PopsOnForm
<1>. QED
  BY <1>4, <1>6, <1>8

(* ']': the unit's own array is closed, or one from before it. *)
LEMMA ReadRB ==
  ASSUME NEW c \in DOMAIN worker, RB(c), IsQueryDFA(qa), IsWorker(qa, worker[c])
  PROVE  LET w == worker[c]
             v == worker'[c]
         IN
         \/ w.ss = <<>> /\ ClosesUnit(c, w, v, "RB")
         \/ /\ Len(w.ss) = 1 /\ Enclosing(w, {"LB", "END"}) = "KY"
            /\ ClosesInferred(c, w, v, "ARRAY")
         \/ /\ Len(w.ss) = 1 /\ Enclosing(w, {"LB", "END"}) # "KY"
            /\ PopsOn(w, v, Drop(w.ss, 1), Enclosing(w, {"LB", "END"}), 1)
         \/ /\ Len(w.ss) > 1 /\ w.ss[Len(w.ss) - 1] = "KY"
            /\ PopsOn(w, v, Drop(w.ss, 2), w.shadow_ss, 2)
         \/ /\ Len(w.ss) > 1 /\ w.ss[Len(w.ss) - 1] = "LB"
            /\ PopsOn(w, v, Drop(w.ss, 1), w.shadow_ss, 1)
         \/ /\ Len(w.ss) > 1 /\ w.ss[Len(w.ss) - 1] \notin {"KY", "LB"}
            /\ ReadOn(qa, w, v, w.ss, w.shadow_ss, w.levels, w.unit)
<1> DEFINE p == worker[c].at + 1
           below == Len(worker[c].levels) - 1
           arrays == worker[c].levels[below]
           t(node) == CompletedTuple(c, worker[c], p, node) \o
                      (IF node.matched_start # INVALID
                         THEN MarkIf({INCOMPLETE_INDEX}, "]", node) ELSE <<>>)
           x == AddTuples(c, worker[c], arrays, t)
           F == [m \in DOMAIN arrays |-> Cleared(c, arrays[m])]
           done == [x EXCEPT !.levels[below] = F]
           only == Infer(done, p, {"LB", "END"})
           element(v) == MapCurrent(PopLevels(PopSyntax(v, 1), 1), CountUp)
<1>1. IF worker[c].ss = <<>>
        THEN Becomes(c, addUnmatchedSymbol(CloseUnit(c, worker[c], p), "RB", p))
      ELSE IF Len(worker[c].ss) = 1
        THEN IF only.shadow_ss = "INVALID"
               THEN Becomes(c, PopLevels(PopSyntax(only, 1), 1))
             ELSE IF only.shadow_ss = "KY"
               THEN Becomes(c, addUnmatchedSymbol(CloseUnit(c, only, p), "ARRAY", p))
               ELSE Becomes(c, element(only))
      ELSE IF SecondTop(worker[c]) = "KY"
        THEN Becomes(c, PopLevels(PopSyntax(done, 2), 2))
      ELSE IF SecondTop(worker[c]) = "LB"
        THEN Becomes(c, element(done))
        ELSE Becomes(c, done)
  BY Zenon DEF RB
<1>2. PICK o : x = [worker[c] EXCEPT !.out = o]
  <2> HIDE DEF t, below
  <2>. QED
    BY Zenon DEF AddTuples
<1>3. IsWorker(qa, x) /\ x.levels = worker[c].levels /\ SameRest(worker[c], x)
  <2> HIDE DEF x
  <2>. QED
    BY <1>2, OutForm
<1>4. IsWorker(qa, done) /\ Alike(x.levels, done.levels) /\ SameRest(x, done)
  <2> HIDE DEF x
  <2>1. PICK n : n = below
    OBVIOUS
  <2>2. PICK v, x0, G : v = done /\ x0 = x /\ G = F
    OBVIOUS
  <2>3. n = Len(x0.levels) - 1
    BY <1>3, <2>1, <2>2
  <2>4. G = ClearedAt(c, x0, n)
    BY <1>3, <2>1, <2>2, Zenon DEF ClearedAt
  <2>5. v = [x0 EXCEPT !.levels[n] = G]
    BY <2>1, <2>2
  <2>6. IsWorker(qa, x0)
    BY <1>3, <2>2
  <2>7. IsWorker(qa, v) /\ Alike(x0.levels, v.levels) /\ SameRest(x0, v)
    BY <2>3, <2>4, <2>5, <2>6, ClearedBelow
  <2>. QED
    BY <2>2, <2>7
<1> HIDE DEF x, done, t, F, below
<1>6. /\ IsWorker(qa, done) /\ Alike(worker[c].levels, done.levels) /\ Kin(worker[c], done)
      /\ done.ss = worker[c].ss /\ done.shadow_ss = worker[c].shadow_ss
      /\ done.unit = worker[c].unit
  BY <1>3, <1>4 DEF SameRest, Kin
<1>7. /\ IsWorker(qa, only) /\ Kin(done, only) /\ only.levels = done.levels
      /\ only.unit = done.unit /\ only.ss = done.ss
      /\ only.shadow_ss = IF done.shadow_ss = "INVALID"
                            THEN syntaxStackInference(done, p, {"LB", "END"})
                            ELSE done.shadow_ss
  <2>1. IsWorker(qa, done)
    BY <1>6
  <2> HIDE DEF p
  <2>. QED
    BY <2>1, InferForm
<1>8. only.shadow_ss = Enclosing(worker[c], {"LB", "END"})
  <2>1. syntaxStackInference(done, p, {"LB", "END"})
          = syntaxStackInference(worker[c], p, {"LB", "END"})
    BY <1>6 DEF syntaxStackInference, TypeAt, Delivered, Kin
  <2>. QED
    BY <1>6, <1>7, <2>1, Zenon DEF Enclosing
<1> HIDE DEF only
<1>9. /\ IsWorker(qa, only) /\ Alike(worker[c].levels, only.levels) /\ Kin(worker[c], only)
      /\ only.ss = worker[c].ss /\ only.unit = worker[c].unit
  BY <1>6, <1>7 DEF Kin
<1>10. /\ worker[c].ss = <<>> \/ Len(worker[c].ss) = 1 \/ Len(worker[c].ss) > 1
       /\ Len(worker[c].ss) = 1 => worker[c].ss # <<>> /\ Len(worker[c].ss) >= 1
       /\ Len(worker[c].ss) > 1 => /\ worker[c].ss # <<>> /\ Len(worker[c].ss) # 1
                                    /\ Len(worker[c].ss) >= 1 /\ Len(worker[c].ss) >= 2
  <2>1. worker[c].ss \in Seq(Symbols)
    BY Fields
  <2>. QED
    BY <2>1, LengthCases
<1>11. PICK q : q = p
  OBVIOUS
<1>12. q = worker[c].at + 1 /\ q = only.at + 1 /\ q = done.at + 1
  BY <1>6, <1>9, <1>11 DEF Kin
<1> HIDE DEF p
<1>13. CASE worker[c].ss = <<>>
  <2>1. PICK y : y = addUnmatchedSymbol(CloseUnit(c, worker[c], q), "RB", q)
    OBVIOUS
  <2>2. worker'[c] = [y EXCEPT !.at = @ + 1]
    BY <1>1, <1>11, <1>13, <2>1, BecomesForm
  <2>3. "RB" \in SymbolTypes
    BY DEF SymbolTypes
  <2>4. ClosesUnit(c, worker[c], worker'[c], "RB")
    BY <1>12, <2>1, <2>2, <2>3, ClosesForm
  <2>. QED
    BY <1>13, <2>4
<1>14. CASE Len(worker[c].ss) = 1 /\ only.shadow_ss = "KY"
  <2>1. PICK y : y = addUnmatchedSymbol(CloseUnit(c, only, q), "ARRAY", q)
    OBVIOUS
  <2>2. worker'[c] = [y EXCEPT !.at = @ + 1]
    <3>1. worker[c].ss # <<>> /\ only.shadow_ss # "INVALID"
      BY <1>10, <1>14, Zenon
    <3>. QED
      BY <1>1, <1>11, <1>14, <2>1, <3>1, BecomesForm
  <2>3. "ARRAY" \in SymbolTypes
    BY DEF SymbolTypes
  <2>4. ClosesUnit(c, only, worker'[c], "ARRAY")
    BY <1>9, <1>12, <2>1, <2>2, <2>3, ClosesForm
  <2>5. ClosesInferred(c, worker[c], worker'[c], "ARRAY")
    BY <1>9, <2>4 DEF ClosesInferred
  <2>. QED
    BY <1>8, <1>14, <2>5
<1>15. CASE Len(worker[c].ss) = 1 /\ only.shadow_ss # "KY"
  <2>1. PICK x0 : /\ x0 = only /\ IsWorker(qa, x0) /\ Kin(worker[c], x0)
                  /\ Alike(worker[c].levels, x0.levels)
                  /\ x0.ss = worker[c].ss /\ x0.unit = worker[c].unit
    BY <1>9
  <2>2. Len(x0.ss) >= 1 /\ worker[c].ss # <<>>
    BY <1>10, <1>15, <2>1, Zenon
  <2>3. /\ IsWorker(qa, x0) /\ Kin(worker[c], x0) /\ Alike(worker[c].levels, x0.levels)
        /\ x0.unit = worker[c].unit
    BY <2>1
  <2>4. 1 <= Len(x0.ss)
    BY <2>2
  <2>5. PopsOn(worker[c], worker'[c], Drop(x0.ss, 1), x0.shadow_ss, 1)
    <3>1. CASE x0.shadow_ss = "INVALID"
      <4>1. PICK n \in {1, 2} : n = 1
        OBVIOUS
      <4>2. Becomes(c, PopLevels(PopSyntax(x0, n), n))
        BY <1>1, <1>15, <2>1, <2>2, <3>1, <4>1, Zenon
      <4>3. worker'[c] = [PopLevels(PopSyntax(x0, n), n) EXCEPT !.at = @ + 1]
        BY <4>2, BecomesForm
      <4>4. n <= Len(x0.ss)
        BY <2>4, <4>1
      <4>5. PopsOn(worker[c], worker'[c], Drop(x0.ss, n), x0.shadow_ss, n)
        BY <2>3, <4>3, <4>4, PopsOnBoth
      <4>. QED
        BY <4>1, <4>5
    <3>2. CASE x0.shadow_ss # "INVALID"
      <4>1. PICK u, y : u = PopLevels(PopSyntax(x0, 1), 1) /\ y = element(x0)
        OBVIOUS
      <4>2. y = MapCurrent(u, CountUp)
        BY <4>1, Zenon
      <4>3. Becomes(c, y)
        <5> HIDE DEF element
        <5>. QED
          BY <1>1, <1>15, <2>1, <2>2, <3>2, <4>1, Zenon
      <4>4. worker'[c] = [y EXCEPT !.at = @ + 1]
        BY <4>3, BecomesForm
      <4>5. u = PopLevels(PopSyntax(x0, 1), 1)
        BY <4>1
      <4>. QED
        BY <2>3, <2>4, <4>2, <4>4, <4>5, PopsOnElement
    <3>. QED
      BY <3>1, <3>2
  <2>. QED
    BY <1>8, <1>15, <2>1, <2>5, Zenon
<1>16. CASE Len(worker[c].ss) > 1 /\ SecondTop(worker[c]) = "KY"
  <2>1. /\ IsWorker(qa, done) /\ Kin(worker[c], done) /\ Alike(worker[c].levels, done.levels)
        /\ done.unit = worker[c].unit
    BY <1>6
  <2>2. PICK n \in {1, 2} : n = 2
    OBVIOUS
  <2>3. Becomes(c, PopLevels(PopSyntax(done, n), n))
    <3>1. worker[c].ss # <<>> /\ Len(worker[c].ss) # 1
      BY <1>10, <1>16, Zenon
    <3>. QED
      BY <1>1, <1>16, <2>2, <3>1, Zenon
  <2>4. worker'[c] = [PopLevels(PopSyntax(done, n), n) EXCEPT !.at = @ + 1]
    BY <2>3, BecomesForm
  <2>5. n <= Len(done.ss)
    BY <1>6, <1>16, <2>2
  <2>6. PopsOn(worker[c], worker'[c], Drop(done.ss, n), done.shadow_ss, n)
    <3>1. PICK x0 : x0 = done
      OBVIOUS
    <3>. QED
      BY <2>1, <2>4, <2>5, <3>1, PopsOnBoth
  <2>7. PopsOn(worker[c], worker'[c], Drop(worker[c].ss, 2), worker[c].shadow_ss, 2)
    BY <1>6, <2>2, <2>6
  <2>8. worker[c].ss[Len(worker[c].ss) - 1] = "KY"
    BY <1>16, SecondTopForm
  <2>. QED
    BY <1>16, <2>7, <2>8
<1>17. CASE Len(worker[c].ss) > 1 /\ SecondTop(worker[c]) = "LB"
  <2>1. PICK x0 : /\ x0 = done /\ IsWorker(qa, x0) /\ Kin(worker[c], x0)
                  /\ Alike(worker[c].levels, x0.levels) /\ x0.shadow_ss = worker[c].shadow_ss
                  /\ x0.ss = worker[c].ss /\ x0.unit = worker[c].unit
    BY <1>6
  <2>2. Len(x0.ss) >= 1 /\ worker[c].ss # <<>> /\ Len(worker[c].ss) # 1
    BY <1>10, <1>17, <2>1, Zenon
  <2>3. PICK u, y : u = PopLevels(PopSyntax(x0, 1), 1) /\ y = element(x0)
    OBVIOUS
  <2>4. y = MapCurrent(u, CountUp)
    BY <2>3, Zenon
  <2>5. Becomes(c, y)
    <3>1. SecondTop(worker[c]) # "KY"
      BY <1>17
    <3> HIDE DEF element
    <3>. QED
      BY <1>1, <1>17, <2>1, <2>2, <2>3, <3>1, Zenon
  <2>6. worker'[c] = [y EXCEPT !.at = @ + 1]
    BY <2>5, BecomesForm
  <2>7. /\ IsWorker(qa, x0) /\ Kin(worker[c], x0) /\ Alike(worker[c].levels, x0.levels)
        /\ x0.unit = worker[c].unit
    BY <2>1
  <2>8. 1 <= Len(x0.ss) /\ u = PopLevels(PopSyntax(x0, 1), 1)
    BY <2>2, <2>3
  <2>9. PopsOn(worker[c], worker'[c], Drop(x0.ss, 1), x0.shadow_ss, 1)
    BY <2>4, <2>6, <2>7, <2>8, PopsOnElement
  <2>10. worker[c].ss[Len(worker[c].ss) - 1] = "LB"
    BY <1>17, SecondTopForm
  <2>. QED
    BY <1>17, <2>1, <2>9, <2>10, Zenon
<1>18. CASE Len(worker[c].ss) > 1 /\ SecondTop(worker[c]) \notin {"KY", "LB"}
  <2>1. worker'[c] = [done EXCEPT !.at = @ + 1]
    <3>1. worker[c].ss # <<>> /\ Len(worker[c].ss) # 1
      BY <1>10, <1>18, Zenon
    <3>2. SecondTop(worker[c]) # "KY" /\ SecondTop(worker[c]) # "LB"
      BY <1>18
    <3>3. Becomes(c, done)
      BY <1>1, <3>1, <3>2, Zenon
    <3>. QED
      BY <3>3, BecomesForm
  <2>2. ReadOn(qa, worker[c], worker'[c], done.ss, done.shadow_ss, worker[c].levels, done.unit)
    BY <1>6, <2>1, ReadOnKin
  <2>3. worker[c].ss[Len(worker[c].ss) - 1] \notin {"KY", "LB"}
    BY <1>18, SecondTopForm
  <2>. QED
    BY <1>6, <1>18, <2>2, <2>3, Zenon
<1>. QED
  BY <1>10, <1>13, <1>14, <1>15, <1>16, <1>17, <1>18, Zenon

-----------------------------------------------------------------------------
(***************************************************************************)
(* The beginning of an array and of a member: the tree grows by a level.   *)
(***************************************************************************)
(* The next level is one of nodes. *)
LEMMA PushType ==
  ASSUME NEW Q, IsQueryDFA(Q), NEW ls \in Seq(Seq(Node(Q))), ls # <<>>, NEW label \in Labels
  PROVE  queryStacksPush(Q, ls, label) \in Seq(Seq(Node(Q))) /\ queryStacksPush(Q, ls, label) # <<>>
<1>1. PICK top \in Seq(Node(Q)) : top = Last(ls)
  BY FrontFacts
<1>2. PICK new, s : new = NextLevel(Q, top, label) /\ s = Firsts(Q, top, label)
  OBVIOUS
<1>3. new \in Seq(Node(Q))
  <2>1. Above(Q, top, label, s, new)
    BY <1>2, NextLevelNodes
  <2>. QED
    BY <2>1 DEF Above
<1>4. queryStacksPush(Q, ls, label) = Append(ls, new)
  BY <1>1, <1>2 DEF queryStacksPush
<1>. QED
  BY <1>3, <1>4, AppendProperties

(* '[' or a key was read in the tree of x. *)
DescendsOn(w, x, v, symbol, label) ==
  \E ls : /\ ls \in Seq(Seq(Node(qa))) /\ ls # <<>> /\ Alike(x.levels, ls)
          /\ ReadOn(qa, w, v, Append(w.ss, symbol), w.shadow_ss,
                    queryStacksPush(qa, ls, label), x.unit)

(* The tree grows by the level the label leads to. *)
LEMMA DescendForm ==
  ASSUME IsQueryDFA(qa), NEW w, IsWorker(qa, w), NEW x, NEW y, IsWorker(qa, y), Kin(w, y),
         y.ss = w.ss, y.shadow_ss = w.shadow_ss, y.unit = x.unit, Alike(x.levels, y.levels),
         NEW symbol \in Symbols, NEW label \in Labels,
         NEW z, z = Descend(y, symbol, label), NEW v, v = [z EXCEPT !.at = @ + 1]
  PROVE  DescendsOn(w, x, v, symbol, label)
<1>1. PICK ls : /\ ls = y.levels /\ ls \in Seq(Seq(Node(qa))) /\ ls # <<>> /\ Alike(x.levels, ls)
  BY Fields
<1>2. PICK ms : /\ ms = queryStacksPush(qa, ls, label)
                /\ ms \in Seq(Seq(Node(qa))) /\ ms # <<>>
  BY <1>1, PushType
<1>3. z = [y EXCEPT !.ss = Append(@, symbol), !.levels = ms]
  BY <1>1, <1>2 DEF Descend
<1>4. /\ Kin(w, z) /\ z.ss = Append(y.ss, symbol) /\ z.shadow_ss = y.shadow_ss
      /\ z.unit = y.unit /\ z.levels = ms /\ DOMAIN z = DOMAIN y
  BY <1>3 DEF IsWorker, WorkerFields, Kin
<1>5. Append(y.ss, symbol) \in Seq(Symbols)
  <2>1. y.ss \in Seq(Symbols)
    BY Fields
  <2>. QED
    BY <2>1, AppendProperties
<1>6. IsWorker(qa, z)
  BY <1>2, <1>4, <1>5 DEF IsWorker, Kin
<1>7. Alike(ms, z.levels)
  BY <1>4, AlikeSelf
<1>8. ReadOn(qa, w, v, z.ss, z.shadow_ss, ms, z.unit)
  BY <1>4, <1>6, <1>7, ReadOnKin
<1>. QED
  BY <1>1, <1>2, <1>4, <1>8 DEF DescendsOn

(* The tree a thread has when it reads the first label of a unit. *)
Begun(w) == StartUnit(w, w.at + 1)

(* Starting a unit leaves the tree alone. *)
LEMMA BegunForm ==
  ASSUME NEW w, IsWorker(qa, w), NEW x, x = Begun(w)
  PROVE  /\ IsWorker(qa, x) /\ Kin(w, x) /\ x.ss = w.ss /\ x.shadow_ss = w.shadow_ss
         /\ x.levels = w.levels /\ x.unit = Started(w.unit, (w.at + 1) - w.base)
<1>1. PICK p \in Nat : p = w.at + 1
  BY Fields
<1>2. PICK u : u = Started(w.unit, p - w.base)
  OBVIOUS
<1>3. x = [w EXCEPT !.unit = u] /\ IsUnit(u)
  BY <1>1, <1>2, StartedForm DEF Begun
<1>4. /\ Kin(w, x) /\ x.ss = w.ss /\ x.shadow_ss = w.shadow_ss
      /\ x.levels = w.levels /\ x.unit = u /\ DOMAIN x = WorkerFields
  BY <1>3 DEF IsWorker, WorkerFields, Kin
<1>5. u = Started(w.unit, (w.at + 1) - w.base)
  BY <1>1, <1>2
<1>. QED
  BY <1>3, <1>4, <1>5 DEF IsWorker, Kin

(* '[': a match may start, and the tree grows by an array's level. *)
LEMMA ReadLB ==
  ASSUME NEW c \in DOMAIN worker, LB(c), QueryType, IsWorker(qa, worker[c]),
         c # 0 => \A m \in DOMAIN worker[c].levels[1] : worker[c].levels[1][m].roots = {}
  PROVE  \E x : /\ Pruned(c, Begun(worker[c]), x, ARRAY)
                /\ DescendsOn(worker[c], x, worker'[c], "LB", ARRAY)
<1> DEFINE p == worker[c].at + 1
           b == StartUnit(worker[c], p)
           w == Prune(c, b, ARRAY)
           t(node) == MarkIf({CONDITION}, "", node)
           start(node) == StartsMatch(c, p, w.base, node)
           x == AddTuples(c, w, Current(w), t)
           F == [m \in DOMAIN Last(x.levels) |-> start(Last(x.levels)[m])]
           y == MapCurrent(x, start)
<1>1. Becomes(c, Descend(y, "LB", ARRAY))
  BY Zenon DEF LB
<1>2. PICK o : x = [w EXCEPT !.out = o]
  <2> HIDE DEF w, t
  <2>. QED
    BY Zenon DEF AddTuples
<1>3. y = [x EXCEPT !.levels = Append(Front(@), F)]
  <2> HIDE DEF x, start
  <2>. QED
    BY Zenon DEF MapCurrent
<1> HIDE DEF y, x
<1>4. b = Begun(worker[c])
  BY DEF Begun
<1>5. /\ IsWorker(qa, b) /\ Kin(worker[c], b) /\ b.ss = worker[c].ss
      /\ b.shadow_ss = worker[c].shadow_ss /\ b.levels = worker[c].levels
  <2> HIDE DEF b
  <2>. QED
    BY <1>4, BegunForm
<1>6. ARRAY \in Labels /\ p \in Int
  BY Fields DEF Labels
<1>7. Pruned(c, b, w, ARRAY)
  <2>1. c # 0 => \A m \in DOMAIN b.levels[1] : b.levels[1][m].roots = {}
    BY <1>5
  <2>2. IsWorker(qa, b)
    BY <1>5
  <2> HIDE DEF b
  <2>. QED
    BY <1>6, <2>1, <2>2, PruneForm
<1> HIDE DEF w
<1>8. IsWorker(qa, w) /\ Kin(b, w) /\ w.ss = b.ss /\ w.shadow_ss = b.shadow_ss
  BY <1>7 DEF Pruned
<1> HIDE DEF b
<1>9. IsWorker(qa, x) /\ x.levels = w.levels /\ SameRest(w, x)
  <2>1. IsWorker(qa, w)
    BY <1>8
  <2>. QED
    BY <1>2, <2>1, OutForm
<1>10. Kept(qa, F, Last(x.levels))
  <2>1. Last(x.levels) \in Seq(Node(qa)) /\ w.base \in Int
    BY <1>8, <1>9, Fields
  <2>2. ASSUME NEW m \in DOMAIN Last(x.levels)
        PROVE  /\ F[m] \in Node(qa) /\ F[m].query_state = Last(x.levels)[m].query_state
               /\ F[m].roots = Last(x.levels)[m].roots
    <3>1. Last(x.levels)[m] \in Node(qa)
      BY <2>1
    <3> HIDE DEF p
    <3>. QED
      BY <1>6, <2>1, <3>1, StartsKept
  <2> HIDE DEF F
  <2>3. DOMAIN F = DOMAIN Last(x.levels)
    BY DEF F
  <2>. QED
    BY <2>2, <2>3 DEF Kept
<1>11. IsWorker(qa, y) /\ Alike(x.levels, y.levels) /\ SameRest(x, y)
  <2>1. F = [m \in DOMAIN Last(x.levels) |-> F[m]]
    OBVIOUS
  <2>2. IsWorker(qa, x)
    BY <1>9
  <2> HIDE DEF F
  <2>. QED
    BY <1>3, <1>10, <2>1, <2>2, MapForm
<1>12. PICK z : z = Descend(y, "LB", ARRAY)
  OBVIOUS
<1>13. worker'[c] = [z EXCEPT !.at = @ + 1]
  BY <1>1, <1>12, BecomesForm
<1>14. "LB" \in Symbols
  BY DEF Symbols
<1>15. /\ IsWorker(qa, y) /\ Kin(worker[c], y) /\ y.ss = worker[c].ss
       /\ y.shadow_ss = worker[c].shadow_ss /\ y.unit = w.unit /\ Alike(w.levels, y.levels)
  BY <1>5, <1>8, <1>9, <1>11 DEF SameRest, Kin
<1>16. DescendsOn(worker[c], w, worker'[c], "LB", ARRAY)
  <2>1. PICK sym \in Symbols : sym = "LB"
    BY <1>14
  <2>2. z = Descend(y, sym, ARRAY)
    BY <1>12, <2>1
  <2>3. DescendsOn(worker[c], w, worker'[c], sym, ARRAY)
    BY <1>6, <1>13, <1>15, <2>2, DescendForm DEF QueryType
  <2>. QED
    BY <2>1, <2>3
<1>. QED
  BY <1>4, <1>7, <1>16

(* A key: the tree grows by its level. *)
LEMMA ReadKY ==
  ASSUME NEW c \in DOMAIN worker, KY(c), QueryType, IsWorker(qa, worker[c]),
         c # 0 => \A m \in DOMAIN worker[c].levels[1] : worker[c].levels[1][m].roots = {},
         NEW key \in Labels, key = text[worker[c].at + 1].key
  PROVE  \E x : /\ \/ Len(worker[c].levels) = 1 /\ Pruned(c, Begun(worker[c]), x, key)
                   \/ Len(worker[c].levels) # 1 /\ x = Begun(worker[c])
                /\ DescendsOn(worker[c], x, worker'[c], "KY", key)
<1>1. PICK b : b = Begun(worker[c])
  OBVIOUS
<1>2. PICK x : x = IF Len(b.levels) = 1 THEN Prune(c, b, key) ELSE b
  OBVIOUS
<1>3. Becomes(c, Descend(x, "KY", key))
  BY <1>1, <1>2, Zenon DEF KY, Begun
<1>4. /\ IsWorker(qa, b) /\ Kin(worker[c], b) /\ b.ss = worker[c].ss
      /\ b.shadow_ss = worker[c].shadow_ss /\ b.levels = worker[c].levels
  BY <1>1, BegunForm
<1>5. CASE Len(b.levels) = 1
  <2>1. x = Prune(c, b, key)
    BY <1>2, <1>5
  <2>2. c # 0 => \A m \in DOMAIN b.levels[1] : b.levels[1][m].roots = {}
    BY <1>4
  <2>3. IsWorker(qa, b)
    BY <1>4
  <2>4. Pruned(c, b, x, key)
    BY <2>1, <2>2, <2>3, PruneForm
  <2>5. /\ IsWorker(qa, x) /\ Kin(worker[c], x) /\ x.ss = worker[c].ss
        /\ x.shadow_ss = worker[c].shadow_ss /\ Alike(x.levels, x.levels)
    BY <1>4, <2>4, AlikeSelf DEF Pruned, Kin
  <2>6. PICK sym \in Symbols : sym = "KY"
    BY DEF Symbols
  <2>7. PICK z : z = Descend(x, sym, key)
    OBVIOUS
  <2>8. worker'[c] = [z EXCEPT !.at = @ + 1]
    BY <1>3, <2>6, <2>7, BecomesForm
  <2>9. DescendsOn(worker[c], x, worker'[c], sym, key)
    BY <2>5, <2>7, <2>8, DescendForm DEF QueryType
  <2>. QED
    BY <1>1, <1>4, <1>5, <2>4, <2>6, <2>9
<1>6. CASE Len(b.levels) # 1
  <2>1. x = b
    BY <1>2, <1>6
  <2>2. /\ IsWorker(qa, x) /\ Kin(worker[c], x) /\ x.ss = worker[c].ss
        /\ x.shadow_ss = worker[c].shadow_ss /\ Alike(x.levels, x.levels)
    BY <1>4, <2>1, AlikeSelf
  <2>3. PICK sym \in Symbols : sym = "KY"
    BY DEF Symbols
  <2>4. PICK z : z = Descend(x, sym, key)
    OBVIOUS
  <2>5. worker'[c] = [z EXCEPT !.at = @ + 1]
    BY <1>3, <2>3, <2>4, BecomesForm
  <2>6. DescendsOn(worker[c], x, worker'[c], sym, key)
    BY <2>2, <2>4, <2>5, DescendForm DEF QueryType
  <2>. QED
    BY <1>1, <1>4, <1>6, <2>1, <2>3, <2>6
<1>. QED
  BY <1>5, <1>6

(* ',': nothing but the position changes. *)
LEMMA ReadCOM ==
  ASSUME NEW c \in DOMAIN worker, COM(c), IsWorker(qa, worker[c])
  PROVE  LET w == worker[c] IN
         ReadOn(qa, w, worker'[c], w.ss, w.shadow_ss, w.levels, w.unit)
<1>1. worker'[c] = [worker[c] EXCEPT !.at = @ + 1]
  BY BecomesForm DEF COM
<1>2. Kin(worker[c], worker[c]) /\ Alike(worker[c].levels, worker[c].levels)
  BY AlikeSelf DEF Kin
<1>. QED
  BY <1>1, <1>2, ReadOnKin

-----------------------------------------------------------------------------
(***************************************************************************)
(* A primitive, and the end of the chunk.                                  *)
(***************************************************************************)
(* The state of a unit is set. *)
LEMMA StateForm ==
  ASSUME NEW w, IsWorker(qa, w), NEW v, v = [w EXCEPT !.unit.state = "MATCHED"]
  PROVE  /\ IsWorker(qa, v) /\ Kin(w, v) /\ v.ss = w.ss /\ v.shadow_ss = w.shadow_ss
         /\ v.levels = w.levels /\ v.unit = [w.unit EXCEPT !.state = "MATCHED"]
<1>1. /\ Kin(w, v) /\ v.ss = w.ss /\ v.shadow_ss = w.shadow_ss
      /\ v.levels = w.levels /\ v.unit = [w.unit EXCEPT !.state = "MATCHED"]
      /\ DOMAIN v = WorkerFields
  BY DEF IsWorker, WorkerFields, Kin
<1>2. IsUnit(w.unit)
  BY Fields
<1>3. IsUnit(v.unit)
  BY <1>1, <1>2 DEF IsUnit
<1>. QED
  BY <1>1, <1>3 DEF IsWorker, Kin

(* A primitive: as a member, as an element, or as a literal the unit begins
   with. *)
LEMMA ReadPRI ==
  ASSUME NEW c \in DOMAIN worker, PRI(c), IsQueryDFA(qa), IsWorker(qa, worker[c])
  PROVE  LET w == worker[c]
             v == worker'[c]
         IN
         \/ w.ss # <<>> /\ Last(w.ss) = "KY" /\ PopsOn(w, v, Drop(w.ss, 1), w.shadow_ss, 1)
         \/ /\ w.ss # <<>> /\ Last(w.ss) # "KY"
            /\ ReadOn(qa, w, v, w.ss, w.shadow_ss, w.levels, w.unit)
         \/ w.ss = <<>> /\ Enclosing(w, {}) = "KY" /\ ClosesInferred(c, w, v, "PRI")
         \/ /\ w.ss = <<>> /\ Enclosing(w, {}) # "KY"
            /\ ReadOn(qa, w, v, w.ss, Enclosing(w, {}), w.levels,
                      [w.unit EXCEPT !.state = "MATCHED"])
<1> DEFINE p == worker[c].at + 1
           only == Infer(worker[c], p, {})
           content == IF worker[c].shadow_ss = "INVALID" THEN ContentAt(worker[c], p) ELSE p
           value(node)   == PrimitiveTuple(c, p, node)
           element(node) == PrimitiveTuple(c, content, node)
           done == AddTuples(c, worker[c], Current(worker[c]), value)
           begun == [only EXCEPT !.unit.state = "MATCHED"]
           taken == AddTuples(c, begun, Current(worker[c]), element)
<1>1. IF worker[c].ss # <<>>
        THEN IF Last(worker[c].ss) = "KY" THEN Becomes(c, PopLevels(PopSyntax(done, 1), 1))
             ELSE IF Last(worker[c].ss) = "LB" THEN Becomes(c, MapCurrent(done, CountUp))
             ELSE Becomes(c, done)
      ELSE IF only.shadow_ss = "KY"
        THEN Becomes(c, addUnmatchedSymbol(CloseUnit(c, only, p), "PRI", p))
        ELSE Becomes(c, MapCurrent(taken, CountUp))
  BY Zenon DEF PRI
<1>2. PICK o : done = [worker[c] EXCEPT !.out = o]
  <2> HIDE DEF value
  <2>. QED
    BY Zenon DEF AddTuples
<1>3. PICK o2 : taken = [begun EXCEPT !.out = o2]
  <2> HIDE DEF element, begun
  <2>. QED
    BY Zenon DEF AddTuples
<1> HIDE DEF done, taken, content
<1>4. /\ IsWorker(qa, done) /\ done.levels = worker[c].levels /\ SameRest(worker[c], done)
  BY <1>2, OutForm
<1>5. /\ IsWorker(qa, done) /\ Kin(worker[c], done) /\ Alike(worker[c].levels, done.levels)
      /\ done.ss = worker[c].ss /\ done.shadow_ss = worker[c].shadow_ss
      /\ done.unit = worker[c].unit
  BY <1>4, AlikeSelf DEF SameRest, Kin
<1>6. /\ IsWorker(qa, only) /\ Kin(worker[c], only) /\ only.levels = worker[c].levels
      /\ only.unit = worker[c].unit /\ only.ss = worker[c].ss
      /\ only.shadow_ss = IF worker[c].shadow_ss = "INVALID"
                            THEN syntaxStackInference(worker[c], p, {})
                            ELSE worker[c].shadow_ss
  <2> HIDE DEF p
  <2>. QED
    BY InferForm
<1>7. only.shadow_ss = Enclosing(worker[c], {})
  BY <1>6, Zenon DEF Enclosing
<1> HIDE DEF only
<1>8. PICK q : q = p
  OBVIOUS
<1>9. q = worker[c].at + 1 /\ q = only.at + 1
  BY <1>6, <1>8 DEF Kin
<1> HIDE DEF p
<1>10. CASE worker[c].ss # <<>> /\ Last(worker[c].ss) = "KY"
  <2>1. PICK n \in {1, 2} : n = 1
    OBVIOUS
  <2>2. Becomes(c, PopLevels(PopSyntax(done, n), n))
    BY <1>1, <1>10, <2>1, Zenon
  <2>3. worker'[c] = [PopLevels(PopSyntax(done, n), n) EXCEPT !.at = @ + 1]
    BY <2>2, BecomesForm
  <2>4. n <= Len(done.ss)
    <3>1. PICK s \in Seq(Symbols) : s = worker[c].ss
      BY Fields
    <3>2. s = <<>> \/ Len(s) = 1 \/ Len(s) > 1
      BY LengthCases
    <3>3. Len(s) = 1 \/ Len(s) > 1
      BY <1>10, <3>1, <3>2
    <3>4. 1 <= Len(s)
      BY <3>3
    <3>. QED
      BY <1>5, <2>1, <3>1, <3>4
  <2>5. /\ IsWorker(qa, done) /\ Kin(worker[c], done) /\ Alike(worker[c].levels, done.levels)
        /\ done.unit = worker[c].unit
    BY <1>5
  <2>6. PopsOn(worker[c], worker'[c], Drop(done.ss, n), done.shadow_ss, n)
    BY <2>3, <2>4, <2>5, PopsOnBoth
  <2>7. PopsOn(worker[c], worker'[c], Drop(worker[c].ss, 1), worker[c].shadow_ss, 1)
    BY <1>5, <2>1, <2>6
  <2>. QED
    BY <1>10, <2>7
<1>11. CASE worker[c].ss # <<>> /\ Last(worker[c].ss) # "KY"
  <2>1. PICK y : y = MapCurrent(done, CountUp)
    OBVIOUS
  <2>2. IsWorker(qa, done)
    BY <1>5
  <2>3. IsWorker(qa, y) /\ Alike(done.levels, y.levels) /\ SameRest(done, y)
    BY <2>1, <2>2, CountForm
  <2>4. PICK z : z = done \/ z = y
    OBVIOUS
  <2>5. \E x \in {done, y} : Becomes(c, x)
    BY <1>1, <1>11, <2>1, Zenon
  <2>6. PICK x \in {done, y} : Becomes(c, x)
    BY <2>5
  <2>7. worker'[c] = [x EXCEPT !.at = @ + 1]
    BY <2>6, BecomesForm
  <2>8. /\ IsWorker(qa, x) /\ Kin(worker[c], x) /\ Alike(worker[c].levels, x.levels)
        /\ x.ss = worker[c].ss /\ x.shadow_ss = worker[c].shadow_ss /\ x.unit = worker[c].unit
    BY <1>4, <1>5, <2>3, <2>6 DEF SameRest, Kin
  <2>9. ReadOn(qa, worker[c], worker'[c], x.ss, x.shadow_ss, worker[c].levels, x.unit)
    BY <2>7, <2>8, ReadOnKin
  <2>. QED
    BY <1>11, <2>8, <2>9, Zenon
<1>12. CASE worker[c].ss = <<>> /\ only.shadow_ss = "KY"
  <2>1. PICK y : y = addUnmatchedSymbol(CloseUnit(c, only, q), "PRI", q)
    OBVIOUS
  <2>2. Becomes(c, y)
    BY <1>1, <1>8, <1>12, <2>1, Zenon
  <2>3. worker'[c] = [y EXCEPT !.at = @ + 1]
    BY <2>2, BecomesForm
  <2>4. "PRI" \in SymbolTypes
    BY DEF SymbolTypes
  <2>5. ClosesUnit(c, only, worker'[c], "PRI")
    BY <1>6, <1>9, <2>1, <2>3, <2>4, ClosesForm
  <2>6. ClosesInferred(c, worker[c], worker'[c], "PRI")
    BY <1>6, <2>5, AlikeSelf DEF ClosesInferred
  <2>. QED
    BY <1>7, <1>12, <2>6
<1>13. CASE worker[c].ss = <<>> /\ only.shadow_ss # "KY"
  <2>1. /\ IsWorker(qa, begun) /\ Kin(only, begun) /\ begun.ss = only.ss
        /\ begun.shadow_ss = only.shadow_ss /\ begun.levels = only.levels
        /\ begun.unit = [only.unit EXCEPT !.state = "MATCHED"]
    <3>1. PICK x, v : x = only /\ v = begun
      OBVIOUS
    <3>2. IsWorker(qa, x) /\ v = [x EXCEPT !.unit.state = "MATCHED"]
      BY <1>6, <3>1
    <3>3. /\ IsWorker(qa, v) /\ Kin(x, v) /\ v.ss = x.ss /\ v.shadow_ss = x.shadow_ss
          /\ v.levels = x.levels /\ v.unit = [x.unit EXCEPT !.state = "MATCHED"]
      BY <3>2, StateForm
    <3> HIDE DEF begun
    <3>. QED
      BY <3>1, <3>3
  <2> HIDE DEF begun
  <2>2. IsWorker(qa, taken) /\ taken.levels = begun.levels /\ SameRest(begun, taken)
    <3>1. IsWorker(qa, begun)
      BY <2>1
    <3>. QED
      BY <1>3, <3>1, OutForm
  <2>3. PICK y : y = MapCurrent(taken, CountUp)
    OBVIOUS
  <2>4. IsWorker(qa, y) /\ Alike(taken.levels, y.levels) /\ SameRest(taken, y)
    <3>1. IsWorker(qa, taken)
      BY <2>2
    <3>. QED
      BY <2>3, <3>1, CountForm
  <2>5. Becomes(c, y)
    BY <1>1, <1>13, <2>3, Zenon
  <2>6. worker'[c] = [y EXCEPT !.at = @ + 1]
    BY <2>5, BecomesForm
  <2>7. /\ IsWorker(qa, y) /\ Kin(worker[c], y) /\ Alike(worker[c].levels, y.levels)
        /\ y.ss = worker[c].ss /\ y.shadow_ss = only.shadow_ss
        /\ y.unit = [worker[c].unit EXCEPT !.state = "MATCHED"]
    BY <1>6, <2>1, <2>2, <2>4 DEF SameRest, Kin
  <2>8. ReadOn(qa, worker[c], worker'[c], y.ss, y.shadow_ss, worker[c].levels, y.unit)
    BY <2>6, <2>7, ReadOnKin
  <2>. QED
    BY <1>7, <1>13, <2>7, <2>8, Zenon
<1>. QED
  BY <1>7, <1>10, <1>11, <1>12, <1>13, Zenon

(* The last unit is added. *)
LEMMA ReadEnd ==
  ASSUME NEW c \in DOMAIN worker, Finish(c), IsWorker(qa, worker[c])
  PROVE  LET w == worker[c]
             v == worker'[c]
         IN
         /\ IsWorker(qa, v) /\ v.finished
         /\ v.base = w.base /\ v.end = w.end /\ v.at = w.at /\ v.ss = w.ss
         /\ v.shadow_ss = w.shadow_ss /\ v.levels = w.levels /\ v.unit = w.unit
         /\ v.out = w.out
         /\ v.units = Append(w.units, Closed(w, w.levels[1], w.end - w.base + 1))
<1>1. PICK last : last = Closed(worker[c], worker[c].levels[1],
                                worker[c].end - worker[c].base + 1)
  OBVIOUS
<1>2. worker' = [worker EXCEPT ![c].units = Append(@, last), ![c].finished = TRUE]
  BY <1>1 DEF Finish
<1>3. worker'[c] = [worker[c] EXCEPT !.units = Append(@, last), !.finished = TRUE]
  BY <1>2
<1>4. PICK w, v : w = worker[c] /\ v = worker'[c]
  OBVIOUS
<1>5. v = [w EXCEPT !.units = Append(@, last), !.finished = TRUE]
  BY <1>3, <1>4
<1>6. /\ v.finished = TRUE /\ v.base = w.base /\ v.end = w.end /\ v.at = w.at /\ v.ss = w.ss
      /\ v.shadow_ss = w.shadow_ss /\ v.levels = w.levels /\ v.unit = w.unit
      /\ v.out = w.out /\ v.units = Append(w.units, last) /\ DOMAIN v = WorkerFields
  BY <1>4, <1>5 DEF IsWorker, WorkerFields
<1>7. IsWorker(qa, v)
  BY <1>4, <1>6 DEF IsWorker
<1>. QED
  BY <1>1, <1>4, <1>6, <1>7

-----------------------------------------------------------------------------
(***************************************************************************)
(* Along the labels that a thread has read, each of its roots has one run. *)
(***************************************************************************)
(* A thread whose tree has grown along some labels. *)
Grown(w) == IsWorker(qa, w) /\ \E d \in Seq(Labels) : Along(qa, w.levels, d)

(* If the tree is alike, it has grown along the same labels. *)
LEMMA ReadOnGrows ==
  ASSUME NEW w, NEW v, NEW s, NEW h, NEW u, NEW ls, NEW d \in Seq(Labels), Along(qa, ls, d),
         ReadOn(qa, w, v, s, h, ls, u)
  PROVE  Grown(v) /\ v.end = w.end
<1>1. IsWorker(qa, v) /\ Alike(ls, v.levels) /\ v.end = w.end
  BY DEF ReadOn
<1>2. v.levels \in Seq(Seq(Node(qa)))
  BY <1>1, Fields
<1>3. Along(qa, v.levels, d)
  BY <1>1, <1>2, AlongAlike
<1>. QED
  BY <1>1, <1>3 DEF Grown

(* It has also when its last level is gone, *)
LEMMA PopGrows ==
  ASSUME NEW ls, NEW d \in Seq(Labels), Along(qa, ls, d)
  PROVE  \E e \in Seq(Labels) : Along(qa, queryStacksPop(ls), e)
<1>1. CASE d = <<>>
  <2>1. Along(qa, queryStacksPop(ls), <<>>) /\ <<>> \in Seq(Labels)
    BY <1>1, AlongPopOne
  <2>. QED
    BY <2>1
<1>2. CASE d # <<>>
  <2>1. Along(qa, queryStacksPop(ls), Front(d))
    BY <1>2, AlongPop
  <2>2. Front(d) \in Seq(Labels)
    BY <1>2, FrontFacts
  <2>. QED
    BY <2>1, <2>2
<1>. QED
  BY <1>1, <1>2

(* when its last levels are, *)
LEMMA PopsGrow ==
  ASSUME NEW w, NEW v, NEW s, NEW h, NEW n \in {1, 2}, NEW d \in Seq(Labels),
         Along(qa, w.levels, d), PopsOn(w, v, s, h, n)
  PROVE  Grown(v) /\ v.end = w.end
<1>1. PICK ls : /\ ls \in Seq(Seq(Node(qa))) /\ ls # <<>> /\ Alike(w.levels, ls)
                /\ ReadOn(qa, w, v, s, h,
                    IF n = 1 THEN queryStacksPop(ls) ELSE queryStacksPop(queryStacksPop(ls)),
                    w.unit)
  BY DEF PopsOn
<1>2. Along(qa, ls, d)
  BY <1>1, AlongAlike
<1>3. PICK e \in Seq(Labels) : Along(qa, queryStacksPop(ls), e)
  BY <1>2, PopGrows
<1>4. PICK f \in Seq(Labels) : Along(qa, queryStacksPop(queryStacksPop(ls)), f)
  BY <1>3, PopGrows
<1>5. PICK ms : /\ ms = IF n = 1 THEN queryStacksPop(ls) ELSE queryStacksPop(queryStacksPop(ls))
                /\ ReadOn(qa, w, v, s, h, ms, w.unit)
  BY <1>1
<1>6. CASE n = 1
  BY <1>3, <1>5, <1>6, ReadOnGrows
<1>7. CASE n = 2
  BY <1>4, <1>5, <1>7, ReadOnGrows
<1>. QED
  BY <1>6, <1>7

(* when the container that ends is the unit's own, *)
LEMMA ClosesGrows ==
  ASSUME IsQueryDFA(qa), NEW c, NEW w, NEW v, NEW type, NEW d \in Seq(Labels),
         Along(qa, w.levels, d), ClosesUnit(c, w, v, type)
  PROVE  Grown(v) /\ v.end = w.end
<1>1. PICK x : Unmatched(c, w, x, type, w.at + 1) /\ v = [x EXCEPT !.at = @ + 1]
  BY DEF ClosesUnit
<1>2. IsWorker(qa, x) /\ x.end = w.end
  BY <1>1 DEF Unmatched
<1>3. \E e \in Seq(Labels) : Along(qa, x.levels, e)
  <2>1. x.levels = w.levels \/ x.levels = initQueryStacks(startStates(c))
    BY <1>1 DEF Unmatched
  <2>2. CASE x.levels = w.levels
    BY <2>2
  <2>3. CASE x.levels = initQueryStacks(startStates(c))
    <3>1. PICK ls : ls = initQueryStacks(startStates(c))
      OBVIOUS
    <3>2. Along(qa, ls, <<>>) /\ <<>> \in Seq(Labels)
      BY <3>1, StartForm
    <3>. QED
      BY <2>3, <3>1, <3>2
  <2>. QED
    BY <2>1, <2>2, <2>3
<1>4. ReadOn(qa, x, v, x.ss, x.shadow_ss, x.levels, x.unit)
  <2>1. Kin(x, x) /\ Alike(x.levels, x.levels)
    BY AlikeSelf DEF Kin
  <2>2. v = [x EXCEPT !.at = @ + 1]
    BY <1>1
  <2>. QED
    BY <1>2, <2>1, <2>2, ReadOnKin
<1>5. Grown(v) /\ v.end = x.end
  BY <1>3, <1>4, ReadOnGrows
<1>. QED
  BY <1>2, <1>5

(* when it is one from before the unit, *)
LEMMA InferredGrows ==
  ASSUME IsQueryDFA(qa), NEW c, NEW w, NEW v, NEW type, NEW d \in Seq(Labels),
         Along(qa, w.levels, d), ClosesInferred(c, w, v, type)
  PROVE  Grown(v) /\ v.end = w.end
<1>1. PICK x : /\ IsWorker(qa, x) /\ Kin(w, x) /\ Alike(w.levels, x.levels)
               /\ ClosesUnit(c, x, v, type)
  BY DEF ClosesInferred
<1>2. x.levels \in Seq(Seq(Node(qa)))
  BY <1>1, Fields
<1>3. Along(qa, x.levels, d)
  BY <1>1, <1>2, AlongAlike
<1>4. Grown(v) /\ v.end = x.end
  BY <1>1, <1>3, ClosesGrows
<1>. QED
  BY <1>1, <1>4 DEF Kin

(* when a level is added, *)
LEMMA DescendGrows ==
  ASSUME QueryType, NEW w, NEW x, NEW v, NEW symbol, NEW label \in Labels,
         NEW d \in Seq(Labels), Along(qa, x.levels, d), DescendsOn(w, x, v, symbol, label)
  PROVE  Grown(v) /\ v.end = w.end
<1>1. PICK ls : /\ ls \in Seq(Seq(Node(qa))) /\ ls # <<>> /\ Alike(x.levels, ls)
                /\ ReadOn(qa, w, v, Append(w.ss, symbol), w.shadow_ss,
                          queryStacksPush(qa, ls, label), x.unit)
  BY DEF DescendsOn
<1>2. Along(qa, ls, d)
  BY <1>1, AlongAlike
<1>3. Along(qa, queryStacksPush(qa, ls, label), Append(d, label))
  BY <1>2, AlongPush DEF QueryType
<1>4. Append(d, label) \in Seq(Labels)
  BY AppendProperties
<1>. QED
  BY <1>1, <1>3, <1>4, ReadOnGrows

(* and when roots were pruned before. *)
LEMMA PrunedGrows ==
  ASSUME QueryType, NEW c, NEW w, IsWorker(qa, w), NEW x, NEW label \in Labels,
         NEW d \in Seq(Labels), Along(qa, w.levels, d), Pruned(c, w, x, label)
  PROVE  Grown(x)
<1>1. x.levels = w.levels \/ x.levels = pruneQueryPaths(w.levels, ct[label])
  BY DEF Pruned
<1>2. IsWorker(qa, x)
  BY DEF Pruned
<1>3. CASE x.levels = w.levels
  BY <1>2, <1>3 DEF Grown
<1>4. CASE x.levels = pruneQueryPaths(w.levels, ct[label])
  <2>1. PICK levels : levels = w.levels /\ levels \in Seq(Seq(Node(qa))) /\ levels # <<>>
    BY Fields
  <2>2. \A m \in DOMAIN levels[1] : levels[1][m].roots = {}
    BY <2>1 DEF Along
  <2>3. PICK ls, states : states = ct[label] /\ ls = pruneQueryPaths(levels, states)
    OBVIOUS
  <2>4. Along(qa, ls, <<>>)
    BY <2>1, <2>2, <2>3, PrunedFacts DEF QueryType
  <2>5. <<>> \in Seq(Labels)
    OBVIOUS
  <2>. QED
    BY <1>2, <1>4, <2>1, <2>3, <2>4, <2>5 DEF Grown
<1>. QED
  BY <1>1, <1>3, <1>4

(* Whatever token a thread reads, its tree stays one that labels have grown. *)
LEMMA StepGrows ==
  ASSUME QueryType, NEW c \in DOMAIN worker, Step(c), Grown(worker[c]),
         \A p \in 1 .. worker[c].end : text[p].type = "KY" => text[p].key \in Labels
  PROVE  Grown(worker'[c]) /\ worker'[c].end = worker[c].end
<1>1. PICK d \in Seq(Labels) : Along(qa, worker[c].levels, d)
  BY DEF Grown
<1>2. IsWorker(qa, worker[c]) /\ IsQueryDFA(qa)
  BY DEF Grown, QueryType
<1>3. \A m \in DOMAIN worker[c].levels[1] : worker[c].levels[1][m].roots = {}
  BY <1>1 DEF Along
<1>4. CASE LCB(c)
  BY <1>1, <1>2, <1>4, ReadLCB, ReadOnGrows
<1>5. CASE RCB(c)
  BY <1>1, <1>2, <1>5, ReadRCB, ClosesGrows, InferredGrows, ReadOnGrows, PopsGrow
<1>6. CASE LB(c)
  <2>1. PICK x : /\ Pruned(c, Begun(worker[c]), x, ARRAY)
                 /\ DescendsOn(worker[c], x, worker'[c], "LB", ARRAY)
    BY <1>2, <1>3, <1>6, ReadLB
  <2>2. PICK b : /\ b = Begun(worker[c]) /\ IsWorker(qa, b) /\ b.levels = worker[c].levels
    BY <1>2, BegunForm
  <2>3. ARRAY \in Labels
    BY DEF Labels
  <2>4. Grown(x)
    BY <1>1, <2>1, <2>2, <2>3, PrunedGrows
  <2>5. PICK e \in Seq(Labels) : Along(qa, x.levels, e)
    BY <2>4 DEF Grown
  <2>. QED
    BY <2>1, <2>3, <2>5, DescendGrows
<1>7. CASE RB(c)
  BY <1>1, <1>2, <1>7, ReadRB, ClosesGrows, InferredGrows, ReadOnGrows, PopsGrow
<1>8. CASE COM(c)
  BY <1>1, <1>2, <1>8, ReadCOM, ReadOnGrows
<1>9. CASE KY(c)
  <2>1. PICK key \in Labels : key = text[worker[c].at + 1].key
    <3>1. PICK p : p = worker[c].at + 1 /\ p \in Nat \ {0}
      BY <1>2, Fields
    <3>2. Delivered(worker[c], p) /\ text[p].type = "KY"
      BY <1>9, <3>1 DEF KY, Reads, TypeAt
    <3>3. p \in 1 .. worker[c].end
      BY <1>2, <3>1, <3>2, Fields DEF Delivered
    <3>. QED
      BY <3>1, <3>2, <3>3
  <2>2. PICK x : /\ \/ Len(worker[c].levels) = 1 /\ Pruned(c, Begun(worker[c]), x, key)
                    \/ Len(worker[c].levels) # 1 /\ x = Begun(worker[c])
                 /\ DescendsOn(worker[c], x, worker'[c], "KY", key)
    BY <1>2, <1>3, <1>9, <2>1, ReadKY
  <2>3. PICK b : /\ b = Begun(worker[c]) /\ IsWorker(qa, b) /\ b.levels = worker[c].levels
    BY <1>2, BegunForm
  <2>4. Grown(x)
    <3>1. CASE Pruned(c, b, x, key)
      BY <1>1, <2>1, <2>3, <3>1, PrunedGrows
    <3>2. CASE x = b
      BY <1>1, <2>3, <3>2 DEF Grown
    <3>. QED
      BY <2>2, <2>3, <3>1, <3>2
  <2>5. PICK e \in Seq(Labels) : Along(qa, x.levels, e)
    BY <2>4 DEF Grown
  <2>6. DescendsOn(worker[c], x, worker'[c], "KY", key)
    BY <2>2
  <2>. QED
    BY <2>1, <2>5, <2>6, DescendGrows
<1>10. CASE PRI(c)
  <2>1. PICK w, v : w = worker[c] /\ v = worker'[c]
    OBVIOUS
  <2>2. Along(qa, w.levels, d)
    BY <1>1, <2>1
  <2>3. \/ PopsOn(w, v, Drop(w.ss, 1), w.shadow_ss, 1)
        \/ \E h, u : ReadOn(qa, w, v, w.ss, h, w.levels, u)
        \/ ClosesInferred(c, w, v, "PRI")
    BY <1>2, <1>10, <2>1, ReadPRI
  <2>4. CASE PopsOn(w, v, Drop(w.ss, 1), w.shadow_ss, 1)
    BY <2>1, <2>2, <2>4, PopsGrow
  <2>5. CASE \E h, u : ReadOn(qa, w, v, w.ss, h, w.levels, u)
    BY <2>1, <2>2, <2>5, ReadOnGrows
  <2>6. CASE ClosesInferred(c, w, v, "PRI")
    BY <1>2, <2>1, <2>2, <2>6, InferredGrows
  <2>. QED
    BY <2>3, <2>4, <2>5, <2>6
<1>11. CASE Finish(c)
  <2>1. /\ IsWorker(qa, worker'[c]) /\ worker'[c].end = worker[c].end
        /\ worker'[c].levels = worker[c].levels
    BY <1>2, <1>11, ReadEnd
  <2>. QED
    BY <1>1, <2>1 DEF Grown
<1>. QED
  BY <1>4, <1>5, <1>6, <1>7, <1>8, <1>9, <1>10, <1>11 DEF Step

(* One label leads every root from a level to the next, and one node stands for
   it there. *)
RunsOn(Q, levels, n, label) ==
  \A r \in DOMAIN levels[1] :
    /\ Cardinality({m \in DOMAIN levels[n + 1] : r \in RootsOf(levels[n + 1], m)}) = 1
    /\ \A m \in DOMAIN levels[n], m1 \in DOMAIN levels[n + 1] :
         r \in RootsOf(levels[n], m) /\ r \in RootsOf(levels[n + 1], m1) =>
           levels[n + 1][m1].query_state = NextState(Q, levels[n][m], label)

(* So it is on every level of a tree that labels have grown. *)
LEMMA AlongRuns ==
  ASSUME NEW Q, NEW levels, NEW d, Along(Q, levels, d), NEW n \in 1 .. Len(levels) - 1
  PROVE  \E label \in Labels : RunsOn(Q, levels, n, label)
<1>1. /\ d \in Seq(Labels) /\ Len(levels) = Len(d) + 1 /\ Len(d) \in Nat
  BY DEF Along
<1>2. PICK l \in Nat : l = Len(d) /\ Len(levels) = l + 1
  BY <1>1
<1>3. n \in 1 .. Len(d) /\ n \in 1 .. Len(levels) /\ n + 1 \in 1 .. Len(levels)
  BY <1>2
<1>4. d[n] \in Labels
  BY <1>1, <1>3, ElementOfSeq
<1>5. ASSUME NEW r \in DOMAIN levels[1]
      PROVE  Cardinality({m \in DOMAIN levels[n + 1] : r \in RootsOf(levels[n + 1], m)}) = 1
  <2>1. Stands(levels[n + 1], DOMAIN levels[1])
    BY <1>3 DEF Along
  <2>2. PICK m \in DOMAIN levels[n + 1] :
          \A x \in DOMAIN levels[n + 1] : r \in RootsOf(levels[n + 1], x) <=> x = m
    BY <2>1 DEF Stands
  <2>3. {x \in DOMAIN levels[n + 1] : r \in RootsOf(levels[n + 1], x)} = {m}
    BY <2>2
  <2>. QED
    BY <2>3, FS_Singleton
<1>6. Led(Q, levels[n], levels[n + 1], DOMAIN levels[1], d[n])
  BY <1>3 DEF Along
<1>. QED
  BY <1>3, <1>4, <1>5, <1>6 DEF Led, RunsOn

(* Then every thread's tree has one run per root. *)
LEMMA GrownRuns ==
  ASSUME DOMAIN worker \subseteq Nat, \A c \in DOMAIN worker : c # 0 => Grown(worker[c])
  PROVE  OneRunPerRoot
<1> SUFFICES ASSUME NEW c \in DOMAIN worker, c > 0,
                    NEW n \in 1 .. Len(worker[c].levels) - 1
             PROVE  \E label \in Keys \union {ARRAY} :
                      \A r \in DOMAIN worker[c].levels[1] :
                        /\ Cardinality({m \in DOMAIN worker[c].levels[n + 1] :
                             r \in RootsOf(worker[c].levels[n + 1], m)}) = 1
                        /\ \A m \in {x \in DOMAIN worker[c].levels[n] :
                                       r \in RootsOf(worker[c].levels[n], x)},
                              m1 \in {x \in DOMAIN worker[c].levels[n + 1] :
                                       r \in RootsOf(worker[c].levels[n + 1], x)} :
                             worker[c].levels[n + 1][m1].query_state
                               = NextState(qa, worker[c].levels[n][m], label)
  BY Zenon DEF OneRunPerRoot
<1>1. Grown(worker[c])
  BY DEF Grown
<1>2. PICK d \in Seq(Labels) : Along(qa, worker[c].levels, d)
  BY <1>1 DEF Grown
<1>3. PICK label \in Labels : RunsOn(qa, worker[c].levels, n, label)
  BY <1>2, AlongRuns
<1>. QED
  BY <1>3 DEF RunsOn, Labels

-----------------------------------------------------------------------------
-----------------------------------------------------------------------------
(* A sequence takes a new kind of element at its end. *)
LEMMA AppendAny ==
  ASSUME NEW S, NEW s \in Seq(S), NEW x
  PROVE  /\ Append(s, x) \in Seq(S \union {x})
         /\ Len(Append(s, x)) = Len(s) + 1 /\ Append(s, x)[Len(s) + 1] = x
         /\ \A m \in 1 .. Len(s) : Append(s, x)[m] = s[m]
<1> DEFINE T == S \union {x}
<1>1. s \in [1 .. Len(s) -> S] /\ Len(s) \in Nat
  BY LenProperties
<1>2. s \in [1 .. Len(s) -> T]
  BY <1>1
<1>3. s \in Seq(T) /\ x \in T
  BY <1>1, <1>2, FunctionIsSeq
<1>. QED
  BY <1>3, AppendProperties

(***************************************************************************)
(* Syntax stacks: what a token makes of the symbols of what encloses it,   *)
(* also above symbols that a run does not see.                             *)
(***************************************************************************)
(* v on top of o, and x on top of s. *)
Atop(o, v)  == o \o v
Pushed(s, x) == Append(s, x)

(* A value is complete: a key is closed by its value. *)
ValueOver(s) == IF s # <<>> /\ Last(s) = "KY" THEN Front(s) ELSE s

(* Where a value may stand. *)
Place(s) == s = <<>> \/ Last(s) \in {"KY", "LB"}

(* A token of type t with s on the serial engine's syntax stack leaves v there. *)
SyntaxStep(t, s, v) ==
  \/ t \in {"LCB", "LB"} /\ Place(s) /\ v = Pushed(s, t)
  \/ t = "PRI" /\ Place(s) /\ v = ValueOver(s)
  \/ t = "KY" /\ s # <<>> /\ Last(s) = "LCB" /\ v = Pushed(s, t)
  \/ t = "COM" /\ s # <<>> /\ Last(s) # "KY" /\ v = s
  \/ t = "RCB" /\ s # <<>> /\ Last(s) = "LCB" /\ v = ValueOver(Front(s))
  \/ t = "RB" /\ s # <<>> /\ Last(s) = "LB" /\ v = ValueOver(Front(s))

(* A key stands in an object, and nothing else does. *)
WellNested(s) ==
  /\ s \in Seq(Symbols)
  /\ s # <<>> => s[1] # "KY"
  /\ \A n \in 1 .. Len(s) - 1 : s[n + 1] = "KY" <=> s[n] = "LCB"

(* What is on the stack of a run that began with o on it. *)
Outer(o) == o \in Seq(Symbols) /\ (o # <<>> => Last(o) # "KY")

(* What a token makes of the symbols above the outer ones. *)
Inside(t, v) ==
  IF t \in {"LCB", "LB", "KY"} THEN Pushed(v, t)
  ELSE IF t = "COM" THEN v
  ELSE IF t = "PRI" THEN ValueOver(v)
  ELSE ValueOver(Front(v))

(* What is on top of the outer symbols can be pushed and popped there. *)
LEMMA StackingAppend ==
  ASSUME NEW S, NEW o \in Seq(S), NEW v \in Seq(S), NEW x \in S
  PROVE  Pushed(Atop(o, v), x) = Atop(o, Pushed(v, x))
<1>1. PICK c \in Seq(S) : c = o \o v
  BY ConcatProperties
<1>2. Append(c, x) = c \o <<x>>
  BY AppendIsConcat
<1>3. Append(v, x) = v \o <<x>>
  BY AppendIsConcat
<1>4. PICK y \in Seq(S) : y = <<x>>
  <2>1. <<x>> \in Seq(S)
    <3>1. <<x>> = Append(<<>>, x) /\ <<>> \in Seq(S)
      OBVIOUS
    <3>. QED
      BY <3>1, AppendProperties
  <2>. QED
    BY <2>1
<1>5. (o \o v) \o y = o \o (v \o y)
  BY ConcatAssociative
<1>6. Append(c, x) = o \o Append(v, x)
  BY <1>1, <1>2, <1>3, <1>4, <1>5
<1>. QED
  BY <1>1, <1>6 DEF Atop, Pushed

LEMMA NothingAtop ==
  ASSUME NEW S, NEW o \in Seq(S)
  PROVE  Atop(o, <<>>) = o /\ Atop(<<>>, o) = o
BY ConcatEmptySeq DEF Atop

LEMMA Stacking ==
  ASSUME NEW S, NEW o \in Seq(S), NEW v \in Seq(S)
  PROVE  Atop(o, v) \in Seq(S) /\ Len(Atop(o, v)) = Len(o) + Len(v)
BY ConcatProperties DEF Atop

LEMMA StackedBelow ==
  ASSUME NEW S, NEW o \in Seq(S), NEW v \in Seq(S), NEW n \in 1 .. Len(o)
  PROVE  Atop(o, v)[n] = o[n]
BY LenProperties, ConcatProperties DEF Atop

LEMMA StackedOn ==
  ASSUME NEW S, NEW o \in Seq(S), NEW v \in Seq(S), NEW n \in 1 .. Len(v)
  PROVE  Atop(o, v)[Len(o) + n] = v[n]
BY LenProperties, ConcatProperties DEF Atop

LEMMA StackingTop ==
  ASSUME NEW S, NEW o \in Seq(S), NEW v \in Seq(S), v # <<>>
  PROVE  /\ Atop(o, v) # <<>> /\ Last(Atop(o, v)) = Last(v) /\ Front(Atop(o, v)) = Atop(o, Front(v))
         /\ Front(v) \in Seq(S)
<1>3. PICK c : c = Atop(o, v)
  OBVIOUS
<1>1. /\ c \in Seq(S) /\ Len(c) = Len(o) + Len(v)
      /\ \A n \in 1 .. Len(o) : c[n] = o[n]
      /\ \A n \in 1 .. Len(v) : c[Len(o) + n] = v[n]
  <2>1. c \in Seq(S)
    BY <1>3, Stacking
  <2>2. Len(c) = Len(o) + Len(v)
    BY <1>3, Stacking
  <2>3. \A n \in 1 .. Len(o) : c[n] = o[n]
    BY <1>3, StackedBelow
  <2>4. \A n \in 1 .. Len(v) : c[Len(o) + n] = v[n]
    BY <1>3, StackedOn
  <2>. QED
    BY <2>1, <2>2, <2>3, <2>4
<1>2. /\ Len(v) \in Nat \ {0} /\ Front(v) \in Seq(S) /\ Len(Front(v)) = Len(v) - 1
      /\ \A m \in 1 .. Len(v) - 1 : Front(v)[m] = v[m]
      /\ Last(v) = v[Len(v)]
  BY FrontFacts
<1>4. Len(o) \in Nat
  BY LenProperties
<1>5. c # <<>>
  BY <1>1, <1>2, <1>3, <1>4
<1>6. /\ Front(c) \in Seq(S) /\ Len(Front(c)) = Len(c) - 1
      /\ \A m \in 1 .. Len(c) - 1 : Front(c)[m] = c[m]
      /\ Last(c) = c[Len(c)]
  BY <1>1, <1>3, <1>5, FrontFacts
<1>7. Last(c) = Last(v)
  BY <1>1, <1>2, <1>3, <1>4, <1>6
<1>8. PICK d : d = Atop(o, Front(v))
  OBVIOUS
<1>9. /\ d \in Seq(S) /\ Len(d) = Len(o) + (Len(v) - 1)
      /\ \A n \in 1 .. Len(o) : d[n] = o[n]
      /\ \A n \in 1 .. Len(v) - 1 : d[Len(o) + n] = v[n]
  <2>0. PICK f \in Seq(S) : f = Front(v)
    BY <1>2
  <2>1. d \in Seq(S) /\ Len(d) = Len(o) + Len(f)
    BY <1>8, <2>0, Stacking
  <2>2. \A n \in 1 .. Len(o) : d[n] = o[n]
    BY <1>8, <2>0, StackedBelow
  <2>3. \A n \in 1 .. Len(f) : d[Len(o) + n] = f[n]
    BY <1>8, <2>0, StackedOn
  <2>. QED
    BY <1>2, <2>0, <2>1, <2>2, <2>3
<1>10. Front(c) = d
  <2>1. PICK a \in Nat, b \in Nat : a = Len(o) /\ b = Len(v) /\ b >= 1
    BY <1>2, <1>4
  <2>2. Len(Front(c)) = a + b - 1 /\ Len(d) = a + b - 1
    BY <1>1, <1>3, <1>6, <1>9, <2>1
  <2>3. \A n \in 1 .. a + b - 1 : Front(c)[n] = d[n]
    <3> SUFFICES ASSUME NEW n \in 1 .. a + b - 1 PROVE Front(c)[n] = d[n]
      OBVIOUS
    <3>1. Front(c)[n] = c[n]
      BY <1>1, <1>3, <1>6, <2>1
    <3>2. CASE n <= a
      BY <1>1, <1>3, <1>9, <2>1, <3>1, <3>2
    <3>3. CASE n > a
      <4>1. PICK m \in 1 .. b - 1 : n = a + m
        <5>0. a \in Nat /\ b \in Nat /\ n \in Int /\ n <= a + b - 1 /\ n > a
          BY <3>3
        <5>1. n - a \in 1 .. b - 1 /\ n = a + (n - a)
          BY <5>0
        <5>. QED
          BY <5>1
      <4>2. m \in 1 .. Len(v) /\ m \in 1 .. Len(v) - 1
        BY <2>1, <4>1
      <4>3. c[a + m] = v[m] /\ d[a + m] = v[m]
        BY <1>1, <1>3, <1>9, <2>1, <4>2
      <4>. QED
        BY <3>1, <4>1, <4>3
    <3>. QED
      BY <2>1, <3>2, <3>3
  <2>. QED
    BY <1>6, <1>9, <2>2, <2>3, SeqEqual
<1>. QED
  BY <1>2, <1>3, <1>5, <1>7, <1>8, <1>10

(* Above the outer symbols a complete value is the same. *)
LEMMA ValueInside ==
  ASSUME NEW o, Outer(o), NEW v \in Seq(Symbols)
  PROVE  ValueOver(Atop(o, v)) = Atop(o, ValueOver(v)) /\ ValueOver(v) \in Seq(Symbols)
<1>1. o \in Seq(Symbols) /\ (o # <<>> => Last(o) # "KY")
  BY DEF Outer
<1>2. CASE v = <<>>
  <2>1. Atop(o, v) = o /\ ValueOver(v) = v
    BY <1>1, <1>2, NothingAtop DEF ValueOver
  <2>2. ValueOver(o) = o
    BY <1>1 DEF ValueOver
  <2>. QED
    BY <2>1, <2>2
<1>3. CASE v # <<>>
  <2>1. /\ Atop(o, v) # <<>> /\ Last(Atop(o, v)) = Last(v) /\ Front(Atop(o, v)) = Atop(o, Front(v))
        /\ Front(v) \in Seq(Symbols)
    BY <1>1, <1>3, StackingTop
  <2>. QED
    BY <1>3, <2>1 DEF ValueOver
<1>. QED
  BY <1>2, <1>3

(* A token that closes nothing outer leaves the outer symbols alone. *)
LEMMA StepInside ==
  ASSUME NEW o, Outer(o), NEW v \in Seq(Symbols), NEW t, NEW r, SyntaxStep(t, Atop(o, v), r),
         t \in {"RCB", "RB"} => v # <<>>
  PROVE  r = Atop(o, Inside(t, v)) /\ Inside(t, v) \in Seq(Symbols)
<1>1. o \in Seq(Symbols)
  BY DEF Outer
<1>2. CASE t \in {"LCB", "LB", "KY"}
  <2>1. t \in Symbols
    BY <1>2 DEF Symbols
  <2>2. r = Pushed(Atop(o, v), t)
    BY <1>2 DEF SyntaxStep
  <2>3. Pushed(Atop(o, v), t) = Atop(o, Pushed(v, t))
    BY <1>1, <2>1, StackingAppend
  <2>4. Pushed(v, t) \in Seq(Symbols)
    BY <2>1, AppendProperties DEF Pushed
  <2>. QED
    BY <1>2, <2>2, <2>3, <2>4 DEF Inside
<1>3. CASE t = "COM"
  BY <1>3 DEF SyntaxStep, Inside
<1>4. CASE t = "PRI"
  BY <1>4, ValueInside DEF SyntaxStep, Inside
<1>5. CASE t \in {"RCB", "RB"}
  <2>1. v # <<>>
    BY <1>5
  <2>2. Front(Atop(o, v)) = Atop(o, Front(v)) /\ Front(v) \in Seq(Symbols)
    BY <1>1, <2>1, StackingTop
  <2>3. r = ValueOver(Atop(o, Front(v)))
    BY <1>5, <2>2 DEF SyntaxStep
  <2>4. /\ ValueOver(Atop(o, Front(v))) = Atop(o, ValueOver(Front(v)))
        /\ ValueOver(Front(v)) \in Seq(Symbols)
    BY <2>2, ValueInside
  <2>. QED
    BY <1>5, <2>3, <2>4 DEF Inside
<1>. QED
  BY <1>2, <1>3, <1>4, <1>5 DEF SyntaxStep

-----------------------------------------------------------------------------
(***************************************************************************)
(* The handlers of a worker, but for its tree and its tuples.              *)
(***************************************************************************)
(* What the position and the syntax stack of a worker need of its record. *)
IsControl(w) ==
  /\ DOMAIN w = WorkerFields
  /\ w.base \in Nat /\ w.end \in Nat /\ w.at \in Nat
  /\ w.ss \in Seq(Symbols) /\ w.shadow_ss \in Shadows
  /\ IsUnit(w.unit)

(* v is w but for its tree and tuples, the syntax stack s, what is inferred h and
   the unit u. *)
Turned(w, v, s, h, u) ==
  /\ DOMAIN v = WorkerFields
  /\ v.base = w.base /\ v.end = w.end /\ v.at = w.at /\ v.units = w.units
  /\ v.finished = w.finished
  /\ v.ss = s /\ v.shadow_ss = h /\ v.unit = u

(* And a token further. *)
HasRead(w, v, s, h, u) ==
  /\ DOMAIN v = WorkerFields
  /\ v.base = w.base /\ v.end = w.end /\ v.at = w.at + 1 /\ v.units = w.units
  /\ v.finished = w.finished
  /\ v.ss = s /\ v.shadow_ss = h /\ v.unit = u

(* What the operators the handlers are made of do to these fields. *)
LEMMA TurnedSelf ==
  ASSUME NEW w, DOMAIN w = WorkerFields
  PROVE  Turned(w, w, w.ss, w.shadow_ss, w.unit)
BY DEF Turned

LEMMA TurnedAside ==
  ASSUME NEW w, NEW x, NEW s, NEW h, NEW u, Turned(w, x, s, h, u), NEW y, NEW e,
         y = [x EXCEPT !.levels = e] \/ y = [x EXCEPT !.out = e]
  PROVE  Turned(w, y, s, h, u)
BY DEF Turned, WorkerFields

LEMMA TurnedSyntax ==
  ASSUME NEW w, NEW x, NEW s, NEW h, NEW u, Turned(w, x, s, h, u), NEW r, NEW y,
         y = [x EXCEPT !.ss = r]
  PROVE  Turned(w, y, r, h, u)
BY DEF Turned, WorkerFields

LEMMA TurnedShadow ==
  ASSUME NEW w, NEW x, NEW s, NEW h, NEW u, Turned(w, x, s, h, u), NEW r, NEW y,
         y = [x EXCEPT !.shadow_ss = r]
  PROVE  Turned(w, y, s, r, u)
BY DEF Turned, WorkerFields

LEMMA TurnedUnit ==
  ASSUME NEW w, NEW x, NEW s, NEW h, NEW u, Turned(w, x, s, h, u), NEW r, NEW y,
         y = [x EXCEPT !.unit = r]
  PROVE  Turned(w, y, s, h, r)
BY DEF Turned, WorkerFields

LEMMA TurnedPops ==
  ASSUME NEW w, NEW x, NEW s, NEW h, NEW u, Turned(w, x, s, h, u), NEW n
  PROVE  /\ Turned(w, PopSyntax(x, n), Drop(s, n), h, u)
         /\ Turned(w, PopLevels(x, n), s, h, u)
<1>1. PICK y : y = PopSyntax(x, n)
  OBVIOUS
<1>2. y = [x EXCEPT !.ss = Drop(s, n)]
  BY <1>1 DEF PopSyntax, Drop, Turned
<1>3. Turned(w, y, Drop(s, n), h, u)
  BY <1>2, TurnedSyntax
<1>4. PICK z, e : z = PopLevels(x, n) /\ z = [x EXCEPT !.levels = e]
  BY DEF PopLevels
<1>5. Turned(w, z, s, h, u)
  BY <1>4, TurnedAside
<1>. QED
  BY <1>1, <1>3, <1>4, <1>5

LEMMA TurnedElement ==
  ASSUME NEW w, NEW x, NEW s, NEW h, NEW u, Turned(w, x, s, h, u), NEW c, NEW closing,
         NEW y, y = EndElement(c, x, closing)
  PROVE  Turned(w, y, Drop(s, 1), h, u)
<1> DEFINE t(node) == MarkIf(closing, "}", node)
           a == PopSyntax(x, 1)
           b == AddTuples(c, a, Current(x), t)
<1>1. Turned(w, a, Drop(s, 1), h, u)
  BY TurnedPops
<1>2. PICK o : b = [a EXCEPT !.out = o]
  <2> HIDE DEF a, t
  <2>. QED
    BY Zenon DEF AddTuples
<1>3. y = MapCurrent(b, CountUp)
  BY Zenon DEF EndElement
<1> HIDE DEF a, b
<1>4. PICK e : y = [b EXCEPT !.levels = e]
  BY <1>3, Zenon DEF MapCurrent
<1>5. Turned(w, b, Drop(s, 1), h, u)
  BY <1>1, <1>2, TurnedAside
<1>. QED
  BY <1>4, <1>5, TurnedAside

(* What a worker notes of what encloses it. *)
LEMMA TurnedInfer ==
  ASSUME NEW w, NEW x, NEW s, NEW u, Turned(w, x, s, w.shadow_ss, u), NEW outside,
         NEW p, p = w.at + 1, NEW y, y = Infer(x, p, outside)
  PROVE  Turned(w, y, s, Enclosing(w, outside), u)
<1>1. syntaxStackInference(x, p, outside) = syntaxStackInference(w, p, outside)
  BY DEF syntaxStackInference, TypeAt, Delivered, Turned
<1>2. y = [x EXCEPT !.shadow_ss = Enclosing(w, outside)]
  BY <1>1 DEF Infer, Enclosing, Turned
<1>. QED
  BY <1>2, TurnedShadow

LEMMA TurnedRead ==
  ASSUME NEW c \in DOMAIN worker, NEW w, NEW x, NEW s, NEW h, NEW u, Turned(w, x, s, h, u),
         Becomes(c, x)
  PROVE  HasRead(w, worker'[c], s, h, u)
<1>1. worker'[c] = [x EXCEPT !.at = @ + 1]
  BY BecomesForm
<1>2. PICK v : v = worker'[c] /\ v = [x EXCEPT !.at = @ + 1]
  BY <1>1
<1>3. HasRead(w, v, s, h, u)
  BY <1>2 DEF Turned, HasRead, WorkerFields
<1>. QED
  BY <1>2, <1>3

(* The unit once it has begun, at the latest with this token. *)
Begins(u, r, x) ==
  /\ IsUnit(r) /\ r.state = "MATCHED" /\ r.symbols = u.symbols
  /\ r.start = IF u.state = "MATCHED" THEN u.start ELSE x

(* The unit begins. *)
LEMMA TurnedStart ==
  ASSUME NEW w, IsControl(w), NEW p, p = w.at + 1, NEW y, y = StartUnit(w, p)
  PROVE  \E r : /\ Turned(w, y, w.ss, w.shadow_ss, r) /\ Begins(w.unit, r, p - w.base)
<1>1. PICK r : r = Started(w.unit, p - w.base)
  OBVIOUS
<1>2. y = [w EXCEPT !.unit = r]
  BY <1>1, Zenon DEF StartUnit, Started
<1>3. Turned(w, y, w.ss, w.shadow_ss, r)
  BY <1>2, TurnedSelf, TurnedUnit DEF IsControl
<1>4. p - w.base \in Int /\ IsUnit(w.unit)
  BY DEF IsControl
<1>5. Begins(w.unit, r, p - w.base)
  <2>1. CASE w.unit.state = "MATCHED"
    BY <1>1, <1>4, <2>1 DEF Begins, Started
  <2>2. CASE w.unit.state # "MATCHED"
    BY <1>1, <1>4, <2>2 DEF Begins, Started, IsUnit
  <2>. QED
    BY <2>1, <2>2
<1>. QED
  BY <1>3, <1>5

(* Pruning is about the tree. *)
LEMMA TurnedPrune ==
  ASSUME NEW w, NEW x, NEW s, NEW h, NEW u, Turned(w, x, s, h, u), NEW c, NEW label,
         NEW u0, NEW e, Begins(u0, u, e), NEW y, y = Prune(c, x, label)
  PROVE  \E r : Turned(w, y, s, h, r) /\ Begins(u0, r, e)
<1>1. CASE y = x
  BY <1>1
<1>2. CASE y # x
  <2>1. PICK a, o : y = [x EXCEPT !.unit.has_pruned = TRUE, !.levels = a, !.out = o]
    BY <1>2 DEF Prune
  <2>2. PICK r : r = [u EXCEPT !.has_pruned = TRUE]
    OBVIOUS
  <2>3. Turned(w, y, s, h, r)
    BY <2>1, <2>2 DEF Turned, WorkerFields
  <2>4. Begins(u0, r, e)
    BY <2>2 DEF Begins, IsUnit
  <2>. QED
    BY <2>3, <2>4
<1>. QED
  BY <1>1, <1>2

(* The token opens a container or a member. *)
Opens(w, v, t) ==
  \E r : /\ HasRead(w, v, Append(w.ss, t), w.shadow_ss, r)
         /\ Begins(w.unit, r, (w.at + 1) - w.base)

LEMMA TurnedDescend ==
  ASSUME NEW w, NEW x, NEW s, NEW h, NEW u, Turned(w, x, s, h, u), NEW t, NEW label,
         NEW y, y = Descend(x, t, label)
  PROVE  Turned(w, y, Append(s, t), h, u)
<1>1. PICK e : y = [x EXCEPT !.ss = Append(x.ss, t), !.levels = e]
  BY DEF Descend
<1>. QED
  BY <1>1 DEF Turned, WorkerFields

(* The handlers of the tokens that open something, *)
LEMMA ControlLCB ==
  ASSUME NEW c \in DOMAIN worker, LCB(c), NEW w, w = worker[c], IsControl(w)
  PROVE  Opens(w, worker'[c], "LCB")
<1> DEFINE p == worker[c].at + 1
           a == StartUnit(worker[c], p)
           b == [a EXCEPT !.ss = Append(@, "LCB")]
           t(node) == MarkIf({PREDICATE}, "{", node) \o MarkIf({CONDITION}, "", node)
           start(node) == StartsMatch(c, p, b.base, node)
           x == AddTuples(c, b, Current(b), t)
           y == MapCurrent(x, start)
<1>1. Becomes(c, y)
  BY Zenon DEF LCB
<1>2. PICK o : x = [b EXCEPT !.out = o]
  <2> HIDE DEF b, t
  <2>. QED
    BY Zenon DEF AddTuples
<1>3. PICK e : y = [x EXCEPT !.levels = e]
  <2> HIDE DEF x, start
  <2>. QED
    BY Zenon DEF MapCurrent
<1>4. PICK r : /\ Turned(w, a, w.ss, w.shadow_ss, r) /\ Begins(w.unit, r, (w.at + 1) - w.base)
  BY TurnedStart
<1> HIDE DEF x, y, a
<1>5. b = [a EXCEPT !.ss = Append(w.ss, "LCB")]
  BY <1>4 DEF Turned
<1> HIDE DEF b
<1>6. Turned(w, b, Append(w.ss, "LCB"), w.shadow_ss, r)
  BY <1>4, <1>5, TurnedSyntax
<1>7. Turned(w, x, Append(w.ss, "LCB"), w.shadow_ss, r)
  BY <1>2, <1>6, TurnedAside
<1>8. Turned(w, y, Append(w.ss, "LCB"), w.shadow_ss, r)
  BY <1>3, <1>7, TurnedAside
<1>9. HasRead(w, worker'[c], Append(w.ss, "LCB"), w.shadow_ss, r)
  BY <1>1, <1>8, TurnedRead
<1>. QED
  BY <1>4, <1>9 DEF Opens

LEMMA ControlLB ==
  ASSUME NEW c \in DOMAIN worker, LB(c), NEW w, w = worker[c], IsControl(w)
  PROVE  Opens(w, worker'[c], "LB")
<1> DEFINE p == worker[c].at + 1
           a == StartUnit(worker[c], p)
           b == Prune(c, a, ARRAY)
           t(node) == MarkIf({CONDITION}, "", node)
           start(node) == StartsMatch(c, p, b.base, node)
           x == AddTuples(c, b, Current(b), t)
           y == MapCurrent(x, start)
<1>1. Becomes(c, Descend(y, "LB", ARRAY))
  BY Zenon DEF LB
<1>2. PICK o : x = [b EXCEPT !.out = o]
  <2> HIDE DEF b, t
  <2>. QED
    BY Zenon DEF AddTuples
<1>3. PICK e : y = [x EXCEPT !.levels = e]
  <2> HIDE DEF x, start
  <2>. QED
    BY Zenon DEF MapCurrent
<1>4. PICK q : /\ Turned(w, a, w.ss, w.shadow_ss, q) /\ Begins(w.unit, q, (w.at + 1) - w.base)
  BY TurnedStart
<1> HIDE DEF x, y, a
<1>5. PICK r : /\ Turned(w, b, w.ss, w.shadow_ss, r) /\ Begins(w.unit, r, (w.at + 1) - w.base)
  BY <1>4, TurnedPrune
<1> HIDE DEF b
<1>6. Turned(w, x, w.ss, w.shadow_ss, r)
  BY <1>2, <1>5, TurnedAside
<1>7. Turned(w, y, w.ss, w.shadow_ss, r)
  BY <1>3, <1>6, TurnedAside
<1>8. PICK z : z = Descend(y, "LB", ARRAY)
  OBVIOUS
<1>9. Turned(w, z, Append(w.ss, "LB"), w.shadow_ss, r)
  BY <1>7, <1>8, TurnedDescend
<1>10. HasRead(w, worker'[c], Append(w.ss, "LB"), w.shadow_ss, r)
  BY <1>1, <1>8, <1>9, TurnedRead
<1>. QED
  BY <1>5, <1>10 DEF Opens

LEMMA ControlKY ==
  ASSUME NEW c \in DOMAIN worker, KY(c), NEW w, w = worker[c], IsControl(w)
  PROVE  Opens(w, worker'[c], "KY")
<1>1. PICK p : p = worker[c].at + 1
  OBVIOUS
<1>2. PICK key : key = text[p].key
  OBVIOUS
<1>3. PICK a : a = StartUnit(worker[c], p)
  OBVIOUS
<1>4. PICK b : b = IF Len(a.levels) = 1 THEN Prune(c, a, key) ELSE a
  OBVIOUS
<1>5. PICK z : z = Descend(b, "KY", key)
  OBVIOUS
<1>6. Becomes(c, z)
  BY <1>1, <1>2, <1>3, <1>4, <1>5, Zenon DEF KY
<1>7. PICK q : /\ Turned(w, a, w.ss, w.shadow_ss, q) /\ Begins(w.unit, q, (w.at + 1) - w.base)
  BY <1>1, <1>3, TurnedStart
<1>8. \E r : /\ Turned(w, b, w.ss, w.shadow_ss, r) /\ Begins(w.unit, r, (w.at + 1) - w.base)
  <2>1. CASE b = a
    BY <1>7, <2>1
  <2>2. CASE b = Prune(c, a, key)
    BY <1>7, <2>2, TurnedPrune
  <2>. QED
    BY <1>4, <2>1, <2>2
<1>9. PICK r : /\ Turned(w, b, w.ss, w.shadow_ss, r) /\ Begins(w.unit, r, (w.at + 1) - w.base)
  BY <1>8
<1>10. Turned(w, z, Append(w.ss, "KY"), w.shadow_ss, r)
  BY <1>5, <1>9, TurnedDescend
<1>11. HasRead(w, worker'[c], Append(w.ss, "KY"), w.shadow_ss, r)
  BY <1>6, <1>10, TurnedRead
<1>. QED
  BY <1>9, <1>11 DEF Opens

(* What is left of the unit's own symbols when one of its containers ends. *)
Shortened(s) ==
  IF Len(s) = 1 THEN Drop(s, 1)
  ELSE IF s[Len(s) - 1] = "KY" THEN Drop(s, 2)
  ELSE IF s[Len(s) - 1] = "LB" THEN Drop(s, 1) ELSE s

(* The token closes a container: one from before the unit, or one of its own. *)
Ends(c, w, v, t, outside) ==
  LET h == IF Len(w.ss) = 1 THEN Enclosing(w, outside) ELSE w.shadow_ss IN
  \/ /\ w.ss = <<>>
     /\ v = [addUnmatchedSymbol(CloseUnit(c, w, w.at + 1), t, w.at + 1) EXCEPT !.at = @ + 1]
  \/ /\ w.ss # <<>>
     /\ h = "KY" \/ HasRead(w, v, Shortened(w.ss), h, w.unit)

(* of the end of an object, *)
LEMMA ControlRCB ==
  ASSUME NEW c \in DOMAIN worker, RCB(c), NEW w, w = worker[c], IsControl(w)
  PROVE  Ends(c, w, worker'[c], "RCB", {"LCB", "END"})
<1> DEFINE p == worker[c].at + 1
           t(node)     == CompletedTuple(c, worker[c], p, node)
           clear(node) == Cleared(c, node)
           emitted == AddTuples(c, worker[c], Current(worker[c]), t)
           done == MapCurrent(emitted, clear)
           only == Infer(done, p, {"LCB", "END"})
<1>1. IF worker[c].ss = <<>>
        THEN Becomes(c, addUnmatchedSymbol(CloseUnit(c, worker[c], p), "RCB", p))
      ELSE IF Len(worker[c].ss) = 1
        THEN IF only.shadow_ss = "INVALID"
               THEN Becomes(c, PopSyntax(only, 1))
             ELSE IF only.shadow_ss = "KY"
               THEN Becomes(c, addUnmatchedSymbol(CloseUnit(c, only, p), "OBJECT", p))
               ELSE Becomes(c, EndElement(c, only, {PREDICATE, INCOMPLETE_INDEX}))
      ELSE IF SecondTop(worker[c]) = "KY"
        THEN Becomes(c, PopLevels(PopSyntax(done, 2), 1))
      ELSE IF SecondTop(worker[c]) = "LB"
        THEN Becomes(c, EndElement(c, done, {PREDICATE}))
        ELSE Becomes(c, done)
  BY Zenon DEF RCB
<1>2. PICK o : emitted = [worker[c] EXCEPT !.out = o]
  <2> HIDE DEF t
  <2>. QED
    BY Zenon DEF AddTuples
<1>3. PICK e : done = [emitted EXCEPT !.levels = e]
  <2> HIDE DEF emitted, clear
  <2>. QED
    BY Zenon DEF MapCurrent
<1> HIDE DEF emitted, done
<1>4. Turned(w, emitted, w.ss, w.shadow_ss, w.unit)
  BY <1>2, TurnedSelf, TurnedAside DEF IsControl
<1>5. Turned(w, done, w.ss, w.shadow_ss, w.unit)
  BY <1>3, <1>4, TurnedAside
<1>6. PICK outside : outside = {"LCB", "END"}
  OBVIOUS
<1>7. PICK h : h = Enclosing(w, outside)
  OBVIOUS
<1>8. PICK x : x = only
  OBVIOUS
<1>9. Turned(w, x, w.ss, h, w.unit)
  <2>1. x = Infer(done, p, outside)
    BY <1>6, <1>8
  <2>. QED
    BY <1>5, <1>7, <2>1, TurnedInfer
<1> HIDE DEF only
<1>10. x.shadow_ss = h
  BY <1>9 DEF Turned
<1>11. CASE w.ss = <<>>
  BY <1>1, <1>11, BecomesForm DEF Ends
<1>12. CASE w.ss # <<>> /\ Len(w.ss) = 1
  <2>1. CASE h = "KY"
    BY <1>6, <1>7, <1>12, <2>1 DEF Ends
  <2>2. CASE h # "KY"
    <3>1. \E y : Becomes(c, y) /\ Turned(w, y, Drop(w.ss, 1), h, w.unit)
      <4>1. CASE h = "INVALID"
        <5>1. Becomes(c, PopSyntax(x, 1))
          BY <1>1, <1>8, <1>10, <1>12, <4>1, Zenon
        <5>2. Turned(w, PopSyntax(x, 1), Drop(w.ss, 1), h, w.unit)
          BY <1>9, TurnedPops
        <5>. QED
          BY <5>1, <5>2
      <4>2. CASE h # "INVALID"
        <5>1. PICK y, closing : /\ closing = {PREDICATE, INCOMPLETE_INDEX}
                                /\ y = EndElement(c, x, closing)
          OBVIOUS
        <5>2. Becomes(c, y)
          BY <1>1, <1>8, <1>10, <1>12, <2>2, <4>2, <5>1, Zenon
        <5>3. Turned(w, y, Drop(w.ss, 1), h, w.unit)
          BY <1>9, <5>1, TurnedElement
        <5>. QED
          BY <5>2, <5>3
      <4>. QED
        BY <4>1, <4>2
    <3>2. HasRead(w, worker'[c], Drop(w.ss, 1), h, w.unit)
      BY <3>1, TurnedRead
    <3>. QED
      BY <1>6, <1>7, <1>12, <3>2 DEF Ends, Shortened
  <2>. QED
    BY <2>1, <2>2
<1>13. CASE w.ss # <<>> /\ Len(w.ss) # 1
  <2>1. SecondTop(w) = w.ss[Len(w.ss) - 1]
    <3>1. w.ss \in Seq(Symbols)
      BY DEF IsControl
    <3>2. Len(w.ss) > 1
      BY <1>13, <3>1, LengthCases
    <3>. QED
      BY <3>2 DEF SecondTop
  <2>2. PICK y, closing : closing = {PREDICATE} /\ y = EndElement(c, done, closing)
    OBVIOUS
  <2>3. Turned(w, y, Drop(w.ss, 1), w.shadow_ss, w.unit)
    BY <1>5, <2>2, TurnedElement
  <2>4. Turned(w, PopLevels(PopSyntax(done, 2), 1), Drop(w.ss, 2), w.shadow_ss, w.unit)
    BY <1>5, TurnedPops
  <2>5. \E z : Becomes(c, z) /\ Turned(w, z, Shortened(w.ss), w.shadow_ss, w.unit)
    <3>1. CASE SecondTop(w) = "KY"
      <4>1. Becomes(c, PopLevels(PopSyntax(done, 2), 1))
        BY <1>1, <1>13, <3>1, Zenon
      <4>2. Shortened(w.ss) = Drop(w.ss, 2)
        BY <1>13, <2>1, <3>1 DEF Shortened
      <4>. QED
        BY <2>4, <4>1, <4>2
    <3>2. CASE SecondTop(w) = "LB"
      <4>1. Becomes(c, y)
        BY <1>1, <1>13, <2>2, <3>2, Zenon
      <4>2. Shortened(w.ss) = Drop(w.ss, 1)
        BY <1>13, <2>1, <3>2 DEF Shortened
      <4>. QED
        BY <2>3, <4>1, <4>2
    <3>3. CASE SecondTop(w) \notin {"KY", "LB"}
      <4>0. SecondTop(w) # "KY" /\ SecondTop(w) # "LB"
        BY <3>3
      <4>1. Becomes(c, done)
        BY <1>1, <1>13, <4>0, Zenon
      <4>2. Shortened(w.ss) = w.ss
        BY <1>13, <2>1, <4>0 DEF Shortened
      <4>. QED
        BY <1>5, <4>1, <4>2
    <3>. QED
      BY <3>1, <3>2, <3>3
  <2>6. HasRead(w, worker'[c], Shortened(w.ss), w.shadow_ss, w.unit)
    BY <2>5, TurnedRead
  <2>. QED
    BY <1>13, <2>6 DEF Ends
<1>. QED
  BY <1>11, <1>12, <1>13

LEMMA TurnedCount ==
  ASSUME NEW w, NEW x, NEW s, NEW h, NEW u, Turned(w, x, s, h, u),
         NEW y, y = MapCurrent(x, CountUp)
  PROVE  Turned(w, y, s, h, u)
<1>1. PICK e : y = [x EXCEPT !.levels = e]
  BY Zenon DEF MapCurrent
<1>. QED
  BY <1>1, TurnedAside

(* An array's element in its array. *)
LEMMA TurnedElementEnd ==
  ASSUME NEW w, NEW x, NEW s, NEW h, NEW u, Turned(w, x, s, h, u),
         NEW y, y = MapCurrent(PopLevels(PopSyntax(x, 1), 1), CountUp)
  PROVE  Turned(w, y, Drop(s, 1), h, u)
<1>1. PICK a : a = PopSyntax(x, 1)
  OBVIOUS
<1>2. Turned(w, a, Drop(s, 1), h, u)
  BY <1>1, TurnedPops
<1>3. PICK b : b = PopLevels(a, 1)
  OBVIOUS
<1>4. Turned(w, b, Drop(s, 1), h, u)
  BY <1>2, <1>3, TurnedPops
<1>5. y = MapCurrent(b, CountUp)
  BY <1>1, <1>3
<1>. QED
  BY <1>4, <1>5, TurnedCount

(* of the end of an array, *)
LEMMA ControlRB ==
  ASSUME NEW c \in DOMAIN worker, RB(c), NEW w, w = worker[c], IsControl(w)
  PROVE  Ends(c, w, worker'[c], "RB", {"LB", "END"})
<1> DEFINE p == worker[c].at + 1
           below == Len(worker[c].levels) - 1
           arrays == worker[c].levels[below]
           t(node) == CompletedTuple(c, worker[c], p, node) \o
                      (IF node.matched_start # INVALID
                         THEN MarkIf({INCOMPLETE_INDEX}, "]", node) ELSE <<>>)
           emitted == AddTuples(c, worker[c], arrays, t)
           F == [m \in DOMAIN arrays |-> Cleared(c, arrays[m])]
           done == [emitted EXCEPT !.levels[below] = F]
           only == Infer(done, p, {"LB", "END"})
           element(v) == MapCurrent(PopLevels(PopSyntax(v, 1), 1), CountUp)
<1>1. IF worker[c].ss = <<>>
        THEN Becomes(c, addUnmatchedSymbol(CloseUnit(c, worker[c], p), "RB", p))
      ELSE IF Len(worker[c].ss) = 1
        THEN IF only.shadow_ss = "INVALID"
               THEN Becomes(c, PopLevels(PopSyntax(only, 1), 1))
             ELSE IF only.shadow_ss = "KY"
               THEN Becomes(c, addUnmatchedSymbol(CloseUnit(c, only, p), "ARRAY", p))
               ELSE Becomes(c, element(only))
      ELSE IF SecondTop(worker[c]) = "KY"
        THEN Becomes(c, PopLevels(PopSyntax(done, 2), 2))
      ELSE IF SecondTop(worker[c]) = "LB"
        THEN Becomes(c, element(done))
        ELSE Becomes(c, done)
  BY Zenon DEF RB
<1>2. PICK o : emitted = [worker[c] EXCEPT !.out = o]
  <2> HIDE DEF t, below
  <2>. QED
    BY Zenon DEF AddTuples
<1>3. PICK e : done = [emitted EXCEPT !.levels = e]
  <2> HIDE DEF emitted, F, below
  <2>. QED
    OBVIOUS
<1> HIDE DEF emitted, done, F, below
<1>4. Turned(w, emitted, w.ss, w.shadow_ss, w.unit)
  BY <1>2, TurnedSelf, TurnedAside DEF IsControl
<1>5. Turned(w, done, w.ss, w.shadow_ss, w.unit)
  BY <1>3, <1>4, TurnedAside
<1>6. PICK outside : outside = {"LB", "END"}
  OBVIOUS
<1>7. PICK h : h = Enclosing(w, outside)
  OBVIOUS
<1>8. PICK x : x = only
  OBVIOUS
<1>9. Turned(w, x, w.ss, h, w.unit)
  <2>1. x = Infer(done, p, outside)
    BY <1>6, <1>8
  <2>. QED
    BY <1>5, <1>7, <2>1, TurnedInfer
<1> HIDE DEF only
<1>10. x.shadow_ss = h
  BY <1>9 DEF Turned
<1>11. CASE w.ss = <<>>
  BY <1>1, <1>11, BecomesForm DEF Ends
<1>12. CASE w.ss # <<>> /\ Len(w.ss) = 1
  <2>1. CASE h = "KY"
    BY <1>6, <1>7, <1>12, <2>1 DEF Ends
  <2>2. CASE h # "KY"
    <3>1. \E y : Becomes(c, y) /\ Turned(w, y, Drop(w.ss, 1), h, w.unit)
      <4>1. CASE h = "INVALID"
        <5>0. PICK a : a = PopSyntax(x, 1)
          OBVIOUS
        <5>1. Becomes(c, PopLevels(a, 1))
          BY <1>1, <1>8, <1>10, <1>12, <4>1, <5>0, Zenon
        <5>2. Turned(w, a, Drop(w.ss, 1), h, w.unit)
          BY <1>9, <5>0, TurnedPops
        <5>3. Turned(w, PopLevels(a, 1), Drop(w.ss, 1), h, w.unit)
          BY <5>2, TurnedPops
        <5>. QED
          BY <5>1, <5>3
      <4>2. CASE h # "INVALID"
        <5>1. PICK y : y = MapCurrent(PopLevels(PopSyntax(x, 1), 1), CountUp)
          OBVIOUS
        <5>2. Becomes(c, y)
          BY <1>1, <1>8, <1>10, <1>12, <2>2, <4>2, <5>1, Zenon
        <5>3. Turned(w, y, Drop(w.ss, 1), h, w.unit)
          BY <1>9, <5>1, TurnedElementEnd
        <5>. QED
          BY <5>2, <5>3
      <4>. QED
        BY <4>1, <4>2
    <3>2. HasRead(w, worker'[c], Drop(w.ss, 1), h, w.unit)
      BY <3>1, TurnedRead
    <3>. QED
      BY <1>6, <1>7, <1>12, <3>2 DEF Ends, Shortened
  <2>. QED
    BY <2>1, <2>2
<1>13. CASE w.ss # <<>> /\ Len(w.ss) # 1
  <2>1. SecondTop(w) = w.ss[Len(w.ss) - 1]
    <3>1. w.ss \in Seq(Symbols)
      BY DEF IsControl
    <3>2. Len(w.ss) > 1
      BY <1>13, <3>1, LengthCases
    <3>. QED
      BY <3>2 DEF SecondTop
  <2>2. PICK y : y = MapCurrent(PopLevels(PopSyntax(done, 1), 1), CountUp)
    OBVIOUS
  <2>3. Turned(w, y, Drop(w.ss, 1), w.shadow_ss, w.unit)
    BY <1>5, <2>2, TurnedElementEnd
  <2>4. Turned(w, PopLevels(PopSyntax(done, 2), 2), Drop(w.ss, 2), w.shadow_ss, w.unit)
    <3>1. PICK a : a = PopSyntax(done, 2)
      OBVIOUS
    <3>2. Turned(w, a, Drop(w.ss, 2), w.shadow_ss, w.unit)
      BY <1>5, <3>1, TurnedPops
    <3>3. Turned(w, PopLevels(a, 2), Drop(w.ss, 2), w.shadow_ss, w.unit)
      BY <3>2, TurnedPops
    <3>. QED
      BY <3>1, <3>3
  <2>5. \E z : Becomes(c, z) /\ Turned(w, z, Shortened(w.ss), w.shadow_ss, w.unit)
    <3>1. CASE SecondTop(w) = "KY"
      <4>1. Becomes(c, PopLevels(PopSyntax(done, 2), 2))
        BY <1>1, <1>13, <3>1, Zenon
      <4>2. Shortened(w.ss) = Drop(w.ss, 2)
        BY <1>13, <2>1, <3>1 DEF Shortened
      <4>. QED
        BY <2>4, <4>1, <4>2
    <3>2. CASE SecondTop(w) = "LB"
      <4>1. Becomes(c, y)
        BY <1>1, <1>13, <2>2, <3>2, Zenon
      <4>2. Shortened(w.ss) = Drop(w.ss, 1)
        BY <1>13, <2>1, <3>2 DEF Shortened
      <4>. QED
        BY <2>3, <4>1, <4>2
    <3>3. CASE SecondTop(w) \notin {"KY", "LB"}
      <4>0. SecondTop(w) # "KY" /\ SecondTop(w) # "LB"
        BY <3>3
      <4>1. Becomes(c, done)
        BY <1>1, <1>13, <4>0, Zenon
      <4>2. Shortened(w.ss) = w.ss
        BY <1>13, <2>1, <4>0 DEF Shortened
      <4>. QED
        BY <1>5, <4>1, <4>2
    <3>. QED
      BY <3>1, <3>2, <3>3
  <2>6. HasRead(w, worker'[c], Shortened(w.ss), w.shadow_ss, w.unit)
    BY <2>5, TurnedRead
  <2>. QED
    BY <1>13, <2>6 DEF Ends
<1>. QED
  BY <1>11, <1>12, <1>13

(* and of a comma. *)
LEMMA ControlCOM ==
  ASSUME NEW c \in DOMAIN worker, COM(c), NEW w, w = worker[c], IsControl(w)
  PROVE  HasRead(w, worker'[c], w.ss, w.shadow_ss, w.unit)
BY TurnedSelf, TurnedRead DEF COM, IsControl

(* A literal, in the unit or beside it. *)
TakesLiteral(w, v) ==
  \/ /\ w.ss # <<>>
     /\ HasRead(w, v, IF Last(w.ss) = "KY" THEN Drop(w.ss, 1) ELSE w.ss, w.shadow_ss, w.unit)
  \/ /\ w.ss = <<>>
     /\ \/ Enclosing(w, {}) = "KY"
        \/ HasRead(w, v, w.ss, Enclosing(w, {}), [w.unit EXCEPT !.state = "MATCHED"])

LEMMA ControlPRI ==
  ASSUME NEW c \in DOMAIN worker, PRI(c), NEW w, w = worker[c], IsControl(w)
  PROVE  TakesLiteral(w, worker'[c])
<1> DEFINE p == worker[c].at + 1
           only == Infer(worker[c], p, {})
           content == IF worker[c].shadow_ss = "INVALID" THEN ContentAt(worker[c], p) ELSE p
           value(node)   == PrimitiveTuple(c, p, node)
           element(node) == PrimitiveTuple(c, content, node)
           done == AddTuples(c, worker[c], Current(worker[c]), value)
           begun == [only EXCEPT !.unit.state = "MATCHED"]
           taken == AddTuples(c, begun, Current(worker[c]), element)
<1>1. IF worker[c].ss # <<>>
        THEN IF Last(worker[c].ss) = "KY" THEN Becomes(c, PopLevels(PopSyntax(done, 1), 1))
             ELSE IF Last(worker[c].ss) = "LB" THEN Becomes(c, MapCurrent(done, CountUp))
             ELSE Becomes(c, done)
      ELSE IF only.shadow_ss = "KY"
        THEN Becomes(c, addUnmatchedSymbol(CloseUnit(c, only, p), "PRI", p))
        ELSE Becomes(c, MapCurrent(taken, CountUp))
  BY Zenon DEF PRI
<1>2. PICK o : done = [worker[c] EXCEPT !.out = o]
  <2> HIDE DEF value
  <2>. QED
    BY Zenon DEF AddTuples
<1>3. PICK o2 : taken = [begun EXCEPT !.out = o2]
  <2> HIDE DEF element, begun
  <2>. QED
    BY Zenon DEF AddTuples
<1> HIDE DEF done, taken, content
<1>4. Turned(w, w, w.ss, w.shadow_ss, w.unit)
  BY TurnedSelf DEF IsControl
<1>5. Turned(w, done, w.ss, w.shadow_ss, w.unit)
  BY <1>2, <1>4, TurnedAside
<1>6. PICK outside : outside = {}
  OBVIOUS
<1>7. PICK h : h = Enclosing(w, outside)
  OBVIOUS
<1>8. PICK x : x = only
  OBVIOUS
<1>9. Turned(w, x, w.ss, h, w.unit)
  <2>1. x = Infer(w, p, outside)
    BY <1>6, <1>8
  <2>. QED
    BY <1>4, <1>7, <2>1, TurnedInfer
<1>10. x.shadow_ss = h /\ x.unit = w.unit
  BY <1>9 DEF Turned
<1>11. CASE w.ss # <<>>
  <2>1. PICK y : y = MapCurrent(done, CountUp)
    OBVIOUS
  <2>2. Turned(w, y, w.ss, w.shadow_ss, w.unit)
    BY <1>5, <2>1, TurnedCount
  <2>3. PICK a : a = PopSyntax(done, 1)
    OBVIOUS
  <2>4. Turned(w, a, Drop(w.ss, 1), w.shadow_ss, w.unit)
    BY <1>5, <2>3, TurnedPops
  <2>5. Turned(w, PopLevels(a, 1), Drop(w.ss, 1), w.shadow_ss, w.unit)
    BY <2>4, TurnedPops
  <2>6. CASE Last(w.ss) = "KY"
    <3>1. Becomes(c, PopLevels(a, 1))
      BY <1>1, <1>11, <2>3, <2>6, Zenon
    <3>2. HasRead(w, worker'[c], Drop(w.ss, 1), w.shadow_ss, w.unit)
      BY <2>5, <3>1, TurnedRead
    <3>. QED
      BY <1>11, <2>6, <3>2 DEF TakesLiteral
  <2>7. CASE Last(w.ss) # "KY"
    <3>1. \E z : Becomes(c, z) /\ Turned(w, z, w.ss, w.shadow_ss, w.unit)
      <4>1. CASE Last(w.ss) = "LB"
        <5>1. Becomes(c, y)
          BY <1>1, <1>11, <2>1, <2>7, <4>1, Zenon
        <5>. QED
          BY <2>2, <5>1
      <4>2. CASE Last(w.ss) # "LB"
        <5>1. Becomes(c, done)
          BY <1>1, <1>11, <2>7, <4>2, Zenon
        <5>. QED
          BY <1>5, <5>1
      <4>. QED
        BY <4>1, <4>2
    <3>2. HasRead(w, worker'[c], w.ss, w.shadow_ss, w.unit)
      BY <3>1, TurnedRead
    <3>. QED
      BY <1>11, <2>7, <3>2 DEF TakesLiteral
  <2>. QED
    BY <2>6, <2>7
<1>12. CASE w.ss = <<>> /\ h = "KY"
  BY <1>6, <1>7, <1>12 DEF TakesLiteral
<1>13. CASE w.ss = <<>> /\ h # "KY"
  <2>1. PICK r : r = [w.unit EXCEPT !.state = "MATCHED"]
    OBVIOUS
  <2>2. begun = [x EXCEPT !.unit = r]
    <3>1. begun = [x EXCEPT !.unit.state = "MATCHED"]
      BY <1>8
    <3> HIDE DEF begun, only
    <3>. QED
      BY <1>10, <2>1, <3>1
  <2>0. PICK b : b = begun
    OBVIOUS
  <2>3. Turned(w, b, w.ss, h, r)
    BY <1>9, <2>0, <2>2, TurnedUnit
  <2>4. Turned(w, taken, w.ss, h, r)
    BY <1>3, <2>0, <2>3, TurnedAside
  <2>5. PICK y : y = MapCurrent(taken, CountUp)
    OBVIOUS
  <2>6. Turned(w, y, w.ss, h, r)
    BY <2>4, <2>5, TurnedCount
  <2>7. Becomes(c, y)
    <3> HIDE DEF only
    <3>. QED
      BY <1>1, <1>8, <1>10, <1>13, <2>5, Zenon
  <2>8. HasRead(w, worker'[c], w.ss, h, r)
    BY <2>6, <2>7, TurnedRead
  <2>. QED
    BY <1>6, <1>7, <1>13, <2>1, <2>8 DEF TakesLiteral
<1>. QED
  BY <1>11, <1>12, <1>13

(* The end of the stream. *)
LEMMA ControlFinish ==
  ASSUME NEW c \in DOMAIN worker, Finish(c), NEW w, w = worker[c], IsControl(w)
  PROVE  LET v == worker'[c] IN
         /\ DOMAIN v = WorkerFields /\ v.finished = TRUE
         /\ v.base = w.base /\ v.end = w.end /\ v.at = w.at /\ v.ss = w.ss
         /\ v.shadow_ss = w.shadow_ss /\ v.unit = w.unit
         /\ v.units = Append(w.units, Closed(w, w.levels[1], w.end - w.base + 1))
<1>1. PICK last : last = Closed(w, w.levels[1], w.end - w.base + 1)
  OBVIOUS
<1>2. PICK v : v = worker'[c]
  OBVIOUS
<1>3. v = [w EXCEPT !.units = Append(@, last), !.finished = TRUE]
  BY <1>1, <1>2 DEF Finish
<1>. QED
  BY <1>1, <1>2, <1>3 DEF IsControl, WorkerFields

-----------------------------------------------------------------------------
(***************************************************************************)
(* Nesting: objects hold keys, and keys hold values.                       *)
(***************************************************************************)
(* Popping one symbol or two. *)
LEMMA DropFacts ==
  ASSUME NEW S, NEW s \in Seq(S), NEW n \in {1, 2}, n <= Len(s)
  PROVE  /\ Drop(s, n) \in Seq(S) /\ Len(Drop(s, n)) = Len(s) - n
         /\ \A m \in 1 .. Len(s) - n : Drop(s, n)[m] = s[m]
<1>1. PICK l \in Nat : l = Len(s)
  BY LenProperties
<1>2. \A m \in 1 .. l - n : s[m] \in S
  BY <1>1, ElementOfSeq
<1>3. l - n \in Int /\ 1 \in Int /\ l - n >= 0
  BY <1>1
<1>4. PICK d : d = SubSeq(s, 1, l - n)
  OBVIOUS
<1>5. d \in Seq(S)
  BY <1>2, <1>3, <1>4, SubSeqProperties
<1>6. Len(d) = IF 1 <= l - n THEN l - n - 1 + 1 ELSE 0
  BY <1>2, <1>3, <1>4, SubSeqProperties
<1>7. \A m \in 1 .. l - n - 1 + 1 : d[m] = s[1 + m - 1]
  BY <1>2, <1>3, <1>4, SubSeqProperties
<1>8. Len(d) = l - n
  BY <1>3, <1>6
<1>9. \A m \in 1 .. l - n : d[m] = s[m]
  BY <1>3, <1>7
<1>10. d = Drop(s, n)
  BY <1>1, <1>4 DEF Drop
<1>. QED
  BY <1>1, <1>5, <1>8, <1>9, <1>10

LEMMA DropOne ==
  ASSUME NEW S, NEW s \in Seq(S), s # <<>>
  PROVE  Drop(s, 1) = Front(s)
<1>1. /\ Len(s) \in Nat \ {0} /\ Front(s) \in Seq(S) /\ Len(Front(s)) = Len(s) - 1
      /\ \A m \in 1 .. Len(s) - 1 : Front(s)[m] = s[m]
  BY FrontFacts
<1>2. PICK n \in {1, 2} : n = 1
  OBVIOUS
<1>3. n <= Len(s)
  BY <1>1, <1>2
<1>4. /\ Drop(s, n) \in Seq(S) /\ Len(Drop(s, n)) = Len(s) - n
      /\ \A m \in 1 .. Len(s) - n : Drop(s, n)[m] = s[m]
  BY <1>3, DropFacts
<1>. QED
  BY <1>1, <1>2, <1>4, SeqEqual

LEMMA DropTwo ==
  ASSUME NEW S, NEW s \in Seq(S), Len(s) > 1
  PROVE  Drop(s, 2) = Front(Front(s)) /\ Front(s) # <<>> /\ Last(Front(s)) = s[Len(s) - 1]
<1>1. s # <<>>
  BY LengthCases
<1>2. /\ Len(s) \in Nat \ {0} /\ Front(s) \in Seq(S) /\ Len(Front(s)) = Len(s) - 1
      /\ \A m \in 1 .. Len(s) - 1 : Front(s)[m] = s[m]
  BY <1>1, FrontFacts
<1>3. PICK l \in Nat : l = Len(s) /\ l > 1
  BY <1>2
<1>4. PICK f \in Seq(S) : f = Front(s)
  BY <1>2
<1>5. Len(f) = l - 1 /\ \A m \in 1 .. l - 1 : f[m] = s[m]
  BY <1>2, <1>3, <1>4
<1>6. f # <<>>
  BY <1>3, <1>5
<1>7. /\ Front(f) \in Seq(S) /\ Len(Front(f)) = Len(f) - 1
      /\ \A m \in 1 .. Len(f) - 1 : Front(f)[m] = f[m]
      /\ Last(f) = f[Len(f)]
  BY <1>6, FrontFacts
<1>8. Last(f) = s[l - 1]
  BY <1>3, <1>5, <1>7
<1>9. PICK n \in {1, 2} : n = 2
  OBVIOUS
<1>10. n <= Len(s)
  BY <1>3, <1>9
<1>11. /\ Drop(s, n) \in Seq(S) /\ Len(Drop(s, n)) = Len(s) - n
       /\ \A m \in 1 .. Len(s) - n : Drop(s, n)[m] = s[m]
  BY <1>10, DropFacts
<1>12. Len(Front(f)) = l - 2 /\ Len(Drop(s, n)) = l - 2
  BY <1>3, <1>5, <1>7, <1>9, <1>11
<1>13. \A m \in 1 .. l - 2 : Front(f)[m] = s[m] /\ Drop(s, n)[m] = s[m]
  BY <1>3, <1>5, <1>7, <1>9, <1>11
<1>14. Drop(s, n) = Front(f)
  BY <1>7, <1>11, <1>12, <1>13, SeqEqual
<1>. QED
  BY <1>3, <1>4, <1>6, <1>8, <1>9, <1>14

(* What is nested stays so without its top, and above what is below. *)
LEMMA NestedFront ==
  ASSUME NEW s, WellNested(s), s # <<>>
  PROVE  WellNested(Front(s))
<1>1. s \in Seq(Symbols)
  BY DEF WellNested
<1>2. /\ Len(s) \in Nat \ {0} /\ Front(s) \in Seq(Symbols) /\ Len(Front(s)) = Len(s) - 1
      /\ \A m \in 1 .. Len(s) - 1 : Front(s)[m] = s[m]
  BY <1>1, FrontFacts
<1>3. PICK l \in Nat : l = Len(s) /\ l >= 1
  BY <1>2
<1>4. PICK f \in Seq(Symbols) : f = Front(s)
  BY <1>2
<1>5. Len(f) = l - 1 /\ \A m \in 1 .. l - 1 : f[m] = s[m]
  BY <1>2, <1>3, <1>4
<1>6. f # <<>> => f[1] # "KY"
  <2> SUFFICES ASSUME f # <<>> PROVE f[1] # "KY"
    OBVIOUS
  <2>1. Len(f) \in Nat \ {0}
    BY EmptySeq
  <2>2. f[1] = s[1]
    BY <1>3, <1>5, <2>1
  <2>. QED
    BY <2>2 DEF WellNested
<1>7. \A m \in 1 .. Len(f) - 1 : f[m + 1] = "KY" <=> f[m] = "LCB"
  <2> SUFFICES ASSUME NEW m \in 1 .. Len(f) - 1 PROVE f[m + 1] = "KY" <=> f[m] = "LCB"
    OBVIOUS
  <2>1. m \in 1 .. l - 1 /\ m + 1 \in 1 .. l - 1
    BY <1>3, <1>5
  <2>2. f[m + 1] = s[m + 1] /\ f[m] = s[m]
    BY <1>5, <2>1
  <2>. QED
    BY <1>3, <2>1, <2>2 DEF WellNested
<1>. QED
  BY <1>4, <1>6, <1>7 DEF WellNested

LEMMA NestedInside ==
  ASSUME NEW o \in Seq(Symbols), NEW v \in Seq(Symbols), WellNested(Atop(o, v))
  PROVE  /\ \A m \in 1 .. Len(v) - 1 : v[m + 1] = "KY" <=> v[m] = "LCB"
         /\ o # <<>> /\ v # <<>> => (v[1] = "KY" <=> Last(o) = "LCB")
<1>1. PICK c : c = Atop(o, v)
  OBVIOUS
<1>2. c \in Seq(Symbols) /\ Len(c) = Len(o) + Len(v)
  BY <1>1, Stacking
<1>3. PICK a \in Nat, b \in Nat : a = Len(o) /\ b = Len(v)
  BY LenProperties
<1>4. \A m \in 1 .. b : c[a + m] = v[m]
  BY <1>1, <1>3, StackedOn
<1>5. \A m \in 1 .. a : c[m] = o[m]
  BY <1>1, <1>3, StackedBelow
<1>6. \A n \in 1 .. a + b - 1 : c[n + 1] = "KY" <=> c[n] = "LCB"
  BY <1>1, <1>2, <1>3 DEF WellNested
<1>7. ASSUME NEW m \in 1 .. b - 1 PROVE v[m + 1] = "KY" <=> v[m] = "LCB"
  <2>1. m \in 1 .. b /\ m + 1 \in 1 .. b /\ a + m \in 1 .. a + b - 1
    BY <1>3
  <2>2. c[a + m] = v[m]
    BY <1>4, <2>1
  <2>3. c[a + (m + 1)] = v[m + 1]
    BY <1>4, <2>1
  <2>4. a + (m + 1) = (a + m) + 1
    BY <1>3
  <2>. QED
    BY <1>6, <2>1, <2>2, <2>3, <2>4
<1>8. ASSUME o # <<>>, v # <<>> PROVE v[1] = "KY" <=> Last(o) = "LCB"
  <2>0. Len(o) \in Nat \ {0} /\ Last(o) = o[Len(o)]
    BY <1>8, FrontFacts
  <2>9. Len(v) \in Nat \ {0}
    BY <1>8, EmptySeq
  <2>1. a >= 1 /\ b >= 1 /\ Last(o) = o[a]
    BY <1>3, <2>0, <2>9
  <2>2. c[a] = o[a]
    BY <1>3, <1>5, <2>1
  <2>3. c[a + 1] = v[1]
    BY <1>3, <1>4, <2>1
  <2>4. a \in 1 .. a + b - 1
    BY <1>3, <2>1
  <2>. QED
    BY <1>6, <2>1, <2>2, <2>3, <2>4
<1>. QED
  BY <1>3, <1>7, <1>8

(* Without a complete value no key is on top. *)
LEMMA OuterValue ==
  ASSUME NEW s, WellNested(s)
  PROVE  Outer(ValueOver(s)) /\ WellNested(ValueOver(s))
<1>1. s \in Seq(Symbols)
  BY DEF WellNested
<1>2. CASE ~(s # <<>> /\ Last(s) = "KY")
  BY <1>1, <1>2 DEF ValueOver, Outer
<1>3. CASE s # <<>> /\ Last(s) = "KY"
  <2>1. ValueOver(s) = Front(s)
    BY <1>3 DEF ValueOver
  <2>2. /\ Len(s) \in Nat \ {0} /\ Front(s) \in Seq(Symbols) /\ Len(Front(s)) = Len(s) - 1
        /\ \A m \in 1 .. Len(s) - 1 : Front(s)[m] = s[m]
        /\ Last(s) = s[Len(s)]
    BY <1>1, <1>3, FrontFacts
  <2>3. CASE Front(s) = <<>>
    BY <1>3, <2>1, <2>2, <2>3, NestedFront DEF Outer
  <2>4. CASE Front(s) # <<>>
    <3>1. Len(Front(s)) \in Nat \ {0} /\ Last(Front(s)) = Front(s)[Len(Front(s))]
      BY <2>2, <2>4, FrontFacts
    <3>2. PICK l \in Nat : l = Len(s) /\ l >= 2
      BY <2>2, <3>1
    <3>3. Last(Front(s)) = s[l - 1]
      BY <2>2, <3>1, <3>2
    <3>4. s[(l - 1) + 1] = "KY" <=> s[l - 1] = "LCB"
      BY <3>2 DEF WellNested
    <3>5. s[l - 1] = "LCB"
      BY <1>3, <2>2, <3>2, <3>4
    <3>. QED
      BY <1>3, <2>1, <2>2, <3>3, <3>5, NestedFront DEF Outer
  <2>. QED
    BY <2>3, <2>4
<1>. QED
  BY <1>2, <1>3

(* The nesting survives every token. *)
LEMMA NestedPushed ==
  ASSUME NEW s, WellNested(s), NEW x \in Symbols, x = "KY" <=> (s # <<>> /\ Last(s) = "LCB")
  PROVE  WellNested(Pushed(s, x))
<1>1. s \in Seq(Symbols)
  BY DEF WellNested
<1>2. PICK c : c = Pushed(s, x)
  OBVIOUS
<1>3. PICK l \in Nat : l = Len(s)
  BY <1>1, LenProperties
<1>4. c \in Seq(Symbols) /\ Len(c) = l + 1 /\ (\A m \in 1 .. l : c[m] = s[m]) /\ c[l + 1] = x
  BY <1>1, <1>2, <1>3, AppendProperties DEF Pushed
<1>5. c[1] # "KY"
  <2>1. CASE s = <<>>
    <3>1. l = 0
      BY <1>3, <2>1
    <3>. QED
      BY <1>4, <2>1, <3>1
  <2>2. CASE s # <<>>
    <3>1. l >= 1
      BY <1>1, <1>3, <2>2, FrontFacts
    <3>. QED
      BY <1>3, <1>4, <2>2, <3>1 DEF WellNested
  <2>. QED
    BY <2>1, <2>2
<1>6. ASSUME NEW m \in 1 .. l PROVE c[m + 1] = "KY" <=> c[m] = "LCB"
  <2>1. CASE m = l
    <3>1. s # <<>>
      BY <1>3, <2>1
    <3>2. Last(s) = s[l]
      BY <1>1, <1>3, <3>1, FrontFacts
    <3>3. c[m] = s[l] /\ c[m + 1] = x
      BY <1>3, <1>4, <2>1
    <3>. QED
      BY <3>1, <3>2, <3>3
  <2>2. CASE m # l
    <3>1. m \in 1 .. l - 1 /\ m + 1 \in 1 .. l
      BY <1>3, <2>2
    <3>2. c[m + 1] = s[m + 1] /\ c[m] = s[m]
      BY <1>4, <3>1
    <3>. QED
      BY <1>3, <3>1, <3>2 DEF WellNested
  <2>. QED
    BY <2>1, <2>2
<1>7. \A m \in 1 .. Len(c) - 1 : c[m + 1] = "KY" <=> c[m] = "LCB"
  BY <1>3, <1>4, <1>6
<1>. QED
  BY <1>2, <1>4, <1>5, <1>7 DEF WellNested

LEMMA StepNested ==
  ASSUME NEW t, NEW s, WellNested(s), NEW v, SyntaxStep(t, s, v)
  PROVE  WellNested(v)
<1>1. CASE t \in {"LCB", "LB"} /\ Place(s) /\ v = Pushed(s, t)
  <2>1. t \in Symbols /\ t # "KY" /\ ~(s # <<>> /\ Last(s) = "LCB")
    BY <1>1 DEF Place, Symbols
  <2>. QED
    BY <1>1, <2>1, NestedPushed
<1>2. CASE t = "PRI" /\ Place(s) /\ v = ValueOver(s)
  BY <1>2, OuterValue
<1>3. CASE t = "KY" /\ s # <<>> /\ Last(s) = "LCB" /\ v = Pushed(s, t)
  BY <1>3, NestedPushed DEF Symbols
<1>4. CASE t = "COM" /\ s # <<>> /\ Last(s) # "KY" /\ v = s
  BY <1>4
<1>5. CASE t = "RCB" /\ s # <<>> /\ Last(s) = "LCB" /\ v = ValueOver(Front(s))
  BY <1>5, NestedFront, OuterValue
<1>6. CASE t = "RB" /\ s # <<>> /\ Last(s) = "LB" /\ v = ValueOver(Front(s))
  BY <1>6, NestedFront, OuterValue
<1>. QED
  BY <1>1, <1>2, <1>3, <1>4, <1>5, <1>6 DEF SyntaxStep

(* What a worker pops when one of its containers ends is the container and the
   key it is the value of. *)
LEMMA ShortenedIs ==
  ASSUME NEW o \in Seq(Symbols), NEW v \in Seq(Symbols), WellNested(Atop(o, v)), v # <<>>,
         Last(v) \in {"LCB", "LB"}
  PROVE  Shortened(v) = ValueOver(Front(v))
<1>1. CASE Len(v) = 1
  <2>1. Shortened(v) = Front(v)
    BY <1>1, DropOne DEF Shortened
  <2>2. Front(v) \in Seq(Symbols) /\ Len(Front(v)) = 0
    BY <1>1, FrontFacts
  <2>3. Front(v) = <<>>
    BY <2>2, EmptySeq
  <2>. QED
    BY <2>1, <2>3 DEF ValueOver
<1>2. CASE Len(v) > 1
  <2>1. Drop(v, 2) = Front(Front(v)) /\ Front(v) # <<>> /\ Last(Front(v)) = v[Len(v) - 1]
    BY <1>2, DropTwo
  <2>2. Drop(v, 1) = Front(v)
    BY DropOne
  <2>3. PICK l \in Nat : l = Len(v) /\ l > 1
    BY <1>2, LenProperties
  <2>4. Last(v) = v[l]
    BY <2>3, FrontFacts
  <2>5. v[(l - 1) + 1] = "KY" <=> v[l - 1] = "LCB"
    BY <2>3, NestedInside
  <2>6. v[l - 1] # "LCB"
    BY <2>3, <2>4, <2>5
  <2>7. v[l - 1] \in Symbols
    BY <2>3, ElementOfSeq
  <2>8. v[Len(v) - 1] = "KY" \/ v[Len(v) - 1] = "LB"
    BY <2>3, <2>6, <2>7 DEF Symbols
  <2>9. Len(v) # 1
    BY <2>3
  <2>10. CASE v[Len(v) - 1] = "KY"
    <3>1. Shortened(v) = Drop(v, 2)
      BY <2>9, <2>10 DEF Shortened
    <3>2. ValueOver(Front(v)) = Front(Front(v))
      BY <2>1, <2>10 DEF ValueOver
    <3>. QED
      BY <2>1, <3>1, <3>2
  <2>11. CASE v[Len(v) - 1] = "LB"
    <3>1. Shortened(v) = Drop(v, 1)
      BY <2>9, <2>11 DEF Shortened
    <3>2. ValueOver(Front(v)) = Front(v)
      BY <2>1, <2>11 DEF ValueOver
    <3>. QED
      BY <2>2, <3>1, <3>2
  <2>. QED
    BY <2>8, <2>10, <2>11
<1>. QED
  BY <1>1, <1>2, LengthCases

-----------------------------------------------------------------------------
(***************************************************************************)
(* A run over a part of the text: its stack is what the text has open      *)
(* above what enclosed the run.                                            *)
(***************************************************************************)
NoBareLiteral == \A n \in 1 .. Len(text) : ~text[n].bare

(* g is what encloses each place of the text. *)
Stacked(g) ==
  /\ g \in [0 .. Len(text) -> Seq(Symbols)]
  /\ g[0] = <<>>
  /\ \A n \in 0 .. Len(text) : WellNested(g[n])
  /\ \A n \in 0 .. Len(text) - 1 : SyntaxStep(text[n + 1].type, g[n], g[n + 1])

(* w has on its stack what the text has above o. *)
Inner(g, w, o) ==
  /\ IsControl(w) /\ w.shadow_ss # "KY"
  /\ Outer(o)
  /\ w.at <= w.end /\ w.end <= Len(text)
  /\ g[w.at] = Atop(o, w.ss)
  /\ w.finished => w.at = w.end

(* The token a worker reads is the next of the text. *)
LEMMA ReadsToken ==
  ASSUME NEW c, NEW w, w = worker[c], NEW type, Reads(c, type), NoBareLiteral,
         w.at \in Nat, w.end \in Nat, w.end <= Len(text), Len(text) \in Nat
  PROVE  /\ ~w.finished
         /\ w.at + 1 <= w.end => text[w.at + 1].type = type
         /\ w.at + 1 > w.end => type = "END"
<1>1. ~w.finished /\ TypeAt(w, w.at + 1) = type
  BY DEF Reads
<1>2. w.at + 1 <= w.end => Delivered(w, w.at + 1)
  <2> SUFFICES ASSUME w.at + 1 <= w.end PROVE Delivered(w, w.at + 1)
    OBVIOUS
  <2>1. w.at + 1 \in 1 .. Len(text)
    OBVIOUS
  <2>. QED
    BY <2>1 DEF Delivered, NoBareLiteral
<1>3. w.at + 1 > w.end => ~Delivered(w, w.at + 1)
  BY DEF Delivered
<1>. QED
  BY <1>1, <1>2, <1>3 DEF TypeAt

LEMMA NextType ==
  ASSUME NEW w, NEW p \in Nat, w.end \in Nat, w.end <= Len(text), NoBareLiteral,
         Len(text) \in Nat, p >= 1
  PROVE  TypeAt(w, p) = IF p <= w.end THEN text[p].type ELSE "END"
<1>1. p <= w.end => ~text[p].bare
  BY DEF NoBareLiteral
<1>. QED
  BY <1>1 DEF TypeAt, Delivered

(* Behind a value that no object encloses comes neither its end nor a key. *)
LEMMA NoKeyInferred ==
  ASSUME NEW g, Stacked(g), NoBareLiteral, Len(text) \in Nat, NEW w, IsControl(w),
         w.shadow_ss # "KY", w.at + 1 <= w.end, w.end <= Len(text),
         g[w.at + 1] = <<>> \/ Last(g[w.at + 1]) = "LB", NEW outside
  PROVE  Enclosing(w, outside) \in Shadows /\ Enclosing(w, outside) # "KY"
<1>1. PICK p \in Nat : p = w.at + 1 /\ p >= 1
  BY DEF IsControl
<1>2. w.end \in Nat /\ w.shadow_ss \in Shadows
  BY DEF IsControl
<1>3. TypeAt(w, p + 1) # "RCB"
  <2> SUFFICES ASSUME TypeAt(w, p + 1) = "RCB" PROVE FALSE
    OBVIOUS
  <2>1. TypeAt(w, p + 1) = IF p + 1 <= w.end THEN text[p + 1].type ELSE "END"
    BY <1>1, <1>2, NextType
  <2>2. p + 1 <= w.end /\ text[p + 1].type = "RCB"
    BY <2>1
  <2>3. p \in 0 .. Len(text) - 1
    BY <1>1, <1>2, <2>2
  <2>4. SyntaxStep("RCB", g[p], g[p + 1])
    BY <2>2, <2>3 DEF Stacked
  <2>. QED
    BY <1>1, <2>4 DEF SyntaxStep
<1>4. ~(TypeAt(w, p + 1) = "COM" /\ TypeAt(w, p + 2) = "KY")
  <2> SUFFICES ASSUME TypeAt(w, p + 1) = "COM", TypeAt(w, p + 2) = "KY" PROVE FALSE
    OBVIOUS
  <2>1. TypeAt(w, p + 1) = IF p + 1 <= w.end THEN text[p + 1].type ELSE "END"
    BY <1>1, <1>2, NextType
  <2>2. TypeAt(w, p + 2) = IF p + 2 <= w.end THEN text[p + 2].type ELSE "END"
    BY <1>1, <1>2, NextType
  <2>3. /\ p + 1 <= w.end /\ text[p + 1].type = "COM"
        /\ p + 2 <= w.end /\ text[p + 2].type = "KY"
    BY <2>1, <2>2
  <2>4. PICK q \in Nat : q = p + 1 /\ q + 1 = p + 2
    BY <1>1
  <2>5. p \in 0 .. Len(text) - 1 /\ q \in 0 .. Len(text) - 1
    BY <1>1, <1>2, <2>3, <2>4
  <2>6. SyntaxStep("COM", g[p], g[q])
    BY <2>3, <2>4, <2>5 DEF Stacked
  <2>7. SyntaxStep("KY", g[q], g[q + 1])
    BY <2>3, <2>4, <2>5 DEF Stacked
  <2>8. g[q] = g[p]
    BY <2>6 DEF SyntaxStep
  <2>. QED
    BY <1>1, <2>7, <2>8 DEF SyntaxStep
<1>5. syntaxStackInference(w, p, outside) \in {"INVALID", "LB"}
  BY <1>3, <1>4 DEF syntaxStackInference
<1>. QED
  BY <1>1, <1>2, <1>5 DEF Enclosing, Shadows

(* The unit goes on; it may begin with the token that ends at offset x. *)
GoesOn(u, r, x) ==
  /\ IsUnit(r) /\ r.symbols = u.symbols
  /\ \/ r.state = u.state /\ r.start = u.start
     \/ u.state # "MATCHED" /\ r.state = "MATCHED" /\ r.start \in {x, u.start}

(* What is on the stack was opened in a unit that has begun. *)
BeginsFirst(w) == w.ss # <<>> => w.unit.state = "MATCHED"

(* The token belongs to what the unit contains. *)
ReadsInside(g, w, v, o) ==
  /\ Inner(g, v, o) /\ ~v.finished /\ v.finished = w.finished
  /\ v.base = w.base /\ v.end = w.end /\ v.at = w.at + 1 /\ v.units = w.units
  /\ GoesOn(w.unit, v.unit, (w.at + 1) - w.base)
  /\ BeginsFirst(w) => v.unit.state = "MATCHED" \/ v.ss = w.ss

(* A token that does not close anything outer keeps the stack to the text. *)
LEMMA InnerOf ==
  ASSUME NEW g, Stacked(g), NEW w, NEW o, Inner(g, w, o), w.at + 1 <= w.end, ~w.finished,
         NEW v, NEW t, t = text[w.at + 1].type, t \in {"RCB", "RB"} => w.ss # <<>>,
         NEW h \in Shadows, h # "KY", NEW u, GoesOn(w.unit, u, (w.at + 1) - w.base),
         HasRead(w, v, Inside(t, w.ss), h, u),
         BeginsFirst(w) => u.state = "MATCHED" \/ Inside(t, w.ss) = w.ss
  PROVE  ReadsInside(g, w, v, o)
<1>1. IsControl(w) /\ Outer(o) /\ w.end <= Len(text) /\ g[w.at] = Atop(o, w.ss)
  BY DEF Inner
<1>2. w.at \in Nat /\ w.end \in Nat /\ w.base \in Nat /\ w.ss \in Seq(Symbols)
  BY <1>1 DEF IsControl
<1>3. w.at \in 0 .. Len(text) - 1
  BY <1>1, <1>2
<1>4. SyntaxStep(t, Atop(o, w.ss), g[w.at + 1])
  BY <1>1, <1>3 DEF Stacked
<1>5. PICK s : s = w.ss
  OBVIOUS
<1>6. g[w.at + 1] = Atop(o, Inside(t, s)) /\ Inside(t, s) \in Seq(Symbols)
  BY <1>1, <1>2, <1>4, <1>5, StepInside
<1>7. /\ DOMAIN v = WorkerFields /\ v.base = w.base /\ v.end = w.end /\ v.at = w.at + 1
      /\ v.units = w.units /\ v.finished = w.finished
      /\ v.ss = Inside(t, s) /\ v.shadow_ss = h /\ v.unit = u
  BY <1>5 DEF HasRead
<1>8. IsControl(v)
  BY <1>2, <1>6, <1>7 DEF IsControl, GoesOn
<1>9. Inner(g, v, o)
  BY <1>1, <1>2, <1>6, <1>7, <1>8 DEF Inner
<1>. QED
  BY <1>5, <1>7, <1>9 DEF ReadsInside

(* A container or a member begins. *)
LEMMA OpensInside ==
  ASSUME NEW g, Stacked(g), NEW w, NEW o, Inner(g, w, o), w.at + 1 <= w.end, ~w.finished,
         NEW v, NEW t \in {"LCB", "LB", "KY"}, t = text[w.at + 1].type, Opens(w, v, t)
  PROVE  ReadsInside(g, w, v, o)
<1>1. PICK r : /\ HasRead(w, v, Append(w.ss, t), w.shadow_ss, r)
               /\ Begins(w.unit, r, (w.at + 1) - w.base)
  BY DEF Opens
<1>2. HasRead(w, v, Inside(t, w.ss), w.shadow_ss, r)
  BY <1>1 DEF Inside, Pushed
<1>3. GoesOn(w.unit, r, (w.at + 1) - w.base) /\ r.state = "MATCHED"
  BY <1>1 DEF Begins, GoesOn
<1>4. w.shadow_ss \in Shadows /\ w.shadow_ss # "KY"
  BY DEF Inner, IsControl
<1>5. ~(t \in {"RCB", "RB"})
  OBVIOUS
<1>. QED
  BY <1>2, <1>3, <1>4, <1>5, InnerOf

(* One of the containers from before the unit ends with a token of type t. *)
ClosesOuter(c, w, v, t) ==
  /\ w.ss = <<>>
  /\ v = [addUnmatchedSymbol(CloseUnit(c, w, w.at + 1), t, w.at + 1) EXCEPT !.at = @ + 1]

(* A container ends. *)
LEMMA EndsInside ==
  ASSUME NEW g, Stacked(g), NoBareLiteral, Len(text) \in Nat, NEW c, NEW w, NEW o, Inner(g, w, o),
         w.at + 1 <= w.end, ~w.finished, NEW v, NEW t \in {"RCB", "RB"}, t = text[w.at + 1].type,
         NEW outside, Ends(c, w, v, t, outside)
  PROVE  ReadsInside(g, w, v, o) \/ ClosesOuter(c, w, v, t)
<1>1. CASE w.ss = <<>>
  BY <1>1 DEF Ends, ClosesOuter
<1>2. CASE w.ss # <<>>
  <2>1. IsControl(w) /\ Outer(o) /\ w.end <= Len(text) /\ g[w.at] = Atop(o, w.ss)
    BY DEF Inner
  <2>2. w.at \in Nat /\ w.end \in Nat /\ w.base \in Nat /\ IsUnit(w.unit) /\ w.shadow_ss \in Shadows
    BY <2>1 DEF IsControl
  <2>3. PICK s \in Seq(Symbols) : s = w.ss
    BY <2>1 DEF IsControl
  <2>4. o \in Seq(Symbols)
    BY <2>1 DEF Outer
  <2>5. w.at \in 0 .. Len(text) - 1
    BY <2>1, <2>2
  <2>6. SyntaxStep(t, Atop(o, s), g[w.at + 1]) /\ WellNested(Atop(o, s))
    <3>1. SyntaxStep(t, g[w.at], g[w.at + 1])
      BY <2>5 DEF Stacked
    <3>2. w.at \in 0 .. Len(text)
      BY <2>5
    <3>3. WellNested(g[w.at])
      BY <3>2 DEF Stacked
    <3>. QED
      BY <2>1, <2>3, <3>1, <3>3
  <2>7. /\ Last(Atop(o, s)) = Last(s) /\ Front(Atop(o, s)) = Atop(o, Front(s))
        /\ Front(s) \in Seq(Symbols)
    BY <1>2, <2>3, <2>4, StackingTop
  <2>8. Last(s) \in {"LCB", "LB"} /\ (t = "RCB" => Last(s) = "LCB") /\ (t = "RB" => Last(s) = "LB")
    BY <2>6, <2>7 DEF SyntaxStep
  <2>9. Shortened(s) = ValueOver(Front(s))
    BY <1>2, <2>3, <2>4, <2>6, <2>8, ShortenedIs
  <2>10. Inside(t, s) = Shortened(s)
    BY <2>9 DEF Inside
  <2>11. PICK h : h = IF Len(s) = 1 THEN Enclosing(w, outside) ELSE w.shadow_ss
    OBVIOUS
  <2>12. h \in Shadows /\ h # "KY"
    <3>1. CASE Len(s) # 1
      BY <2>2, <2>11, <3>1 DEF Inner
    <3>2. CASE Len(s) = 1
      <4>1. Front(s) = <<>>
        <5>1. Len(Front(s)) = Len(s) - 1
          BY <1>2, <2>3, FrontFacts
        <5>2. Len(Front(s)) = 0
          BY <3>2, <5>1
        <5>. QED
          BY <2>7, <5>2, EmptySeq
      <4>2. Front(Atop(o, s)) = o
        BY <2>4, <2>7, <4>1, NothingAtop
      <4>3. g[w.at + 1] = ValueOver(o)
        BY <2>6, <4>2 DEF SyntaxStep
      <4>4. o # <<>> => Last(o) # "KY"
        BY <2>1 DEF Outer
      <4>5. g[w.at + 1] = o
        BY <4>3, <4>4 DEF ValueOver
      <4>6. o # <<>> => Last(o) = "LB"
        <5> SUFFICES ASSUME o # <<>> PROVE Last(o) = "LB"
          OBVIOUS
        <5>1. s[1] = "KY" <=> Last(o) = "LCB"
          BY <1>2, <2>3, <2>4, <2>6, NestedInside
        <5>2. Last(s) = s[1]
          BY <1>2, <2>3, <3>2, FrontFacts
        <5>3. Last(o) \in Symbols
          BY <2>4, FrontFacts
        <5>. QED
          BY <2>8, <4>4, <5>1, <5>2, <5>3 DEF Symbols
      <4>7. g[w.at + 1] = <<>> \/ Last(g[w.at + 1]) = "LB"
        BY <4>5, <4>6
      <4>8. w.shadow_ss # "KY"
        BY DEF Inner
      <4>9. Enclosing(w, outside) \in Shadows /\ Enclosing(w, outside) # "KY"
        BY <2>1, <4>7, <4>8, NoKeyInferred
      <4>. QED
        BY <2>11, <3>2, <4>9
    <3>. QED
      BY <3>1, <3>2
  <2>13. HasRead(w, v, Inside(t, w.ss), h, w.unit)
    BY <1>2, <2>3, <2>10, <2>11, <2>12 DEF Ends
  <2>14. GoesOn(w.unit, w.unit, (w.at + 1) - w.base)
    BY <2>2 DEF GoesOn
  <2>15. ReadsInside(g, w, v, o)
    <3>1. BeginsFirst(w) => w.unit.state = "MATCHED"
      BY <1>2 DEF BeginsFirst
    <3>. QED
      BY <1>2, <2>12, <2>13, <2>14, <3>1, InnerOf
  <2>. QED
    BY <2>15
<1>. QED
  BY <1>1, <1>2

(* A comma. *)
LEMMA CommaInside ==
  ASSUME NEW g, Stacked(g), NEW w, NEW o, Inner(g, w, o), w.at + 1 <= w.end, ~w.finished,
         NEW v, "COM" = text[w.at + 1].type, HasRead(w, v, w.ss, w.shadow_ss, w.unit)
  PROVE  ReadsInside(g, w, v, o)
<1>0. PICK t : t = "COM"
  OBVIOUS
<1>1. Inside(t, w.ss) = w.ss /\ t \notin {"RCB", "RB"}
  BY <1>0 DEF Inside
<1>2. GoesOn(w.unit, w.unit, (w.at + 1) - w.base) /\ w.shadow_ss \in Shadows /\ w.shadow_ss # "KY"
  BY DEF GoesOn, Inner, IsControl
<1>3. HasRead(w, v, Inside(t, w.ss), w.shadow_ss, w.unit)
  BY <1>1
<1>. QED
  BY <1>0, <1>1, <1>2, <1>3, InnerOf

(* A literal, in a container or beside one. *)
LEMMA LiteralInside ==
  ASSUME NEW g, Stacked(g), NoBareLiteral, Len(text) \in Nat, NEW w, NEW o, Inner(g, w, o),
         w.at + 1 <= w.end, ~w.finished, NEW v, "PRI" = text[w.at + 1].type,
         TakesLiteral(w, v)
  PROVE  ReadsInside(g, w, v, o)
<1>0. PICK t : t = "PRI"
  OBVIOUS
<1>1. IsControl(w) /\ Outer(o) /\ w.end <= Len(text) /\ g[w.at] = Atop(o, w.ss)
  BY DEF Inner
<1>2. w.at \in Nat /\ w.end \in Nat /\ w.base \in Nat /\ IsUnit(w.unit) /\ w.shadow_ss \in Shadows
      /\ w.ss \in Seq(Symbols)
  BY <1>1 DEF IsControl
<1>3. w.shadow_ss # "KY"
  BY DEF Inner
<1>4. t \notin {"RCB", "RB"} /\ Inside(t, w.ss) = ValueOver(w.ss)
  BY <1>0 DEF Inside
<1>5. CASE w.ss # <<>>
  <2>1. ValueOver(w.ss) = IF Last(w.ss) = "KY" THEN Drop(w.ss, 1) ELSE w.ss
    <3>1. Drop(w.ss, 1) = Front(w.ss)
      BY <1>2, <1>5, DropOne
    <3>. QED
      BY <1>5, <3>1 DEF ValueOver
  <2>2. HasRead(w, v, Inside(t, w.ss), w.shadow_ss, w.unit)
    BY <1>4, <1>5, <2>1 DEF TakesLiteral
  <2>3. GoesOn(w.unit, w.unit, (w.at + 1) - w.base)
    BY <1>2 DEF GoesOn
  <2>. QED
    <3>1. BeginsFirst(w) => w.unit.state = "MATCHED"
      BY <1>5 DEF BeginsFirst
    <3>. QED
      BY <1>0, <1>2, <1>3, <1>4, <1>5, <2>2, <2>3, <3>1, InnerOf
<1>6. CASE w.ss = <<>>
  <2>1. PICK outside : outside = {}
    OBVIOUS
  <2>2. PICK h : h = Enclosing(w, outside)
    OBVIOUS
  <2>3. o \in Seq(Symbols) /\ (o # <<>> => Last(o) # "KY")
    BY <1>1 DEF Outer
  <2>4. g[w.at] = o
    BY <1>1, <1>6, <2>3, NothingAtop
  <2>5. w.at \in 0 .. Len(text) - 1
    BY <1>1, <1>2
  <2>6. SyntaxStep(t, o, g[w.at + 1])
    BY <1>0, <2>4, <2>5 DEF Stacked
  <2>7. g[w.at + 1] = o /\ (o = <<>> \/ Last(o) = "LB")
    BY <1>0, <2>3, <2>6 DEF SyntaxStep, Place, ValueOver
  <2>8. g[w.at + 1] = <<>> \/ Last(g[w.at + 1]) = "LB"
    BY <2>7
  <2>9. h \in Shadows /\ h # "KY"
    BY <1>1, <1>3, <2>2, <2>8, NoKeyInferred
  <2>10. PICK u : u = [w.unit EXCEPT !.state = "MATCHED"]
    OBVIOUS
  <2>11. GoesOn(w.unit, u, (w.at + 1) - w.base) /\ u.state = "MATCHED"
    BY <1>2, <2>10 DEF GoesOn, IsUnit
  <2>12. Inside(t, w.ss) = w.ss
    BY <1>4, <1>6 DEF ValueOver
  <2>13. HasRead(w, v, Inside(t, w.ss), h, u)
    BY <1>6, <2>1, <2>2, <2>9, <2>10, <2>12 DEF TakesLiteral
  <2>. QED
    BY <1>0, <1>4, <2>9, <2>11, <2>12, <2>13, InnerOf
<1>. QED
  BY <1>5, <1>6

(* The run is over. *)
EndsRun(w, v) ==
  /\ DOMAIN v = WorkerFields /\ v.finished = TRUE
  /\ v.base = w.base /\ v.end = w.end /\ v.at = w.at /\ v.ss = w.ss
  /\ v.shadow_ss = w.shadow_ss /\ v.unit = w.unit
  /\ v.units = Append(w.units, Closed(w, w.levels[1], w.end - w.base + 1))

(* What a token does to the stack of an engine over a text that encloses it
   with o. *)
LEMMA StepInner ==
  ASSUME NEW g, Stacked(g), NoBareLiteral, Len(text) \in Nat, NEW c \in DOMAIN worker, Step(c),
         NEW w, w = worker[c], NEW v, v = worker'[c], NEW o, Inner(g, w, o)
  PROVE  /\ ~w.finished
         /\ \/ w.at + 1 <= w.end /\ ReadsInside(g, w, v, o)
            \/ \E t \in {"RCB", "RB"} : /\ w.at + 1 <= w.end /\ t = text[w.at + 1].type
                                        /\ ClosesOuter(c, w, v, t)
            \/ w.at = w.end /\ EndsRun(w, v) /\ Inner(g, v, o)
<1>1. IsControl(w) /\ w.at <= w.end /\ w.end <= Len(text)
  BY DEF Inner
<1>2. w.at \in Nat /\ w.end \in Nat
  BY <1>1 DEF IsControl
<1>3. ASSUME NEW t, Reads(c, t), t # "END"
      PROVE  ~w.finished /\ w.at + 1 <= w.end /\ text[w.at + 1].type = t
  <2>1. /\ ~w.finished
        /\ w.at + 1 <= w.end => text[w.at + 1].type = t
        /\ w.at + 1 > w.end => t = "END"
    BY <1>1, <1>2, <1>3, ReadsToken
  <2>. QED
    BY <1>2, <1>3, <2>1
<1>4. CASE LCB(c)
  <2>1. Reads(c, "LCB")
    BY <1>4 DEF LCB
  <2>2. ~w.finished /\ w.at + 1 <= w.end /\ text[w.at + 1].type = "LCB"
    BY <1>3, <2>1
  <2>3. Opens(w, v, "LCB")
    BY <1>1, <1>4, ControlLCB
  <2>4. PICK t \in {"LCB", "LB", "KY"} : t = "LCB"
    OBVIOUS
  <2>5. ReadsInside(g, w, v, o)
    BY <2>2, <2>3, <2>4, OpensInside
  <2>. QED
    BY <2>2, <2>5
<1>5. CASE LB(c)
  <2>1. Reads(c, "LB")
    BY <1>5 DEF LB
  <2>2. ~w.finished /\ w.at + 1 <= w.end /\ text[w.at + 1].type = "LB"
    BY <1>3, <2>1
  <2>3. Opens(w, v, "LB")
    BY <1>1, <1>5, ControlLB
  <2>4. PICK t \in {"LCB", "LB", "KY"} : t = "LB"
    OBVIOUS
  <2>5. ReadsInside(g, w, v, o)
    BY <2>2, <2>3, <2>4, OpensInside
  <2>. QED
    BY <2>2, <2>5
<1>6. CASE KY(c)
  <2>1. Reads(c, "KY")
    BY <1>6 DEF KY
  <2>2. ~w.finished /\ w.at + 1 <= w.end /\ text[w.at + 1].type = "KY"
    BY <1>3, <2>1
  <2>3. Opens(w, v, "KY")
    BY <1>1, <1>6, ControlKY
  <2>4. PICK t \in {"LCB", "LB", "KY"} : t = "KY"
    OBVIOUS
  <2>5. ReadsInside(g, w, v, o)
    BY <2>2, <2>3, <2>4, OpensInside
  <2>. QED
    BY <2>2, <2>5
<1>7. CASE RCB(c)
  <2>1. Reads(c, "RCB")
    BY <1>7 DEF RCB
  <2>2. ~w.finished /\ w.at + 1 <= w.end /\ text[w.at + 1].type = "RCB"
    BY <1>3, <2>1
  <2>3. PICK outside : outside = {"LCB", "END"}
    OBVIOUS
  <2>4. Ends(c, w, v, "RCB", outside)
    BY <1>1, <1>7, <2>3, ControlRCB
  <2>5. PICK t \in {"RCB", "RB"} : t = "RCB"
    OBVIOUS
  <2>6. t = text[w.at + 1].type /\ Ends(c, w, v, t, outside)
    BY <2>2, <2>4, <2>5
  <2>7. ReadsInside(g, w, v, o) \/ ClosesOuter(c, w, v, t)
    BY <2>2, <2>6, EndsInside
  <2>. QED
    BY <2>2, <2>6, <2>7
<1>8. CASE RB(c)
  <2>1. Reads(c, "RB")
    BY <1>8 DEF RB
  <2>2. ~w.finished /\ w.at + 1 <= w.end /\ text[w.at + 1].type = "RB"
    BY <1>3, <2>1
  <2>3. PICK outside : outside = {"LB", "END"}
    OBVIOUS
  <2>4. Ends(c, w, v, "RB", outside)
    BY <1>1, <1>8, <2>3, ControlRB
  <2>5. PICK t \in {"RCB", "RB"} : t = "RB"
    OBVIOUS
  <2>6. t = text[w.at + 1].type /\ Ends(c, w, v, t, outside)
    BY <2>2, <2>4, <2>5
  <2>7. ReadsInside(g, w, v, o) \/ ClosesOuter(c, w, v, t)
    BY <2>2, <2>6, EndsInside
  <2>. QED
    BY <2>2, <2>6, <2>7
<1>9. CASE COM(c)
  <2>1. Reads(c, "COM")
    BY <1>9 DEF COM
  <2>2. ~w.finished /\ w.at + 1 <= w.end /\ text[w.at + 1].type = "COM"
    BY <1>3, <2>1
  <2>3. HasRead(w, v, w.ss, w.shadow_ss, w.unit)
    BY <1>1, <1>9, ControlCOM
  <2>4. ReadsInside(g, w, v, o)
    BY <2>2, <2>3, CommaInside
  <2>. QED
    BY <2>2, <2>4
<1>10. CASE PRI(c)
  <2>1. Reads(c, "PRI")
    BY <1>10 DEF PRI
  <2>2. ~w.finished /\ w.at + 1 <= w.end /\ text[w.at + 1].type = "PRI"
    BY <1>3, <2>1
  <2>3. TakesLiteral(w, v)
    BY <1>1, <1>10, ControlPRI
  <2>4. ReadsInside(g, w, v, o)
    BY <2>2, <2>3, LiteralInside
  <2>. QED
    BY <2>2, <2>4
<1>11. CASE Finish(c)
  <2>1. PICK t : t = "END"
    OBVIOUS
  <2>2. Reads(c, t)
    BY <1>11, <2>1 DEF Finish
  <2>3. /\ ~w.finished
        /\ w.at + 1 <= w.end => text[w.at + 1].type = t
    BY <1>1, <1>2, <2>2, ReadsToken
  <2>4. ~(w.at + 1 <= w.end)
    <3> SUFFICES ASSUME w.at + 1 <= w.end PROVE FALSE
      OBVIOUS
    <3>1. w.at \in 0 .. Len(text) - 1
      BY <1>1, <1>2
    <3>2. SyntaxStep(t, g[w.at], g[w.at + 1])
      BY <2>3, <3>1 DEF Stacked
    <3>. QED
      BY <2>1, <3>2 DEF SyntaxStep
  <2>5. w.at = w.end
    BY <1>1, <1>2, <2>4
  <2>6. EndsRun(w, v)
    BY <1>1, <1>11, ControlFinish DEF EndsRun
  <2>7. Inner(g, v, o)
    BY <1>1, <2>5, <2>6 DEF Inner, EndsRun, IsControl
  <2>. QED
    BY <2>3, <2>5, <2>6, <2>7
<1>. QED
  BY <1>4, <1>5, <1>6, <1>7, <1>8, <1>9, <1>10, <1>11 DEF Step

-----------------------------------------------------------------------------
(***************************************************************************)
(* A thread: each of its units takes away one container for every symbol   *)
(* it notes, and goes on from what is left.                                *)
(***************************************************************************)
ClosingSymbol == [type : {"RCB", "RB"}, index : Int]

(* The place behind the m-th symbol of a unit that was entered at a, in a
   stream with b tokens before it. *)
PlaceOf(b, a, syms, m) == IF m = 0 THEN a ELSE b + syms[m].index
LeftAt(b, a, syms)     == PlaceOf(b, a, syms, Len(syms))

(* Where the m-th of the units U is entered. *)
EnteredAt(b, U, m) == IF m = 1 THEN b ELSE b + U[m - 1].end - 1

(* The symbols take away one container each; the unit starts with what they
   leave. *)
UnitOn(g, b, a, syms, start) ==
  /\ syms \in Seq(ClosingSymbol)
  /\ \A m \in 0 .. Len(syms) : PlaceOf(b, a, syms, m) \in 0 .. Len(text)
  /\ \A m \in 1 .. Len(syms) :
       SyntaxStep(syms[m].type, g[PlaceOf(b, a, syms, m - 1)], g[PlaceOf(b, a, syms, m)])
  /\ start \in Int
  /\ start # INVALID => /\ start >= 1 /\ b + start - 1 \in 0 .. Len(text)
                        /\ g[b + start - 1] = g[LeftAt(b, a, syms)]

(* And a closed one ends with it. *)
ClosedOn(g, b, U, m) ==
  LET a == EnteredAt(b, U, m) IN
  /\ UnitOn(g, b, a, U[m].symbols, U[m].start)
  /\ U[m].end \in Int /\ b + U[m].end - 1 \in 0 .. Len(text)
  /\ g[b + U[m].end - 1] = g[LeftAt(b, a, U[m].symbols)]

(* A thread that runs, the text above what its unit's symbols leave. *)
Runs(g, w) ==
  LET a == EnteredAt(w.base, w.units, Len(w.units) + 1)
      o == g[LeftAt(w.base, a, w.unit.symbols)]
  IN  /\ Inner(g, w, o) /\ w.base <= w.at
      /\ UnitOn(g, w.base, a, w.unit.symbols, w.unit.start)
      /\ w.unit.state # "MATCHED" => w.unit.start = INVALID /\ w.ss = <<>>
      /\ \A m \in 1 .. Len(w.units) : ClosedOn(g, w.base, w.units, m)

(* And one that is through: what is left open is above its last unit's. *)
HasRun(g, w) ==
  LET n == Len(w.units)
      a == EnteredAt(w.base, w.units, n)
  IN  /\ n >= 1
      /\ \A m \in 1 .. n - 1 : ClosedOn(g, w.base, w.units, m)
      /\ UnitOn(g, w.base, a, w.units[n].symbols, w.units[n].start)
      /\ w.units[n].end = w.end - w.base + 1
      /\ w.base \in Nat /\ w.end \in Nat /\ w.end <= Len(text)
      /\ w.ss \in Seq(Symbols)
      /\ g[w.end] = Atop(g[LeftAt(w.base, a, w.units[n].symbols)], w.ss)

ThreadOn(g, w) ==
  /\ \E S : w.units \in Seq(S)
  /\ w.finished \in BOOLEAN
  /\ IF w.finished THEN HasRun(g, w) ELSE Runs(g, w)

(* Units are closed one behind the other, and stay as they were closed. *)
LEMMA EnteredKept ==
  ASSUME NEW S, NEW U \in Seq(S), NEW r, NEW V, V = Pushed(U, r), NEW b
  PROVE  /\ Len(V) = Len(U) + 1 /\ V[Len(U) + 1] = r /\ \E T : V \in Seq(T)
         /\ \A m \in 1 .. Len(U) : V[m] = U[m]
         /\ \A m \in 1 .. Len(U) + 1 : EnteredAt(b, V, m) = EnteredAt(b, U, m)
<1>1. /\ V \in Seq(S \union {r}) /\ Len(V) = Len(U) + 1 /\ V[Len(U) + 1] = r
      /\ \A m \in 1 .. Len(U) : V[m] = U[m]
  BY AppendAny DEF Pushed
<1>2. ASSUME NEW m \in 1 .. Len(U) + 1 PROVE EnteredAt(b, V, m) = EnteredAt(b, U, m)
  <2>1. CASE m = 1
    BY <2>1 DEF EnteredAt
  <2>2. CASE m # 1
    <3>1. Len(U) \in Nat
      BY LenProperties
    <3>2. m - 1 \in 1 .. Len(U)
      BY <2>2, <3>1
    <3>3. V[m - 1] = U[m - 1]
      BY <1>1, <3>2
    <3>. QED
      BY <2>2, <3>3 DEF EnteredAt
  <2>. QED
    BY <2>1, <2>2
<1>. QED
  BY <1>1, <1>2

LEMMA ClosedKept ==
  ASSUME NEW g, NEW S, NEW U \in Seq(S), NEW r, NEW V, V = Pushed(U, r), NEW b,
         NEW m \in 1 .. Len(U), ClosedOn(g, b, U, m)
  PROVE  ClosedOn(g, b, V, m)
<1>1. V[m] = U[m]
  BY EnteredKept
<1>2. EnteredAt(b, V, m) = EnteredAt(b, U, m)
  <2>1. m \in 1 .. Len(U) + 1
    BY LenProperties
  <2>2. \A n \in 1 .. Len(U) + 1 : EnteredAt(b, V, n) = EnteredAt(b, U, n)
    BY EnteredKept
  <2>. QED
    BY <2>1, <2>2
<1>. QED
  BY <1>1, <1>2 DEF ClosedOn

(* Symbols that are noted behind the others. *)
LEMMA UnitGrows ==
  ASSUME NEW g, NEW b \in Nat, NEW a, NEW syms, NEW start, UnitOn(g, b, a, syms, start),
         NEW t \in {"RCB", "RB"}, NEW p \in 1 .. Len(text), Len(text) \in Nat,
         SyntaxStep(t, g[LeftAt(b, a, syms)], g[p]), NEW s, s = [type |-> t, index |-> p - b]
  PROVE  /\ UnitOn(g, b, a, Pushed(syms, s), INVALID)
         /\ LeftAt(b, a, Pushed(syms, s)) = p
<1>1. syms \in Seq(ClosingSymbol) /\ s \in ClosingSymbol
  BY DEF UnitOn, ClosingSymbol
<1>2. PICK n \in Nat : n = Len(syms)
  BY <1>1, LenProperties
<1>3. PICK z : z = Pushed(syms, s)
  OBVIOUS
<1>4. /\ z \in Seq(ClosingSymbol) /\ Len(z) = n + 1 /\ z[n + 1] = s
      /\ \A m \in 1 .. n : z[m] = syms[m]
  BY <1>1, <1>2, <1>3, AppendProperties DEF Pushed
<1>5. \A m \in 0 .. n : PlaceOf(b, a, z, m) = PlaceOf(b, a, syms, m)
  BY <1>2, <1>4 DEF PlaceOf
<1>6. PlaceOf(b, a, z, n + 1) = p
  BY <1>2, <1>4 DEF PlaceOf
<1>7. LeftAt(b, a, syms) = PlaceOf(b, a, syms, n) /\ LeftAt(b, a, z) = p
  BY <1>2, <1>4, <1>6 DEF LeftAt
<1>8. ASSUME NEW m \in 0 .. n + 1 PROVE PlaceOf(b, a, z, m) \in 0 .. Len(text)
  <2>1. CASE m = n + 1
    BY <1>6, <2>1
  <2>2. CASE m # n + 1
    <3>1. m \in 0 .. n
      BY <1>2, <2>2
    <3>. QED
      BY <1>2, <1>5, <3>1 DEF UnitOn
  <2>. QED
    BY <2>1, <2>2
<1>9. ASSUME NEW m \in 1 .. n + 1
      PROVE  SyntaxStep(z[m].type, g[PlaceOf(b, a, z, m - 1)], g[PlaceOf(b, a, z, m)])
  <2>1. CASE m = n + 1
    <3>1. m - 1 = n /\ n \in 0 .. n
      BY <1>2, <2>1
    <3>2. PlaceOf(b, a, z, m - 1) = LeftAt(b, a, syms)
      BY <1>5, <1>7, <3>1
    <3>3. z[m].type = t /\ PlaceOf(b, a, z, m) = p
      BY <1>4, <1>6, <2>1
    <3>. QED
      BY <3>2, <3>3
  <2>2. CASE m # n + 1
    <3>1. m \in 1 .. n /\ m \in 0 .. n /\ m - 1 \in 0 .. n
      BY <1>2, <2>2
    <3>2. PlaceOf(b, a, z, m - 1) = PlaceOf(b, a, syms, m - 1)
      BY <1>5, <3>1
    <3>3. PlaceOf(b, a, z, m) = PlaceOf(b, a, syms, m) /\ z[m] = syms[m]
      BY <1>4, <1>5, <3>1
    <3>4. SyntaxStep(syms[m].type, g[PlaceOf(b, a, syms, m - 1)], g[PlaceOf(b, a, syms, m)])
      BY <1>2, <3>1 DEF UnitOn
    <3>. QED
      BY <3>2, <3>3, <3>4
  <2>. QED
    BY <2>1, <2>2
<1>10. UnitOn(g, b, a, z, INVALID)
  BY <1>4, <1>8, <1>9 DEF UnitOn, INVALID
<1>. QED
  BY <1>3, <1>7, <1>10

(* A unit that begins with nothing noted. *)
LEMMA UnitFresh ==
  ASSUME NEW g, NEW b \in Nat, NEW a \in 0 .. Len(text)
  PROVE  UnitOn(g, b, a, <<>>, INVALID) /\ LeftAt(b, a, <<>>) = a
<1>1. PICK z : z = <<>>
  OBVIOUS
<1>2. z \in Seq(ClosingSymbol) /\ Len(z) = 0
  BY <1>1, EmptySeq
<1>3. PlaceOf(b, a, z, 0) = a
  BY DEF PlaceOf
<1>4. UnitOn(g, b, a, z, INVALID)
  BY <1>2, <1>3 DEF UnitOn, INVALID
<1>5. LeftAt(b, a, z) = a
  BY <1>2, <1>3 DEF LeftAt
<1>. QED
  BY <1>1, <1>4, <1>5

(* A thread starts with nothing on its stack. *)
LEMMA StartOn ==
  ASSUME NEW g, Stacked(g), Len(text) \in Nat, NEW c, NEW b \in Nat, NEW e \in Nat, b <= e,
         e <= Len(text), Outer(g[b]), NEW st, NEW w, w = StartWorker(c, b, e, st)
  PROVE  ThreadOn(g, w)
<1>1. PICK ls, out : w = [base |-> b, end |-> e, at |-> b,
                          ss |-> <<>>, shadow_ss |-> "INVALID", levels |-> ls, out |-> out,
                          unit |-> NewUnit(st), units |-> <<>>, finished |-> FALSE]
  BY DEF StartWorker
<1>2. /\ DOMAIN w = WorkerFields /\ w.base = b /\ w.end = e /\ w.at = b /\ w.ss = <<>>
      /\ w.shadow_ss = "INVALID" /\ w.unit = NewUnit(st) /\ w.finished = FALSE /\ w.units = <<>>
  BY <1>1 DEF WorkerFields
<1>3. IsUnit(NewUnit(st)) /\ NewUnit(st).symbols = <<>> /\ NewUnit(st).start = INVALID
  BY DEF IsUnit, NewUnit, INVALID
<1>4. <<>> \in Seq(Symbols) /\ "INVALID" \in Shadows /\ "INVALID" # "KY"
  BY DEF Shadows
<1>5. IsControl(w)
  BY <1>2, <1>3, <1>4 DEF IsControl
<1>6. PICK U \in Seq({}) : U = w.units /\ Len(U) = 0
  BY <1>2, EmptySeq
<1>7. EnteredAt(b, U, Len(U) + 1) = b
  BY <1>6 DEF EnteredAt
<1>8. b \in 0 .. Len(text)
  OBVIOUS
<1>9. UnitOn(g, b, b, <<>>, INVALID) /\ LeftAt(b, b, <<>>) = b
  BY <1>8, UnitFresh
<1>10. g[b] = Atop(g[b], <<>>)
  <2>1. g[b] \in Seq(Symbols)
    BY DEF Outer
  <2>. QED
    BY <2>1, NothingAtop
<1>11. Inner(g, w, g[b])
  BY <1>2, <1>4, <1>5, <1>10 DEF Inner
<1>12. \A m \in 1 .. Len(w.units) : ClosedOn(g, w.base, w.units, m)
  BY <1>6
<1>13. Runs(g, w)
  BY <1>2, <1>3, <1>6, <1>7, <1>9, <1>11, <1>12 DEF Runs
<1>. QED
  BY <1>2, <1>6, <1>13 DEF ThreadOn

(* A token of what the unit contains. *)
LEMMA RunsInside ==
  ASSUME NEW g, Len(text) \in Nat, NEW w, Runs(g, w), w.at + 1 <= w.end, NEW v, NEW o,
         o = g[LeftAt(w.base, EnteredAt(w.base, w.units, Len(w.units) + 1), w.unit.symbols)],
         ReadsInside(g, w, v, o)
  PROVE  Runs(g, v)
<1>1. /\ Inner(g, v, o) /\ v.base = w.base /\ v.at = w.at + 1 /\ v.units = w.units
      /\ GoesOn(w.unit, v.unit, (w.at + 1) - w.base)
      /\ BeginsFirst(w) => v.unit.state = "MATCHED" \/ v.ss = w.ss
  BY DEF ReadsInside
<1>2. PICK b, a, syms : /\ b = w.base /\ a = EnteredAt(w.base, w.units, Len(w.units) + 1)
                        /\ syms = w.unit.symbols
  OBVIOUS
<1>3. v.unit.symbols = syms /\ o = g[LeftAt(b, a, syms)]
  BY <1>1, <1>2 DEF GoesOn
<1>4. /\ Inner(g, w, o) /\ b <= w.at /\ UnitOn(g, b, a, syms, w.unit.start)
      /\ w.unit.state # "MATCHED" => w.unit.start = INVALID /\ w.ss = <<>>
      /\ \A m \in 1 .. Len(w.units) : ClosedOn(g, b, w.units, m)
  BY <1>2, <1>3 DEF Runs
<1>5. /\ w.at \in Nat /\ b \in Nat /\ w.end \in Nat /\ w.end <= Len(text) /\ w.at <= w.end
      /\ g[w.at] = Atop(o, w.ss) /\ o \in Seq(Symbols)
  BY <1>2, <1>4 DEF Inner, IsControl, Outer
<1>6. UnitOn(g, b, a, syms, v.unit.start)
  <2>1. CASE v.unit.start = w.unit.start
    BY <1>4, <2>1
  <2>2. CASE v.unit.start # w.unit.start
    <3>1. w.unit.state # "MATCHED" /\ v.unit.start = (w.at + 1) - b
      BY <1>1, <1>2, <2>2 DEF GoesOn
    <3>2. PICK x : x = v.unit.start
      OBVIOUS
    <3>3. x \in Int /\ x >= 1 /\ b + x - 1 = w.at /\ w.at \in 0 .. Len(text)
      BY <1>4, <1>5, <3>1, <3>2
    <3>4. g[w.at] = o
      BY <1>4, <1>5, <3>1, NothingAtop
    <3>5. g[b + x - 1] = g[LeftAt(b, a, syms)]
      BY <1>3, <3>3, <3>4
    <3>6. UnitOn(g, b, a, syms, x)
      BY <1>4, <3>3, <3>5 DEF UnitOn
    <3>. QED
      BY <3>2, <3>6
  <2>. QED
    BY <2>1, <2>2
<1>7. v.unit.state # "MATCHED" => v.unit.start = INVALID /\ v.ss = <<>>
  BY <1>1, <1>4 DEF GoesOn, BeginsFirst
<1>8. v.base <= v.at
  BY <1>1, <1>2, <1>4, <1>5
<1>9. a = EnteredAt(v.base, v.units, Len(v.units) + 1)
  BY <1>1, <1>2
<1>10. Inner(g, v, g[LeftAt(b, a, syms)])
  BY <1>1, <1>3
<1>. QED
  BY <1>1, <1>2, <1>3, <1>4, <1>6, <1>7, <1>8, <1>9, <1>10 DEF Runs

(* The last unit. *)
LEMMA RunsOut ==
  ASSUME NEW g, Len(text) \in Nat, NEW w, Runs(g, w), NEW S, w.units \in Seq(S),
         w.at = w.end, NEW v,
         EndsRun(w, v)
  PROVE  HasRun(g, v) /\ \E T : v.units \in Seq(T)
<1>1. PICK b, a, syms : /\ b = w.base /\ a = EnteredAt(w.base, w.units, Len(w.units) + 1)
                        /\ syms = w.unit.symbols
  OBVIOUS
<1>2. PICK o : o = g[LeftAt(b, a, syms)]
  OBVIOUS
<1>3. /\ Inner(g, w, o) /\ b <= w.at /\ UnitOn(g, b, a, syms, w.unit.start)
      /\ \A m \in 1 .. Len(w.units) : ClosedOn(g, b, w.units, m)
  BY <1>1, <1>2 DEF Runs
<1>4. /\ w.at \in Nat /\ b \in Nat /\ w.end \in Nat /\ w.end <= Len(text)
      /\ g[w.at] = Atop(o, w.ss) /\ w.ss \in Seq(Symbols)
  BY <1>1, <1>3 DEF Inner, IsControl
<1>5. PICK r : r = Closed(w, w.levels[1], w.end - w.base + 1)
  OBVIOUS
<1>6. r.symbols = syms /\ r.start = w.unit.start /\ r.end = w.end - b + 1
  BY <1>1, <1>5 DEF Closed
<1>7. PICK U, V : U = w.units /\ V = v.units
  OBVIOUS
<1>8. V = Pushed(U, r) /\ v.base = b /\ v.end = w.end /\ v.ss = w.ss /\ U \in Seq(S)
  BY <1>1, <1>5, <1>7 DEF EndsRun, Pushed
<1>9. PICK n \in Nat : n = Len(U)
  BY <1>8, LenProperties
<1>10. /\ Len(V) = n + 1 /\ V[n + 1] = r /\ \E T : V \in Seq(T)
       /\ \A m \in 1 .. n + 1 : EnteredAt(b, V, m) = EnteredAt(b, U, m)
  BY <1>8, <1>9, EnteredKept
<1>11. EnteredAt(b, V, n + 1) = a
  BY <1>1, <1>7, <1>9, <1>10
<1>12. ASSUME NEW m \in 1 .. n PROVE ClosedOn(g, b, V, m)
  <2>1. ClosedOn(g, b, U, m) /\ m \in 1 .. Len(U)
    BY <1>3, <1>7, <1>9
  <2>. QED
    BY <1>8, <2>1, ClosedKept
<1>13. n + 1 >= 1 /\ n + 1 - 1 = n
  BY <1>9
<1>14. g[v.end] = Atop(g[LeftAt(b, a, V[n + 1].symbols)], v.ss)
  BY <1>2, <1>4, <1>6, <1>8, <1>10
<1>15. UnitOn(g, b, a, V[n + 1].symbols, V[n + 1].start) /\ V[n + 1].end = v.end - b + 1
  BY <1>3, <1>6, <1>8, <1>10
<1>. QED
  BY <1>4, <1>7, <1>8, <1>10, <1>11, <1>12, <1>13, <1>14, <1>15 DEF HasRun

(* A container from before the unit is noted, and the unit closed if it has
   begun. *)
LEMMA RunsUnmatched ==
  ASSUME NEW g, Stacked(g), Len(text) \in Nat, IsQueryDFA(qa), NEW c, NEW w, IsWorker(qa, w),
         Runs(g, w), NEW S, w.units \in Seq(S), w.finished = FALSE, w.at + 1 <= w.end,
         NEW t \in {"RCB", "RB"}, t = text[w.at + 1].type, NEW v, ClosesOuter(c, w, v, t)
  PROVE  ThreadOn(g, v)
<1>1. PICK b, a, syms : /\ b = w.base /\ a = EnteredAt(w.base, w.units, Len(w.units) + 1)
                        /\ syms = w.unit.symbols
  OBVIOUS
<1>2. PICK o : o = g[LeftAt(b, a, syms)]
  OBVIOUS
<1>3. /\ Inner(g, w, o) /\ b <= w.at /\ UnitOn(g, b, a, syms, w.unit.start)
      /\ w.unit.state # "MATCHED" => w.unit.start = INVALID
      /\ \A m \in 1 .. Len(w.units) : ClosedOn(g, b, w.units, m)
  BY <1>1, <1>2 DEF Runs
<1>4. /\ w.at \in Nat /\ b \in Nat /\ w.end \in Nat /\ w.end <= Len(text)
      /\ g[w.at] = Atop(o, w.ss) /\ w.ss = <<>> /\ o \in Seq(Symbols) /\ w.shadow_ss # "KY"
  BY <1>1, <1>3 DEF Inner, IsControl, Outer, ClosesOuter
<1>5. g[w.at] = o
  BY <1>4, NothingAtop
<1>6. PICK p \in Nat : p = w.at + 1
  BY <1>4
<1>7. p \in 1 .. Len(text) /\ w.at \in 0 .. Len(text) - 1 /\ w.at \in 0 .. Len(text)
  BY <1>4, <1>6
<1>8. SyntaxStep(t, o, g[p]) /\ WellNested(o)
  BY <1>5, <1>6, <1>7 DEF Stacked
<1>9. Outer(g[p])
  <2>1. o # <<>> /\ g[p] = ValueOver(Front(o))
    BY <1>8 DEF SyntaxStep
  <2>2. WellNested(Front(o))
    BY <1>8, <2>1, NestedFront
  <2>. QED
    BY <2>1, <2>2, OuterValue
<1>10. PICK x : x = addUnmatchedSymbol(CloseUnit(c, w, p), t, p) /\ v = [x EXCEPT !.at = @ + 1]
  BY <1>6 DEF ClosesOuter
<1>11. Unmatched(c, w, x, t, p)
  <2>1. t \in SymbolTypes
    BY DEF SymbolTypes
  <2>. QED
    BY <1>10, <2>1, UnmatchedForm
<1>12. IsWorker(qa, x) /\ x.at = w.at /\ x.base = b /\ x.end = w.end
  BY <1>1, <1>11 DEF Unmatched
<1>13. /\ DOMAIN v = WorkerFields /\ v.base = b /\ v.end = w.end /\ v.at = p
       /\ v.finished = w.finished /\ v.ss = x.ss /\ v.shadow_ss = x.shadow_ss
       /\ v.unit = x.unit /\ v.units = x.units
  BY <1>6, <1>10, <1>11, <1>12 DEF IsWorker, WorkerFields, Unmatched
<1>14. v.ss = <<>> /\ v.shadow_ss # "KY" /\ v.unit.state = "UNMATCHED"
  BY <1>4, <1>11, <1>13 DEF Unmatched
<1>15. IsControl(v)
  BY <1>4, <1>12, <1>13 DEF IsWorker, IsControl
<1>16. g[p] = Atop(g[p], <<>>)
  <2>1. g[p] \in Seq(Symbols)
    BY <1>9 DEF Outer
  <2>. QED
    BY <2>1, NothingAtop
<1>17. Inner(g, v, g[p])
  BY <1>4, <1>6, <1>9, <1>13, <1>14, <1>15, <1>16 DEF Inner
<1>18. b <= p
  BY <1>3, <1>4, <1>6
<1>19. PICK s : s = [type |-> t, index |-> p - b]
  OBVIOUS
<1>20. PICK U, V, syms1 : U = w.units /\ V = v.units /\ syms1 = v.unit.symbols
  OBVIOUS
<1>21. U \in Seq(S)
  BY <1>20
<1>22. PICK n \in Nat : n = Len(U)
  BY <1>21, LenProperties
<1>23. CASE w.unit.state # "MATCHED"
  <2>1. V = U /\ syms1 = Pushed(syms, s) /\ v.unit.start = INVALID
    BY <1>1, <1>3, <1>11, <1>13, <1>19, <1>20, <1>23 DEF Unmatched, Pushed
  <2>2. UnitOn(g, b, a, syms1, INVALID) /\ LeftAt(b, a, syms1) = p
    BY <1>2, <1>3, <1>4, <1>7, <1>8, <1>19, <2>1, UnitGrows
  <2>3. a = EnteredAt(v.base, v.units, Len(v.units) + 1)
    BY <1>1, <1>13, <1>20, <2>1
  <2>4. \A m \in 1 .. Len(v.units) : ClosedOn(g, v.base, v.units, m)
    BY <1>3, <1>13, <1>20, <2>1
  <2>5. Inner(g, v, g[LeftAt(v.base, a, v.unit.symbols)])
    BY <1>13, <1>17, <1>20, <2>2
  <2>6. UnitOn(g, v.base, a, v.unit.symbols, v.unit.start)
    BY <1>13, <1>20, <2>1, <2>2
  <2>7. Runs(g, v)
    BY <1>13, <1>14, <1>18, <2>1, <2>3, <2>4, <2>5, <2>6 DEF Runs
  <2>. QED
    BY <1>13, <1>20, <1>21, <2>1, <2>7 DEF ThreadOn
<1>24. CASE w.unit.state = "MATCHED"
  <2>0. PICK r : r = Closed(w, FlattenSeq(w.levels), p - w.base)
    OBVIOUS
  <2>1. V = Pushed(U, r) /\ syms1 = <<s>> /\ v.unit.start = INVALID
    BY <1>1, <1>11, <1>13, <1>19, <1>20, <1>24, <2>0 DEF Unmatched, Pushed
  <2>2. r.symbols = syms /\ r.start = w.unit.start /\ r.end = p - b
    BY <1>1, <2>0 DEF Closed
  <2>3. /\ Len(V) = n + 1 /\ V[n + 1] = r /\ \E T : V \in Seq(T)
        /\ \A m \in 1 .. n + 1 : EnteredAt(b, V, m) = EnteredAt(b, U, m)
    <3>1. V = Pushed(U, r)
      BY <2>1
    <3>2. /\ Len(V) = Len(U) + 1 /\ V[Len(U) + 1] = r /\ \E T : V \in Seq(T)
          /\ \A m \in 1 .. Len(U) + 1 : EnteredAt(b, V, m) = EnteredAt(b, U, m)
      BY <1>21, <3>1, EnteredKept
    <3>. QED
      BY <1>22, <3>2
  <2>4. EnteredAt(b, V, n + 1) = a
    BY <1>1, <1>20, <1>22, <2>3
  <2>5. EnteredAt(b, V, (n + 1) + 1) = w.at
    <3>1. (n + 1) + 1 # 1 /\ ((n + 1) + 1) - 1 = n + 1
      BY <1>22
    <3>2. EnteredAt(b, V, (n + 1) + 1) = b + V[n + 1].end - 1
      BY <3>1 DEF EnteredAt
    <3>3. V[n + 1].end = p - b
      BY <2>2, <2>3
    <3>. QED
      BY <1>4, <1>6, <3>2, <3>3
  <2>6. ASSUME NEW m \in 1 .. n PROVE ClosedOn(g, b, V, m)
    <3>1. ClosedOn(g, b, U, m) /\ m \in 1 .. Len(U)
      BY <1>3, <1>20, <1>22
    <3>. QED
      BY <1>21, <2>1, <3>1, ClosedKept
  <2>7. ClosedOn(g, b, V, n + 1)
    <3>1. UnitOn(g, b, a, V[n + 1].symbols, V[n + 1].start)
      BY <1>3, <2>2, <2>3
    <3>2. V[n + 1].end \in Int /\ b + V[n + 1].end - 1 = w.at
      BY <1>4, <1>6, <2>2, <2>3
    <3>3. g[LeftAt(b, a, V[n + 1].symbols)] = o
      BY <1>2, <2>2, <2>3
    <3>. QED
      BY <1>5, <1>7, <2>4, <3>1, <3>2, <3>3 DEF ClosedOn
  <2>8. \A m \in 1 .. n + 1 : ClosedOn(g, b, V, m)
    <3> SUFFICES ASSUME NEW m \in 1 .. n + 1 PROVE ClosedOn(g, b, V, m)
      OBVIOUS
    <3>1. CASE m = n + 1
      BY <2>7, <3>1
    <3>2. CASE m # n + 1
      <4>1. m \in 1 .. n
        BY <1>22, <3>2
      <4>. QED
        BY <2>6, <4>1
    <3>. QED
      BY <3>1, <3>2
  <2>9. PICK z : z = <<>>
    OBVIOUS
  <2>10. UnitOn(g, b, w.at, z, INVALID) /\ LeftAt(b, w.at, z) = w.at
    BY <1>4, <1>7, <2>9, UnitFresh
  <2>11. syms1 = Pushed(z, s)
    BY <2>1, <2>9 DEF Pushed
  <2>12. SyntaxStep(t, g[LeftAt(b, w.at, z)], g[p])
    BY <1>5, <1>8, <2>10
  <2>13. UnitOn(g, b, w.at, syms1, INVALID) /\ LeftAt(b, w.at, syms1) = p
    BY <1>4, <1>7, <1>19, <2>10, <2>11, <2>12, UnitGrows
  <2>14. w.at = EnteredAt(v.base, v.units, Len(v.units) + 1)
    BY <1>13, <1>20, <2>3, <2>5
  <2>15. \A m \in 1 .. Len(v.units) : ClosedOn(g, v.base, v.units, m)
    BY <1>13, <1>20, <2>3, <2>8
  <2>16. Inner(g, v, g[LeftAt(v.base, w.at, v.unit.symbols)])
    BY <1>13, <1>17, <1>20, <2>13
  <2>17. UnitOn(g, v.base, w.at, v.unit.symbols, v.unit.start)
    BY <1>13, <1>20, <2>1, <2>13
  <2>18. Runs(g, v)
    BY <1>13, <1>14, <1>18, <2>1, <2>14, <2>15, <2>16, <2>17 DEF Runs
  <2>. QED
    BY <1>13, <1>20, <2>3, <2>18 DEF ThreadOn
<1>. QED
  BY <1>23, <1>24

(* Whatever a thread reads, it keeps to the text. *)
LEMMA ThreadStep ==
  ASSUME NEW g, Stacked(g), NoBareLiteral, Len(text) \in Nat, IsQueryDFA(qa),
         NEW c \in DOMAIN worker, Step(c), IsWorker(qa, worker[c]), ThreadOn(g, worker[c])
  PROVE  ThreadOn(g, worker'[c])
<1>1. PICK w, v : w = worker[c] /\ v = worker'[c]
  OBVIOUS
<1>2. PICK S : w.units \in Seq(S)
  BY <1>1 DEF ThreadOn
<1>3. ~w.finished
  <2>1. \E t : Reads(c, t)
    BY DEF Step, LCB, RCB, LB, RB, COM, KY, PRI, Finish
  <2>. QED
    BY <1>1, <2>1 DEF Reads
<1>4. Runs(g, w) /\ w.finished = FALSE
  BY <1>1, <1>3 DEF ThreadOn
<1>5. PICK o : o = g[LeftAt(w.base, EnteredAt(w.base, w.units, Len(w.units) + 1), w.unit.symbols)]
  OBVIOUS
<1>6. Inner(g, w, o)
  BY <1>4, <1>5 DEF Runs
<1>7. \/ w.at + 1 <= w.end /\ ReadsInside(g, w, v, o)
      \/ \E t \in {"RCB", "RB"} : /\ w.at + 1 <= w.end /\ t = text[w.at + 1].type
                                  /\ ClosesOuter(c, w, v, t)
      \/ w.at = w.end /\ EndsRun(w, v) /\ Inner(g, v, o)
  BY <1>1, <1>6, StepInner
<1>8. CASE w.at + 1 <= w.end /\ ReadsInside(g, w, v, o)
  <2>1. Runs(g, v)
    BY <1>4, <1>5, <1>8, RunsInside
  <2>2. v.finished = FALSE /\ v.units = w.units
    BY <1>4, <1>8 DEF ReadsInside
  <2>. QED
    BY <1>1, <1>2, <2>1, <2>2 DEF ThreadOn
<1>9. ASSUME NEW t \in {"RCB", "RB"}, w.at + 1 <= w.end, t = text[w.at + 1].type,
             ClosesOuter(c, w, v, t)
      PROVE  ThreadOn(g, v)
  <2>1. IsWorker(qa, w)
    BY <1>1
  <2>2. w.finished = FALSE
    BY <1>4
  <2>3. Runs(g, w)
    BY <1>4
  <2>. QED
    BY <1>2, <1>9, <2>1, <2>2, <2>3, RunsUnmatched
<1>10. CASE w.at = w.end /\ EndsRun(w, v)
  <2>1. HasRun(g, v) /\ \E T : v.units \in Seq(T)
    BY <1>2, <1>4, <1>10, RunsOut
  <2>2. v.finished = TRUE
    BY <1>10 DEF EndsRun
  <2>. QED
    BY <1>1, <2>1, <2>2 DEF ThreadOn
<1>. QED
  BY <1>1, <1>7, <1>8, <1>9, <1>10

(* What a unit of a thread that is through has taken away, and where the next
   one begins. *)
LEMMA RunUnits ==
  ASSUME NEW g, NEW w, HasRun(g, w), NEW S, w.units \in Seq(S), NEW m \in 1 .. Len(w.units),
         NEW a, a = EnteredAt(w.base, w.units, m)
  PROVE  /\ UnitOn(g, w.base, a, w.units[m].symbols, w.units[m].start)
         /\ w.units[m].end \in Int
         /\ w.base + w.units[m].end - 1 \in 0 .. Len(text)
         /\ m # Len(w.units) => /\ EnteredAt(w.base, w.units, m + 1) = w.base + w.units[m].end - 1
                                /\ g[w.base + w.units[m].end - 1]
                                     = g[LeftAt(w.base, a, w.units[m].symbols)]
         /\ m = Len(w.units) => /\ w.base + w.units[m].end - 1 = w.end
                                /\ g[w.end] = Atop(g[LeftAt(w.base, a, w.units[m].symbols)], w.ss)
<1>1. PICK n \in Nat : n = Len(w.units)
  BY LenProperties
<1>2. CASE m # n
  <2>1. m \in 1 .. n - 1 /\ m + 1 # 1 /\ (m + 1) - 1 = m
    BY <1>1, <1>2
  <2>2. ClosedOn(g, w.base, w.units, m)
    BY <1>1, <2>1 DEF HasRun
  <2>3. EnteredAt(w.base, w.units, m + 1) = w.base + w.units[m].end - 1
    BY <2>1 DEF EnteredAt
  <2>. QED
    BY <1>1, <1>2, <2>2, <2>3 DEF ClosedOn
<1>3. CASE m = n
  <2>1. /\ UnitOn(g, w.base, a, w.units[m].symbols, w.units[m].start)
        /\ w.units[m].end = w.end - w.base + 1
        /\ w.base \in Nat /\ w.end \in Nat /\ w.end <= Len(text)
        /\ g[w.end] = Atop(g[LeftAt(w.base, a, w.units[m].symbols)], w.ss)
    BY <1>1, <1>3 DEF HasRun
  <2>2. w.units[m].end \in Int /\ w.base + w.units[m].end - 1 = w.end
    BY <2>1
  <2>3. w.end \in 0 .. Len(text)
    <3>1. PICK e : e = Len(text)
      OBVIOUS
    <3>2. PICK u : u = w.end
      OBVIOUS
    <3>. QED
      BY <2>1
  <2>. QED
    BY <1>1, <1>3, <2>1, <2>2, <2>3
<1>. QED
  BY <1>2, <1>3

-----------------------------------------------------------------------------
(***************************************************************************)
(* What combine replays.                                                   *)
(***************************************************************************)
(* Nodes and tuples are not on the syntax stack. *)
LEMMA TurnedNode ==
  ASSUME NEW w, NEW x, NEW s, NEW h, NEW u, Turned(w, x, s, h, u), NEW node,
         NEW y, y = SetNode(x, node)
  PROVE  Turned(w, y, s, h, u)
<1>1. PICK e : y = [x EXCEPT !.levels = e]
  BY Zenon DEF SetNode, MapCurrent
<1>. QED
  BY <1>1, TurnedAside

LEMMA TurnedEmit ==
  ASSUME NEW w, NEW x, NEW s, NEW h, NEW u, Turned(w, x, s, h, u), NEW node, NEW t,
         NEW y, y = Emit(x, node, t)
  PROVE  Turned(w, y, s, h, u)
<1>1. PICK e : y = [x EXCEPT !.out = e]
  BY Zenon DEF Emit, AddTuples
<1>. QED
  BY <1>1, TurnedAside

(* The symbol below the top. *)
LEMMA SecondIs ==
  ASSUME NEW w, w.ss \in Seq(Symbols), w.ss # <<>>, Len(w.ss) # 1
  PROVE  SecondTop(w) = w.ss[Len(w.ss) - 1]
<1>1. Len(w.ss) > 1
  BY LengthCases
<1>. QED
  BY <1>1 DEF SecondTop

(* An unmatched end of an object takes the object and its key away, *)
LEMMA ReplayedRCB ==
  ASSUME NEW s, NEW w, w = seq_wa, IsControl(w), w.ss # <<>>, NEW v, v = ReplayRCB(s)
  PROVE  Turned(w, v, Shortened(w.ss), w.shadow_ss, w.unit)
<1> DEFINE clear  == [c_node EXCEPT !.matched_start = INVALID]
           tuple  == Joined(c_node, s.index)
           emitted == Emit(seq_wa, c_node, tuple)
           cleared == SetNode(emitted, clear)
           done   == IF seq_wa.ss # <<>> /\ Pending(c_node) THEN cleared ELSE seq_wa
           member == MapCurrent(PopSyntax(done, 1), CountUp)
           marked == Emit(member, c_node, Mark(c_node.query_state, "}"))
<1>1. v = IF Len(seq_wa.ss) = 1 THEN PopSyntax(done, 1)
          ELSE IF SecondTop(seq_wa) = "KY" THEN PopLevels(PopSyntax(done, 2), 1)
          ELSE IF SecondTop(seq_wa) = "LB"
            THEN IF MatchedType(qa, c_node.query_state, c_node.count) = PREDICATE
                   THEN marked ELSE member
          ELSE done
  BY Zenon DEF ReplayRCB
<1>2. Turned(w, seq_wa, w.ss, w.shadow_ss, w.unit)
  BY TurnedSelf DEF IsControl
<1>3. PICK e : e = emitted
  OBVIOUS
<1>4. PICK z : z = cleared
  OBVIOUS
<1>5. Turned(w, e, w.ss, w.shadow_ss, w.unit)
  <2> HIDE DEF tuple
  <2>. QED
    BY <1>2, <1>3, TurnedEmit
<1>6. Turned(w, z, w.ss, w.shadow_ss, w.unit)
  <2> HIDE DEF emitted, clear
  <2>. QED
    BY <1>3, <1>4, <1>5, TurnedNode
<1>7. PICK d : d = done
  OBVIOUS
<1>8. Turned(w, d, w.ss, w.shadow_ss, w.unit)
  <2> HIDE DEF cleared
  <2>1. d = z \/ d = seq_wa
    BY <1>4, <1>7, Zenon
  <2>. QED
    BY <1>2, <1>6, <2>1
<1> HIDE DEF done
<1>9. PICK a : a = PopSyntax(d, 1)
  OBVIOUS
<1>10. Turned(w, a, Drop(w.ss, 1), w.shadow_ss, w.unit)
  BY <1>8, <1>9, TurnedPops
<1>11. PICK m : m = member
  OBVIOUS
<1>12. Turned(w, m, Drop(w.ss, 1), w.shadow_ss, w.unit)
  <2>1. m = MapCurrent(a, CountUp)
    BY <1>7, <1>9, <1>11
  <2>. QED
    BY <1>10, <2>1, TurnedCount
<1> HIDE DEF member
<1>13. PICK r : r = marked
  OBVIOUS
<1>14. Turned(w, r, Drop(w.ss, 1), w.shadow_ss, w.unit)
  <2>1. PICK t : t = Mark(c_node.query_state, "}")
    OBVIOUS
  <2>2. r = Emit(m, c_node, t)
    BY <1>11, <1>13, <2>1
  <2>. QED
    BY <1>12, <2>2, TurnedEmit
<1> HIDE DEF marked
<1>15. PICK b : b = PopSyntax(d, 2)
  OBVIOUS
<1>16. PICK c : c = PopLevels(b, 1)
  OBVIOUS
<1>17. Turned(w, c, Drop(w.ss, 2), w.shadow_ss, w.unit)
  <2>1. Turned(w, b, Drop(w.ss, 2), w.shadow_ss, w.unit)
    BY <1>8, <1>15, TurnedPops
  <2>. QED
    BY <1>16, <2>1, TurnedPops
<1>18. v = IF Len(w.ss) = 1 THEN a
           ELSE IF SecondTop(w) = "KY" THEN c
           ELSE IF SecondTop(w) = "LB"
             THEN IF MatchedType(qa, c_node.query_state, c_node.count) = PREDICATE
                    THEN r ELSE m
           ELSE d
  BY <1>1, <1>7, <1>9, <1>11, <1>13, <1>15, <1>16, Zenon
<1>19. w.ss \in Seq(Symbols)
  BY DEF IsControl
<1>20. CASE Len(w.ss) = 1
  BY <1>10, <1>18, <1>20 DEF Shortened
<1>21. CASE Len(w.ss) # 1
  <2>1. SecondTop(w) = w.ss[Len(w.ss) - 1]
    BY <1>19, <1>21, SecondIs
  <2>2. CASE SecondTop(w) = "KY"
    BY <1>17, <1>18, <1>21, <2>1, <2>2 DEF Shortened
  <2>3. CASE SecondTop(w) = "LB"
    <3>1. v = r \/ v = m
      BY <1>18, <1>21, <2>3
    <3>2. Shortened(w.ss) = Drop(w.ss, 1)
      BY <1>21, <2>1, <2>3 DEF Shortened
    <3>. QED
      BY <1>12, <1>14, <3>1, <3>2
  <2>4. CASE SecondTop(w) # "KY" /\ SecondTop(w) # "LB"
    BY <1>8, <1>18, <1>21, <2>1, <2>4 DEF Shortened
  <2>. QED
    BY <2>2, <2>3, <2>4
<1>. QED
  BY <1>20, <1>21

(* that of an array the array and its key. *)
LEMMA ReplayedRB ==
  ASSUME NEW s, NEW w, w = seq_wa, IsControl(w), w.ss # <<>>, NEW v, v = ReplayRB(s)
  PROVE  Turned(w, v, Shortened(w.ss), w.shadow_ss, w.unit)
<1> DEFINE array  == seq_wa.levels[Len(seq_wa.levels) - 1][1]
           clear  == [c_node EXCEPT !.matched_start = INVALID]
           tuple  == Joined(array, s.index)
           emitted == Emit(seq_wa, c_node, tuple)
           cleared == SetNode(emitted, clear)
           done   == IF seq_wa.ss # <<>> /\ Pending(array) THEN cleared ELSE seq_wa
           popped == PopLevels(PopSyntax(done, 1), 1)
           element == MapCurrent(popped, CountUp)
<1>1. v = IF Len(seq_wa.ss) = 1 THEN popped
          ELSE IF SecondTop(seq_wa) = "KY" THEN PopLevels(PopSyntax(done, 2), 2)
          ELSE IF SecondTop(seq_wa) = "LB" THEN element
          ELSE done
  BY Zenon DEF ReplayRB
<1>2. Turned(w, seq_wa, w.ss, w.shadow_ss, w.unit)
  BY TurnedSelf DEF IsControl
<1>3. PICK e : e = emitted
  OBVIOUS
<1>4. PICK z : z = cleared
  OBVIOUS
<1>5. Turned(w, e, w.ss, w.shadow_ss, w.unit)
  <2> HIDE DEF tuple
  <2>. QED
    BY <1>2, <1>3, TurnedEmit
<1>6. Turned(w, z, w.ss, w.shadow_ss, w.unit)
  <2> HIDE DEF emitted, clear
  <2>. QED
    BY <1>3, <1>4, <1>5, TurnedNode
<1>7. PICK d : d = done
  OBVIOUS
<1>8. Turned(w, d, w.ss, w.shadow_ss, w.unit)
  <2> HIDE DEF cleared, array
  <2>1. d = z \/ d = seq_wa
    BY <1>4, <1>7, Zenon
  <2>. QED
    BY <1>2, <1>6, <2>1
<1> HIDE DEF done
<1>9. PICK a : a = PopSyntax(d, 1)
  OBVIOUS
<1>10. Turned(w, a, Drop(w.ss, 1), w.shadow_ss, w.unit)
  BY <1>8, <1>9, TurnedPops
<1>11. PICK m : m = popped
  OBVIOUS
<1>12. Turned(w, m, Drop(w.ss, 1), w.shadow_ss, w.unit)
  <2>1. m = PopLevels(a, 1)
    BY <1>7, <1>9, <1>11
  <2>. QED
    BY <1>10, <2>1, TurnedPops
<1> HIDE DEF popped
<1>13. PICK r : r = element
  OBVIOUS
<1>14. Turned(w, r, Drop(w.ss, 1), w.shadow_ss, w.unit)
  <2>1. r = MapCurrent(m, CountUp)
    BY <1>11, <1>13
  <2>. QED
    BY <1>12, <2>1, TurnedCount
<1> HIDE DEF element
<1>15. PICK b : b = PopSyntax(d, 2)
  OBVIOUS
<1>16. PICK c : c = PopLevels(b, 2)
  OBVIOUS
<1>17. Turned(w, c, Drop(w.ss, 2), w.shadow_ss, w.unit)
  <2>1. Turned(w, b, Drop(w.ss, 2), w.shadow_ss, w.unit)
    BY <1>8, <1>15, TurnedPops
  <2>. QED
    BY <1>16, <2>1, TurnedPops
<1>18. v = IF Len(w.ss) = 1 THEN m
           ELSE IF SecondTop(w) = "KY" THEN c
           ELSE IF SecondTop(w) = "LB" THEN r
           ELSE d
  BY <1>1, <1>7, <1>9, <1>11, <1>13, <1>15, <1>16, Zenon
<1>19. w.ss \in Seq(Symbols)
  BY DEF IsControl
<1>20. CASE Len(w.ss) = 1
  BY <1>12, <1>18, <1>20 DEF Shortened
<1>21. CASE Len(w.ss) # 1
  <2>1. SecondTop(w) = w.ss[Len(w.ss) - 1]
    BY <1>19, <1>21, SecondIs
  <2>2. CASE SecondTop(w) = "KY"
    BY <1>17, <1>18, <1>21, <2>1, <2>2 DEF Shortened
  <2>3. CASE SecondTop(w) = "LB"
    BY <1>14, <1>18, <1>21, <2>1, <2>3 DEF Shortened
  <2>4. CASE SecondTop(w) # "KY" /\ SecondTop(w) # "LB"
    BY <1>8, <1>18, <1>21, <2>1, <2>4 DEF Shortened
  <2>. QED
    BY <2>2, <2>3, <2>4
<1>. QED
  BY <1>20, <1>21

-----------------------------------------------------------------------------
(***************************************************************************)
(* combine goes through the units of a thread.                             *)
(***************************************************************************)
(* combine has the stack s in front of the n-th symbol of the m-th unit of a
   thread; behind the last unit it misses only what the thread has left open. *)
Splices(g, w, s, m, n) ==
  /\ m \in 1 .. Len(w.units) + 1 /\ n \in Nat \ {0}
  /\ m <= Len(w.units) =>
       /\ n <= Len(w.units[m].symbols) + 1
       /\ s = g[PlaceOf(w.base, EnteredAt(w.base, w.units, m), w.units[m].symbols, n - 1)]
  /\ m = Len(w.units) + 1 => g[w.end] = Atop(s, w.ss)

(* A thread that is through. *)
HasEnded(g, w) == HasRun(g, w) /\ \E S : w.units \in Seq(S)

(* In front of the first unit, the stack is the one the chunk was entered with. *)
LEMMA SplicesFirst ==
  ASSUME NEW g, NEW w, HasEnded(g, w), NEW m, m = 1, NEW s, s = g[w.base]
  PROVE  Splices(g, w, s, m, m)
<1>1. PICK l \in Nat : l = Len(w.units) /\ l >= 1
  BY LenProperties DEF HasEnded, HasRun
<1>2. PICK S : w.units \in Seq(S)
  BY DEF HasEnded
<1>3. PICK a : a = EnteredAt(w.base, w.units, m)
  OBVIOUS
<1>4. a = w.base
  BY <1>3 DEF EnteredAt
<1>5. PICK syms : syms = w.units[m].symbols
  OBVIOUS
<1>6. UnitOn(g, w.base, a, syms, w.units[m].start)
  <2>1. m \in 1 .. Len(w.units) /\ HasRun(g, w)
    BY <1>1 DEF HasEnded
  <2>. QED
    BY <1>2, <1>3, <1>5, <2>1, RunUnits
<1>7. Len(syms) \in Nat
  BY <1>6, LenProperties DEF UnitOn
<1>8. PlaceOf(w.base, a, syms, m - 1) = w.base
  BY <1>4 DEF PlaceOf
<1>. QED
  BY <1>1, <1>3, <1>5, <1>7, <1>8 DEF Splices

(* A symbol takes away a container, and its key. *)
LEMMA SplicesSymbol ==
  ASSUME NEW g, Stacked(g), Len(text) \in Nat, NEW w, HasEnded(g, w), NEW s, NEW m, NEW n,
         Splices(g, w, s, m, n), m <= Len(w.units), n <= Len(w.units[m].symbols),
         NEW r, r = Shortened(s), NEW n1, n1 = n + 1
  PROVE  /\ s \in Seq(Symbols) /\ s # <<>> /\ w.units[m].symbols[n].type \in {"RCB", "RB"}
         /\ r \in Seq(Symbols) /\ Splices(g, w, r, m, n1)
<1>1. PICK l \in Nat : l = Len(w.units)
  BY LenProperties DEF HasEnded
<1>2. PICK S : w.units \in Seq(S)
  BY DEF HasEnded
<1>3. PICK a : a = EnteredAt(w.base, w.units, m)
  OBVIOUS
<1>4. PICK syms : syms = w.units[m].symbols
  OBVIOUS
<1>5. m \in 1 .. l /\ n \in Nat \ {0} /\ n <= Len(syms)
  BY <1>1, <1>4 DEF Splices
<1>6. UnitOn(g, w.base, a, syms, w.units[m].start)
  <2>1. m \in 1 .. Len(w.units) /\ HasRun(g, w)
    BY <1>1, <1>5 DEF HasEnded
  <2>. QED
    BY <1>2, <1>3, <1>4, <2>1, RunUnits
<1>7. PICK e \in Nat : e = Len(syms)
  BY <1>6, LenProperties DEF UnitOn
<1>8. n \in 1 .. e /\ n - 1 \in 0 .. e /\ n \in 0 .. e
  BY <1>5, <1>7
<1>9. PICK p, q : p = PlaceOf(w.base, a, syms, n - 1) /\ q = PlaceOf(w.base, a, syms, n)
  OBVIOUS
<1>10. s = g[p]
  BY <1>1, <1>3, <1>4, <1>5, <1>9 DEF Splices
<1>11. PICK t : t = syms[n].type
  OBVIOUS
<1>12. t \in {"RCB", "RB"} /\ SyntaxStep(t, s, g[q])
  <2>1. syms[n] \in ClosingSymbol
    BY <1>6, <1>7, <1>8, ElementOfSeq DEF UnitOn
  <2>2. SyntaxStep(syms[n].type, g[p], g[q])
    BY <1>6, <1>7, <1>8, <1>9 DEF UnitOn
  <2>. QED
    BY <1>10, <1>11, <2>1, <2>2 DEF ClosingSymbol
<1>13. p \in 0 .. Len(text) /\ q \in 0 .. Len(text)
  BY <1>6, <1>7, <1>8, <1>9 DEF UnitOn
<1>14. s \in Seq(Symbols) /\ WellNested(s) /\ g[q] \in Seq(Symbols)
  BY <1>10, <1>13 DEF Stacked
<1>15. s # <<>> /\ Last(s) \in {"LCB", "LB"} /\ g[q] = ValueOver(Front(s))
  BY <1>12 DEF SyntaxStep
<1>16. r = g[q]
  <2>1. PICK o : o = <<>>
    OBVIOUS
  <2>2. o \in Seq(Symbols) /\ Atop(o, s) = s
    BY <1>14, <2>1, NothingAtop
  <2>3. WellNested(Atop(o, s))
    BY <1>14, <2>2
  <2>4. Shortened(s) = ValueOver(Front(s))
    BY <1>14, <1>15, <2>2, <2>3, ShortenedIs
  <2>. QED
    BY <1>15, <2>4
<1>17. n1 - 1 = n /\ n1 \in Nat \ {0} /\ n1 <= e + 1
  BY <1>8
<1>18. Splices(g, w, r, m, n1)
  <2>1. r = g[PlaceOf(w.base, a, syms, n1 - 1)]
    BY <1>9, <1>16, <1>17
  <2>. QED
    BY <1>1, <1>3, <1>4, <1>5, <1>7, <1>17, <2>1 DEF Splices
<1>. QED
  BY <1>4, <1>11, <1>12, <1>14, <1>15, <1>16, <1>18

(* Behind its last symbol, the stack is the one the unit was read on. *)
LEMMA SplicesUnit ==
  ASSUME NEW g, NEW w, HasEnded(g, w), NEW s, NEW m, NEW n,
         Splices(g, w, s, m, n), m <= Len(w.units), n > Len(w.units[m].symbols),
         NEW a, a = EnteredAt(w.base, w.units, m)
  PROVE  s = g[LeftAt(w.base, a, w.units[m].symbols)]
<1>1. PICK l \in Nat : l = Len(w.units)
  BY LenProperties DEF HasEnded
<1>2. PICK S : w.units \in Seq(S)
  BY DEF HasEnded
<1>3. PICK syms : syms = w.units[m].symbols
  OBVIOUS
<1>4. m \in 1 .. l /\ n \in Nat \ {0} /\ n > Len(syms)
  BY <1>1, <1>3 DEF Splices
<1>5. UnitOn(g, w.base, a, syms, w.units[m].start)
  <2>1. m \in 1 .. Len(w.units) /\ HasRun(g, w)
    BY <1>1, <1>4 DEF HasEnded
  <2>. QED
    BY <1>2, <1>3, <2>1, RunUnits
<1>6. PICK e \in Nat : e = Len(syms)
  BY <1>5, LenProperties DEF UnitOn
<1>7. /\ n <= e + 1
      /\ s = g[PlaceOf(w.base, a, syms, n - 1)]
  BY <1>1, <1>3, <1>4, <1>6 DEF Splices
<1>8. n - 1 = e
  BY <1>4, <1>6, <1>7
<1>. QED
  BY <1>3, <1>6, <1>7, <1>8 DEF LeftAt

(* Past the unit, whether it is collected or was read again. *)
LEMMA SplicesNext ==
  ASSUME NEW g, NEW w, HasEnded(g, w), NEW m \in 1 .. Len(w.units), NEW s,
         \/ s = g[LeftAt(w.base, EnteredAt(w.base, w.units, m), w.units[m].symbols)]
         \/ m # Len(w.units) /\ s = g[w.base + w.units[m].end - 1],
         NEW m1, m1 = m + 1, NEW n1, n1 = 1
  PROVE  Splices(g, w, s, m1, n1)
<1>1. PICK l \in Nat : l = Len(w.units)
  BY LenProperties DEF HasEnded
<1>2. PICK S : w.units \in Seq(S)
  BY DEF HasEnded
<1>3. PICK a : a = EnteredAt(w.base, w.units, m)
  OBVIOUS
<1>4. HasRun(g, w)
  BY DEF HasEnded
<1>5. CASE m = l
  <2>1. g[w.end] = Atop(g[LeftAt(w.base, a, w.units[m].symbols)], w.ss)
    BY <1>1, <1>2, <1>3, <1>4, <1>5, RunUnits
  <2>2. g[w.end] = Atop(s, w.ss)
    BY <1>1, <1>3, <1>5, <2>1
  <2>3. m1 \in 1 .. l + 1 /\ ~(m1 <= l) /\ n1 \in Nat \ {0}
    BY <1>1, <1>5
  <2>. QED
    BY <1>1, <2>2, <2>3 DEF Splices
<1>6. CASE m # l
  <2>1. /\ EnteredAt(w.base, w.units, m + 1) = w.base + w.units[m].end - 1
        /\ g[w.base + w.units[m].end - 1] = g[LeftAt(w.base, a, w.units[m].symbols)]
    BY <1>1, <1>2, <1>3, <1>4, <1>6, RunUnits
  <2>2. m1 \in 1 .. l /\ n1 \in Nat \ {0}
    BY <1>1, <1>6
  <2>3. PICK b, syms : b = EnteredAt(w.base, w.units, m1) /\ syms = w.units[m1].symbols
    OBVIOUS
  <2>4. s = g[b]
    BY <1>3, <2>1, <2>3
  <2>5. UnitOn(g, w.base, b, syms, w.units[m1].start)
    <3>1. m1 \in 1 .. Len(w.units)
      BY <1>1, <2>2
    <3>. QED
      BY <1>2, <1>4, <2>3, <3>1, RunUnits
  <2>6. Len(syms) \in Nat
    BY <2>5, LenProperties DEF UnitOn
  <2>7. PlaceOf(w.base, b, syms, n1 - 1) = b
    BY DEF PlaceOf
  <2>8. m1 # l + 1 /\ m1 \in 1 .. l + 1 /\ n1 <= Len(syms) + 1
    BY <2>2, <2>6
  <2>. QED
    BY <1>1, <2>2, <2>3, <2>4, <2>7, <2>8 DEF Splices
<1>. QED
  BY <1>5, <1>6
=============================================================================
