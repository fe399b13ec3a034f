----------------------- MODULE PredicateFilterProofs ------------------------
(***************************************************************************)
(* Between two outermost elements the filter of predicate.c keeps nothing, *)
(* for every query automaton, every file and every way to cut it.  The     *)
(* proof follows the tuples: which elements are open behind each of them,  *)
(* that the filter's stack is in step with those however many tuples it    *)
(* had, and that all it keeps belongs to an element on that stack.  What   *)
(* it decides comes after that.                                            *)
(***************************************************************************)
EXTENDS PredicateFilter, SequenceTheorems, DataInduction, TLAPS

-----------------------------------------------------------------------------
(* The elements around the tuples.                                         *)

(* The marks, by name: SMT cannot read them. *)
Begins == "{"
Ends   == "}"
Plain  == ""

(* The marks are three. *)
LEMMA MarksDiffer == Begins # Ends /\ Begins # "" /\ Ends # ""
BY Zenon DEF Begins, Ends

LEMMA PlainDiffers == Plain # Begins /\ Plain # Ends
BY Zenon DEF Plain, Begins, Ends

(* Tuples are a sequence, of whatever set. *)
Listed(s) == \E S : s \in Seq(S)

(* The state of the innermost of the elements e, by their tuples in l. *)
StateIn(l, e) == IF e = <<>> THEN 1 ELSE l[Last(e)].state

(* Tuple n of l, between the elements that are open before and after it. *)
Fits(a, l, before, after, n) ==
  /\ l[n].at = n /\ l[n].around = before
  /\ \/ /\ l[n].mark = Begins /\ after = Append(before, n)
        /\ l[n].state \in PredicatesOf(a) /\ l[n].state \in Within(a, StateIn(l, before))
     \/ /\ l[n].mark = Ends /\ before # <<>> /\ after = Front(before)
     \/ /\ l[n].mark = "" /\ after = before
        /\ l[n].state \in Within(a, StateIn(l, before))
        /\ a.accept[l[n].state] \in {OUTPUT_CANDIDATE, CONDITION}

(* A[n] are the elements open behind the first n tuples of l. *)
Nests(a, l, A) ==
  /\ Listed(l)
  /\ A \in [0 .. Len(l) -> Seq(Nat)]
  /\ A[0] = <<>>
  /\ \A n \in 1 .. Len(l) : Fits(a, l, A[n-1], A[n], n)

(* The elements that ended in the first n tuples of l. *)
EndedBy(l, n) == {Last(l[m].around) : m \in {i \in 1 .. n : l[i].mark = Ends}}

(* What this says of the open elements behind n tuples: every "{" is open or
   ended, and an element that is open was so ever since it began, in the same
   place. *)
Nesting(l, A, n) ==
  /\ \A i \in 1 .. Len(A[n]) :
       /\ A[n][i] \in 1 .. n
       /\ l[A[n][i]].mark = Begins
       /\ A[n][i] \notin EndedBy(l, n)
       /\ \A j \in 1 .. Len(A[n]) : i < j => A[n][i] < A[n][j]
       /\ \A m \in A[n][i] .. n : i <= Len(A[m]) /\ A[m][i] = A[n][i]
  /\ \A m \in 1 .. n : l[m].mark = Begins =>
       m \in EndedBy(l, n) \/ \E i \in 1 .. Len(A[n]) : A[n][i] = m
  /\ EndedBy(l, n) \subseteq 1 .. n

(* An element ends with a "}" and with nothing else. *)
LEMMA EndedOfMore ==
  ASSUME NEW l, NEW n \in Nat, NEW k \in Nat, k = n + 1
  PROVE  EndedBy(l, k) = IF l[k].mark = Ends THEN EndedBy(l, n) \union {Last(l[k].around)}
                                            ELSE EndedBy(l, n)
<1>1. \A i : i \in 1 .. k <=> i \in 1 .. n \/ i = k
  OBVIOUS
<1>2. CASE l[k].mark = Ends
  BY <1>1, <1>2, Zenon DEF EndedBy
<1>3. CASE l[k].mark # Ends
  <2>1. {i \in 1 .. k : l[i].mark = Ends} = {i \in 1 .. n : l[i].mark = Ends}
    BY <1>1, <1>3
  <2> QED
    BY <1>3, <2>1, Zenon DEF EndedBy
<1> QED
  BY <1>2, <1>3

(* The nesting goes on from tuple to tuple. *)
LEMMA NestingOfMore ==
  ASSUME NEW a, NEW l, NEW A, Nests(a, l, A), NEW n \in Nat, n < Len(l), Nesting(l, A, n)
  PROVE  Nesting(l, A, n + 1)
<1>1. PICK N \in Nat : N = Len(l)
  BY DEF Nests, Listed
<1>2. PICK k \in Nat : k = n + 1 /\ k - 1 = n /\ k \in 1 .. N
  BY <1>1
<1>3. PICK b \in Seq(Nat), d \in Seq(Nat) : b = A[n] /\ d = A[k]
  <2>1. n \in 0 .. Len(l) /\ k \in 0 .. Len(l)
    BY <1>1, <1>2
  <2> QED
    BY <2>1 DEF Nests
<1>4. Fits(a, l, b, d, k)
  BY <1>1, <1>2, <1>3 DEF Nests
<1>5. /\ \A i \in 1 .. Len(b) :
           /\ b[i] \in 1 .. n /\ l[b[i]].mark = Begins /\ b[i] \notin EndedBy(l, n)
           /\ \A j \in 1 .. Len(b) : i < j => b[i] < b[j]
           /\ \A m \in b[i] .. n : i <= Len(A[m]) /\ A[m][i] = b[i]
      /\ \A m \in 1 .. n : l[m].mark = Begins =>
           m \in EndedBy(l, n) \/ \E i \in 1 .. Len(b) : b[i] = m
      /\ EndedBy(l, n) \subseteq 1 .. n
  BY <1>3 DEF Nesting
<1>6. Len(b) \in Nat /\ Len(d) \in Nat
  OBVIOUS
<1>7. CASE l[k].mark = Begins
  <2>1. d = Append(b, k)
    BY <1>4, <1>7, MarksDiffer DEF Fits
  <2>2. PICK p \in Nat : p = Len(b)
    OBVIOUS
  <2>3. Len(d) = p + 1 /\ d[p + 1] = k /\ \A i \in 1 .. p : d[i] = b[i]
    BY <2>1, <2>2, AppendProperties
  <2>4. EndedBy(l, k) = EndedBy(l, n)
    BY <1>2, <1>7, MarksDiffer, EndedOfMore
  <2>5. ASSUME NEW i \in 1 .. Len(d)
        PROVE  /\ d[i] \in 1 .. k /\ l[d[i]].mark = Begins /\ d[i] \notin EndedBy(l, k)
               /\ \A j \in 1 .. Len(d) : i < j => d[i] < d[j]
               /\ \A m \in d[i] .. k : i <= Len(A[m]) /\ A[m][i] = d[i]
    <3>1. CASE i = p + 1
      BY <1>2, <1>3, <1>5, <1>7, <2>3, <2>4, <3>1
    <3>2. CASE i # p + 1
      <4>1. i \in 1 .. p /\ i \in 1 .. Len(b) /\ d[i] = b[i]
        BY <2>2, <2>3, <3>2
      <4>2. \A j \in 1 .. Len(d) : i < j => d[i] < d[j]
        <5> SUFFICES ASSUME NEW j \in 1 .. Len(d), i < j PROVE d[i] < d[j]
          OBVIOUS
        <5>1. CASE j = p + 1
          BY <1>2, <1>5, <2>3, <4>1, <5>1
        <5>2. CASE j # p + 1
          <6>0. j \in 1 .. p + 1
            BY <2>3
          <6>1. j \in 1 .. p
            BY <5>2, <6>0
          <6> QED
            BY <1>5, <2>2, <2>3, <4>1, <6>1
        <5> QED
          BY <5>1, <5>2
      <4>3. \A m \in d[i] .. k : i <= Len(A[m]) /\ A[m][i] = d[i]
        <5> SUFFICES ASSUME NEW m \in d[i] .. k PROVE i <= Len(A[m]) /\ A[m][i] = d[i]
          OBVIOUS
        <5>1. CASE m = k
          BY <1>3, <2>3, <4>1, <5>1
        <5>2. CASE m # k
          <6>1. m \in b[i] .. n
            BY <1>2, <1>5, <4>1, <5>2
          <6> QED
            BY <1>5, <4>1, <6>1
        <5> QED
          BY <5>1, <5>2
      <4> QED
        BY <1>2, <1>5, <2>4, <4>1, <4>2, <4>3
    <3> QED
      BY <3>1, <3>2
  <2>6. ASSUME NEW m \in 1 .. k, l[m].mark = Begins
        PROVE  m \in EndedBy(l, k) \/ \E i \in 1 .. Len(d) : d[i] = m
    <3>1. CASE m = k
      <4>1. p + 1 \in 1 .. Len(d)
        BY <2>2, <2>3
      <4> QED
        BY <2>3, <3>1, <4>1
    <3>2. CASE m # k
      <4>1. m \in 1 .. n
        BY <1>2, <3>2
      <4>2. \A i \in 1 .. Len(b) : i \in 1 .. Len(d) /\ d[i] = b[i]
        BY <2>2, <2>3
      <4> QED
        BY <1>5, <2>4, <2>6, <4>1, <4>2
    <3> QED
      BY <3>1, <3>2
  <2>7. EndedBy(l, k) \subseteq 1 .. k
    BY <1>2, <1>5, <2>4
  <2> QED
    BY <1>2, <1>3, <2>5, <2>6, <2>7 DEF Nesting
<1>8. CASE l[k].mark = Ends
  <2>1. b # <<>> /\ d = Front(b) /\ l[k].around = b
    BY <1>4, <1>8, MarksDiffer DEF Fits
  <2>2. PICK p \in Nat \ {0} : p = Len(b)
    BY <2>1, EmptySeq
  <2>3. Len(d) = p - 1 /\ Last(b) = b[p] /\ \A i \in 1 .. p - 1 : d[i] = b[i]
    BY <2>1, <2>2, FrontFacts
  <2>4. EndedBy(l, k) = EndedBy(l, n) \union {b[p]}
    BY <1>2, <1>8, <2>1, <2>3, EndedOfMore
  <2>5. ASSUME NEW i \in 1 .. Len(d)
        PROVE  /\ d[i] \in 1 .. k /\ l[d[i]].mark = Begins /\ d[i] \notin EndedBy(l, k)
               /\ \A j \in 1 .. Len(d) : i < j => d[i] < d[j]
               /\ \A m \in d[i] .. k : i <= Len(A[m]) /\ A[m][i] = d[i]
    <3>0. i \in 1 .. p - 1 /\ Len(d) = p - 1
      BY <2>3
    <3>1. i \in 1 .. p - 1 /\ i \in 1 .. Len(b) /\ p \in 1 .. Len(b) /\ i < p /\ d[i] = b[i]
      BY <2>2, <2>3, <3>0
    <3>2. b[i] # b[p]
      <4>1. b[i] < b[p] /\ b[i] \in 1 .. n /\ b[p] \in 1 .. n
        BY <1>5, <3>1
      <4> QED
        BY <4>1
    <3>3. \A j \in 1 .. Len(d) : i < j => d[i] < d[j]
      <4> SUFFICES ASSUME NEW j \in 1 .. Len(d), i < j PROVE d[i] < d[j]
        OBVIOUS
      <4>1. j \in 1 .. p - 1 /\ j \in 1 .. Len(b)
        BY <2>2, <2>3
      <4> QED
        BY <1>5, <2>3, <3>1, <4>1
    <3>4. \A m \in d[i] .. k : i <= Len(A[m]) /\ A[m][i] = d[i]
      <4> SUFFICES ASSUME NEW m \in d[i] .. k PROVE i <= Len(A[m]) /\ A[m][i] = d[i]
        OBVIOUS
      <4>1. CASE m = k
        BY <1>3, <4>1
      <4>2. CASE m # k
        <5>1. m \in b[i] .. n
          BY <1>2, <1>5, <3>1, <4>2
        <5> QED
          BY <1>5, <3>1, <5>1
      <4> QED
        BY <4>1, <4>2
    <3>5. d[i] \in 1 .. k /\ l[d[i]].mark = Begins
      BY <1>2, <1>5, <3>1
    <3>6. d[i] \notin EndedBy(l, k)
      BY <1>5, <2>4, <3>1, <3>2
    <3> QED
      BY <3>3, <3>4, <3>5, <3>6
  <2>6. ASSUME NEW m \in 1 .. k, l[m].mark = Begins
        PROVE  m \in EndedBy(l, k) \/ \E i \in 1 .. Len(d) : d[i] = m
    <3>0. m # k
      BY <1>8, <2>6, MarksDiffer
    <3>1. m \in 1 .. n
      BY <1>2, <3>0
    <3>2. CASE m \in EndedBy(l, n)
      BY <2>4, <3>2
    <3>3. CASE m \notin EndedBy(l, n)
      <4>1. PICK i \in 1 .. Len(b) : b[i] = m
        BY <1>5, <2>6, <3>1, <3>3
      <4>2. CASE i = p
        BY <2>4, <4>1, <4>2
      <4>3. CASE i # p
        <5>1. i \in 1 .. p - 1 /\ i \in 1 .. Len(d)
          BY <2>2, <2>3, <4>3
        <5> QED
          BY <2>3, <4>1, <5>1
      <4> QED
        BY <4>2, <4>3
    <3> QED
      BY <3>2, <3>3
  <2>7. EndedBy(l, k) \subseteq 1 .. k
    <3>1. b[p] \in 1 .. n /\ EndedBy(l, n) \subseteq 1 .. n
      BY <1>5, <2>2
    <3>2. \A i \in 1 .. n : i \in 1 .. k
      BY <1>2
    <3>3. \A i \in EndedBy(l, k) : i \in 1 .. n
      BY <2>4, <3>1
    <3> QED
      BY <3>2, <3>3
  <2> QED
    BY <1>2, <1>3, <2>5, <2>6, <2>7 DEF Nesting
<1>9. CASE l[k].mark = ""
  <2>1. d = b
    BY <1>4, <1>9, MarksDiffer DEF Fits
  <2>2. EndedBy(l, k) = EndedBy(l, n)
    BY <1>2, <1>9, MarksDiffer, EndedOfMore
  <2>3. ASSUME NEW i \in 1 .. Len(d)
        PROVE  /\ d[i] \in 1 .. k /\ l[d[i]].mark = Begins /\ d[i] \notin EndedBy(l, k)
               /\ \A j \in 1 .. Len(d) : i < j => d[i] < d[j]
               /\ \A m \in d[i] .. k : i <= Len(A[m]) /\ A[m][i] = d[i]
    <3>1. \A m \in d[i] .. k : i <= Len(A[m]) /\ A[m][i] = d[i]
      <4> SUFFICES ASSUME NEW m \in d[i] .. k PROVE i <= Len(A[m]) /\ A[m][i] = d[i]
        OBVIOUS
      <4>1. CASE m = k
        BY <1>3, <4>1
      <4>2. CASE m # k
        <5>1. m \in b[i] .. n
          BY <1>2, <1>5, <2>1, <4>2
        <5> QED
          BY <1>5, <2>1, <5>1
      <4> QED
        BY <4>1, <4>2
    <3> QED
      BY <1>2, <1>5, <2>1, <2>2, <3>1
  <2>4. ASSUME NEW m \in 1 .. k, l[m].mark = Begins
        PROVE  m \in EndedBy(l, k) \/ \E i \in 1 .. Len(d) : d[i] = m
    <3>0. m # k
      BY <1>9, <2>4, MarksDiffer
    <3>1. m \in 1 .. n
      BY <1>2, <3>0
    <3> QED
      BY <1>5, <2>1, <2>2, <2>4, <3>1
  <2>5. EndedBy(l, k) \subseteq 1 .. k
    BY <1>2, <1>5, <2>2
  <2> QED
    BY <1>2, <1>3, <2>3, <2>4, <2>5 DEF Nesting
<1> QED
  BY <1>4, <1>7, <1>8, <1>9 DEF Fits

(* So it holds behind every tuple. *)
LEMMA NestingHolds ==
  ASSUME NEW a, NEW l, NEW A, Nests(a, l, A)
  PROVE  \A n \in 0 .. Len(l) : Nesting(l, A, n)
<1> DEFINE T == {n \in 0 .. Len(l) : Nesting(l, A, n)}
<1>1. Len(l) \in Nat
  BY DEF Nests, Listed
<1>2. 0 \in T
  <2>1. A[0] = <<>> /\ Len(<<>>) = 0 /\ 0 \in 0 .. Len(l)
    BY <1>1 DEF Nests
  <2>2. EndedBy(l, 0) = {}
    BY DEF EndedBy
  <2>3. Nesting(l, A, 0)
    BY <2>1, <2>2 DEF Nesting
  <2> QED
    BY <2>1, <2>3
<1>3. ASSUME NEW n \in Nat, n < Len(l), n \in T PROVE n + 1 \in T
  <2>1. Nesting(l, A, n + 1)
    BY <1>3, NestingOfMore
  <2> QED
    BY <1>1, <1>3, <2>1
<1>4. 0 .. Len(l) \subseteq T
  <2> HIDE DEF T
  <2> QED
    BY <1>1, <1>2, <1>3, BoundedInduction
<1> QED
  BY <1>4

-----------------------------------------------------------------------------
(* What a tuple does to the state of the filter.                           *)

(* The conditions of predicate p, all without a value. *)
ClearedIn(c, p) == [name \in NamesIn(c, p) |-> NULL]

(* An entry of the stack of the filter. *)
Marker(a) == [predicate_state : PredicatesOf(a), output_buffer_pointer : Nat]

(* The shape of the state of the filter. *)
IsFilter(a, pf) ==
  /\ pf = [pstack |-> pf.pstack, predicate_conditions |-> pf.predicate_conditions,
           buffer |-> pf.buffer, output |-> pf.output]
  /\ pf.pstack \in Seq(Marker(a))
  /\ pf.predicate_conditions = [p \in PredicatesOf(a) |-> pf.predicate_conditions[p]]
  /\ pf.buffer \in Seq(Nat)
  /\ pf.output \in Seq(Nat)

(* The filter's stack stands for the open elements; the candidates it removes
   with an element are behind those of the elements around. *)
Shaped(a, c, l, open, pf) ==
  /\ IsFilter(a, pf)
  /\ Len(pf.pstack) = Len(open)
  /\ \A i \in 1 .. Len(open) :
       /\ pf.pstack[i].predicate_state = l[open[i]].state
       /\ pf.pstack[i].output_buffer_pointer <= Len(pf.buffer)
       /\ \A j \in 1 .. Len(open) : i < j =>
            pf.pstack[i].output_buffer_pointer <= pf.pstack[j].output_buffer_pointer
  /\ IF open = <<>> THEN pf.buffer = <<>> ELSE pf.pstack[1].output_buffer_pointer = 0
  /\ \A p \in PredicatesOf(a) : pf.predicate_conditions[p] # ClearedIn(c, p) =>
       \E i \in 1 .. Len(open) : l[open[i]].state = p

(* What the end of an element of predicate p is decided by. *)
Holds(c, pf, p) == evaluateExpression(c.subtree[p], pf.predicate_conditions[p])

(* What the steps of the filter make of it. *)
LEMMA BeginFields ==
  ASSUME NEW pf, NEW t, IsFilter(qa, pf), t.state \in Predicates
  PROVE  /\ IsFilter(qa, BeginElement(pf, t))
         /\ BeginElement(pf, t).pstack
              = Append(pf.pstack, [predicate_state |-> t.state,
                                   output_buffer_pointer |-> Len(pf.buffer)])
         /\ BeginElement(pf, t).predicate_conditions = pf.predicate_conditions
         /\ BeginElement(pf, t).buffer = pf.buffer
         /\ BeginElement(pf, t).output = pf.output
<1> DEFINE m == [predicate_state |-> t.state, output_buffer_pointer |-> Len(pf.buffer)]
           s == Append(pf.pstack, m)
           r == BeginElement(pf, t)
<1>1. s \in Seq(Marker(qa))
  <2>1. Len(pf.buffer) \in Nat
    BY DEF IsFilter
  <2>2. m \in Marker(qa)
    BY <2>1 DEF Marker, Predicates
  <2> HIDE DEF m
  <2> QED
    BY <2>2, AppendProperties DEF IsFilter
<1>2. r = [pstack |-> s, predicate_conditions |-> pf.predicate_conditions,
           buffer |-> pf.buffer, output |-> pf.output]
  <2> DEFINE ps == pf.pstack
             pc == pf.predicate_conditions
             b  == pf.buffer
             o  == pf.output
  <2>1. pf = [pstack |-> ps, predicate_conditions |-> pc, buffer |-> b, output |-> o]
    BY DEF IsFilter
  <2> HIDE DEF ps, pc, b, o
  <2>2. r = [pf EXCEPT !.pstack = Append(@, m)]
    BY Zenon DEF BeginElement
  <2>3. r = [pf EXCEPT !.pstack = s]
    BY <2>2
  <2> HIDE DEF s, m, r
  <2>4. r = [pstack |-> s, predicate_conditions |-> pc, buffer |-> b, output |-> o]
    BY <2>1, <2>3
  <2> QED
    BY <2>4 DEF pc, b, o
<1> HIDE DEF r, s
<1>3. r.pstack = s /\ r.predicate_conditions = pf.predicate_conditions
      /\ r.buffer = pf.buffer /\ r.output = pf.output
  BY <1>2
<1> QED
  BY <1>1, <1>2, <1>3 DEF IsFilter, r, s

(* The end of an element, field by field. *)
LEMMA EndFields ==
  ASSUME NEW pf, IsFilter(qa, pf), pf.pstack # <<>>,
         NEW p, p = Last(pf.pstack).predicate_state,
         NEW first, first = Last(pf.pstack).output_buffer_pointer
  PROVE  /\ EndElement(pf) =
              [pstack |-> Front(pf.pstack),
               predicate_conditions |-> [pf.predicate_conditions EXCEPT ![p] = ClearedIn(ctx, p)],
               buffer |-> IF Holds(ctx, pf, p) /\ Len(pf.pstack) # 1 THEN pf.buffer
                          ELSE SubSeq(pf.buffer, 1, first),
               output |-> IF Holds(ctx, pf, p) /\ Len(pf.pstack) = 1
                            THEN pf.output \o SubSeq(pf.buffer, first + 1, Len(pf.buffer))
                            ELSE pf.output]
         /\ p \in Predicates /\ first \in Nat
<1> DEFINE ps == pf.pstack
           pc == pf.predicate_conditions
           b  == pf.buffer
           o  == pf.output
           f  == Front(ps)
           cl == Cleared(p)
           h  == evaluateExpression(ctx.subtree[p], pc[p])
           one == Len(ps) = 1
           rest == SubSeq(b, 1, first)
           out == o \o SubSeq(b, first + 1, Len(b))
<1>1. pf = [pstack |-> ps, predicate_conditions |-> pc, buffer |-> b, output |-> o]
  BY DEF IsFilter
<1>2. EndElement(pf) =
        [pf EXCEPT !.output = IF h /\ one THEN out ELSE @,
                   !.buffer = IF h /\ ~one THEN @ ELSE rest,
                   !.predicate_conditions[p] = cl,
                   !.pstack = f]
  <2>1. EndElement(pf) =
        [pf EXCEPT !.output = IF h /\ one THEN @ \o SubSeq(b, first + 1, Len(b)) ELSE @,
                   !.buffer = IF h /\ ~one THEN @ ELSE SubSeq(@, 1, first),
                   !.predicate_conditions[p] = cl,
                   !.pstack = Front(@)]
    BY Zenon DEF EndElement
  <2> QED
    BY <2>1
<1>3. cl = ClearedIn(ctx, p)
  BY DEF Cleared, conditions, ClearedIn
<1>4. Last(pf.pstack) \in Marker(qa)
  BY FrontFacts DEF IsFilter
<1>5. p \in Predicates /\ first \in Nat
  BY <1>4 DEF Marker, Predicates
<1> HIDE DEF ps, pc, b, o, f, cl, h, one, rest, out
<1>6. EndElement(pf) =
        [pstack |-> f, predicate_conditions |-> [pc EXCEPT ![p] = cl],
         buffer |-> IF h /\ ~one THEN b ELSE rest,
         output |-> IF h /\ one THEN out ELSE o]
  BY <1>1, <1>2
<1>7. EndElement(pf) =
        [pstack |-> f, predicate_conditions |-> [pc EXCEPT ![p] = ClearedIn(ctx, p)],
         buffer |-> IF h /\ ~one THEN b ELSE rest,
         output |-> IF h /\ one THEN out ELSE o]
  BY <1>3, <1>6
<1> USE DEF ps, pc, b, o, f, h, one, rest, out
<1> QED
  BY <1>5, <1>7, Zenon DEF Holds

LEMMA MadeFilter ==
  ASSUME NEW a, NEW s \in Seq(Marker(a)), NEW pc, pc = [q \in PredicatesOf(a) |-> pc[q]],
         NEW b \in Seq(Nat), NEW o \in Seq(Nat)
  PROVE  IsFilter(a, [pstack |-> s, predicate_conditions |-> pc, buffer |-> b, output |-> o])
BY DEF IsFilter

LEMMA EndIsFilter ==
  ASSUME NEW pf, IsFilter(qa, pf), pf.pstack # <<>>,
         Last(pf.pstack).output_buffer_pointer <= Len(pf.buffer)
  PROVE  IsFilter(qa, EndElement(pf))
<1>1. PICK p, first : /\ p = Last(pf.pstack).predicate_state
                      /\ first = Last(pf.pstack).output_buffer_pointer
  OBVIOUS
<1> DEFINE f == Front(pf.pstack)
           pc == [pf.predicate_conditions EXCEPT ![p] = ClearedIn(ctx, p)]
           b == IF Holds(ctx, pf, p) /\ Len(pf.pstack) # 1 THEN pf.buffer
                ELSE SubSeq(pf.buffer, 1, first)
           o == IF Holds(ctx, pf, p) /\ Len(pf.pstack) = 1
                  THEN pf.output \o SubSeq(pf.buffer, first + 1, Len(pf.buffer))
                  ELSE pf.output
<1>2. /\ EndElement(pf) = [pstack |-> f, predicate_conditions |-> pc, buffer |-> b, output |-> o]
      /\ p \in Predicates /\ first \in Nat
  BY <1>1, EndFields
<1>3. f \in Seq(Marker(qa))
  BY FrontFacts DEF IsFilter
<1>4. pf.buffer \in Seq(Nat) /\ pf.output \in Seq(Nat) /\ Len(pf.buffer) \in Nat
  BY DEF IsFilter
<1>4a. \A i \in 1 .. Len(pf.buffer) : pf.buffer[i] \in Nat
  BY <1>4, ElementOfSeq
<1>5. SubSeq(pf.buffer, 1, first) \in Seq(Nat)
  <2>0. first <= Len(pf.buffer) /\ first \in Nat
    BY <1>1, <1>2
  <2>1. \A i \in 1 .. first : pf.buffer[i] \in Nat
    BY <1>4, <1>4a, <2>0
  <2> QED
    BY <1>2, <2>1, SubSeqProperties
<1>6. SubSeq(pf.buffer, first + 1, Len(pf.buffer)) \in Seq(Nat)
  <2>1. \A i \in first + 1 .. Len(pf.buffer) : pf.buffer[i] \in Nat
    BY <1>2, <1>4, <1>4a
  <2> QED
    BY <1>2, <1>4, <2>1, SubSeqProperties
<1>7. b \in Seq(Nat)
  BY <1>4, <1>5
<1>8. o \in Seq(Nat)
  BY <1>4, <1>6, ConcatProperties
<1>9. pc = [q \in PredicatesOf(qa) |-> pc[q]]
  BY <1>2 DEF IsFilter, Predicates
<1> HIDE DEF f, pc, b, o
<1> QED
  BY <1>2, <1>3, <1>7, <1>8, <1>9 DEF IsFilter

(* A text inside an element, field by field. *)
LEMMA ReadFields ==
  ASSUME NEW pf, NEW t, IsFilter(qa, pf), pf.pstack # <<>>, t.at \in Nat,
         NEW p, p = Last(pf.pstack).predicate_state,
         NEW name, name = ctx.subtree[t.state][1].name
  PROVE  /\ IsFilter(qa, ReadText(pf, t)) /\ p \in Predicates
         /\ ReadText(pf, t).pstack = pf.pstack
         /\ ReadText(pf, t).output = pf.output
         /\ IF IsCondition(p, t.state)
              THEN /\ ReadText(pf, t).buffer = pf.buffer
                   /\ ReadText(pf, t).predicate_conditions
                        = [pf.predicate_conditions EXCEPT ![p] =
                             [pf.predicate_conditions[p] EXCEPT ![name] = t.text]]
              ELSE /\ ReadText(pf, t).buffer = Append(pf.buffer, t.at)
                   /\ ReadText(pf, t).predicate_conditions = pf.predicate_conditions
<1> DEFINE ps == pf.pstack
           pc == pf.predicate_conditions
           b  == pf.buffer
           o  == pf.output
           x  == t.text
           y  == t.at
           is == IsCondition(p, t.state)
           r  == ReadText(pf, t)
<1>1. pf = [pstack |-> ps, predicate_conditions |-> pc, buffer |-> b, output |-> o]
  BY DEF IsFilter
<1>2. r = IF is THEN [pf EXCEPT !.predicate_conditions[p][name] = x]
                ELSE [pf EXCEPT !.buffer = Append(@, y)]
  BY Zenon DEF ReadText
<1>3. Last(pf.pstack) \in Marker(qa)
  BY FrontFacts DEF IsFilter
<1>4. p \in Predicates
  BY <1>3 DEF Marker, Predicates
<1>5. pc = [q \in PredicatesOf(qa) |-> pc[q]] /\ p \in PredicatesOf(qa)
  BY <1>4 DEF IsFilter, Predicates
<1>6. Append(b, y) \in Seq(Nat) /\ b \in Seq(Nat) /\ o \in Seq(Nat) /\ ps \in Seq(Marker(qa))
  BY AppendProperties DEF IsFilter
<1> HIDE DEF ps, pc, b, o, x, y, is, r
<1>7. is => r = [pstack |-> ps, predicate_conditions |-> [pc EXCEPT ![p] = [pc[p] EXCEPT ![name] = x]],
                 buffer |-> b, output |-> o]
  BY <1>1, <1>2
<1>8. ~is => r = [pstack |-> ps, predicate_conditions |-> pc,
                  buffer |-> Append(b, y), output |-> o]
  BY <1>1, <1>2
<1>9. [pc EXCEPT ![p] = [pc[p] EXCEPT ![name] = x]]
        = [q \in PredicatesOf(qa) |-> [pc EXCEPT ![p] = [pc[p] EXCEPT ![name] = x]][q]]
  BY <1>5
<1>10. IsFilter(qa, r)
  <2>1. CASE is
    <3> DEFINE npc == [pc EXCEPT ![p] = [pc[p] EXCEPT ![name] = x]]
    <3>1. npc = [q \in PredicatesOf(qa) |-> npc[q]]
      BY <1>9
    <3>2. r = [pstack |-> ps, predicate_conditions |-> npc, buffer |-> b, output |-> o]
      BY <1>7, <2>1
    <3> HIDE DEF npc
    <3> QED
      BY <1>6, <3>1, <3>2, MadeFilter
  <2>2. CASE ~is
    <3> DEFINE nb == Append(b, y)
    <3>1. nb \in Seq(Nat)
      BY <1>6
    <3>2. r = [pstack |-> ps, predicate_conditions |-> pc, buffer |-> nb, output |-> o]
      BY <1>8, <2>2
    <3> HIDE DEF nb
    <3> QED
      BY <1>5, <1>6, <3>1, <3>2, MadeFilter
  <2> QED
    BY <2>1, <2>2
<1>11. /\ r.pstack = ps /\ r.output = o
       /\ IF is THEN /\ r.buffer = b
                     /\ r.predicate_conditions = [pc EXCEPT ![p] = [pc[p] EXCEPT ![name] = x]]
                ELSE r.buffer = Append(b, y) /\ r.predicate_conditions = pc
  BY <1>7, <1>8
<1> USE DEF ps, pc, b, o, x, y, is, r
<1> QED
  BY <1>4, <1>10, <1>11

(* The open elements a step of the filter is between. *)
LEMMA StepsBetween ==
  ASSUME NEW a, NEW l, NEW A, Nests(a, l, A), NEW k \in Nat, k < Len(l)
  PROVE  /\ Fits(a, l, A[k], A[k + 1], k + 1)
         /\ A[k] \in Seq(Nat) /\ A[k + 1] \in Seq(Nat)
         /\ Nesting(l, A, k) /\ Nesting(l, A, k + 1)
<1>1. Len(l) \in Nat
  BY DEF Nests, Listed
<1>2. k \in 0 .. Len(l) /\ k + 1 \in 0 .. Len(l) /\ k + 1 \in 1 .. Len(l) /\ (k + 1) - 1 = k
  BY <1>1
<1>3. Nesting(l, A, k) /\ Nesting(l, A, k + 1)
  BY <1>2, NestingHolds
<1>4. Fits(a, l, A[k], A[k + 1], k + 1)
  <2>1. Fits(a, l, A[(k + 1) - 1], A[k + 1], k + 1)
    BY <1>2 DEF Nests
  <2> QED
    BY <1>2, <2>1
<1> QED
  BY <1>2, <1>3, <1>4 DEF Nests

(* The three cases of a tuple. *)
LEMMA TupleCases ==
  ASSUME NEW pf, NEW t
  PROVE  filterTuple(pf, t) = IF t.mark = Begins THEN BeginElement(pf, t)
                              ELSE IF t.mark = Ends THEN EndElement(pf)
                              ELSE ReadText(pf, t)
<1>1. CASE t.mark = Begins
  BY <1>1, Zenon DEF filterTuple, Begins
<1>2. CASE t.mark = Ends
  <2>1. t.mark # "{"
    BY <1>2, MarksDiffer, Zenon DEF Begins
  <2>2. t.mark = "}"
    BY <1>2, Zenon DEF Ends
  <2>3. filterTuple(pf, t) = EndElement(pf)
    BY <2>1, <2>2, Zenon DEF filterTuple
  <2> QED
    BY <1>2, <2>3, MarksDiffer, Zenon
<1>3. CASE t.mark # Begins /\ t.mark # Ends
  BY <1>3, Zenon DEF filterTuple, Begins, Ends
<1> QED
  BY <1>1, <1>2, <1>3, Zenon

(* A tuple keeps the stack of the filter in step with the open elements. *)
LEMMA ShapedStep ==
  ASSUME NEW l, NEW A, Nests(qa, l, A), NEW k \in Nat, k < Len(l),
         NEW pf, Shaped(qa, ctx, l, A[k], pf)
  PROVE  Shaped(qa, ctx, l, A[k + 1], filterTuple(pf, l[k + 1]))
<1>1. PICK e \in Nat, b \in Seq(Nat), d \in Seq(Nat) :
        e = k + 1 /\ b = A[k] /\ d = A[e]
  <2>1. A[k] \in Seq(Nat) /\ A[k + 1] \in Seq(Nat) /\ k + 1 \in Nat
    BY StepsBetween
  <2> QED
    BY <2>1
<1>2. Fits(qa, l, b, d, e) /\ Nesting(l, A, k) /\ Nesting(l, A, e)
  BY <1>1, StepsBetween
<1>3. PICK t, g : t = l[e] /\ g = filterTuple(pf, t)
  OBVIOUS
<1>4. PICK s \in Seq(Marker(qa)), p \in Nat : s = pf.pstack /\ p = Len(s)
  BY DEF Shaped, IsFilter
<1>5. /\ IsFilter(qa, pf) /\ Len(b) = p
      /\ \A i \in 1 .. p :
           /\ s[i].predicate_state = l[b[i]].state
           /\ s[i].output_buffer_pointer <= Len(pf.buffer)
           /\ \A j \in 1 .. p : i < j => s[i].output_buffer_pointer <= s[j].output_buffer_pointer
      /\ IF b = <<>> THEN pf.buffer = <<>> ELSE s[1].output_buffer_pointer = 0
      /\ \A q \in PredicatesOf(qa) : pf.predicate_conditions[q] # ClearedIn(ctx, q) =>
           \E i \in 1 .. p : l[b[i]].state = q
  BY <1>1, <1>4 DEF Shaped
<1>6. /\ Len(pf.buffer) \in Nat /\ pf.buffer \in Seq(Nat)
      /\ \A i \in 1 .. p : s[i].output_buffer_pointer \in Nat
  <2>1. \A i \in 1 .. p : s[i] \in Marker(qa)
    BY <1>4, ElementOfSeq
  <2> QED
    BY <1>5, <2>1 DEF IsFilter, Marker
<1>7. CASE t.mark = Begins
  <2>1. d = Append(b, e) /\ t.state \in Predicates
    BY <1>2, <1>3, <1>7, MarksDiffer DEF Fits, Predicates
  <2>2. g = BeginElement(pf, t)
    BY <1>3, <1>7, TupleCases
  <2>3. PICK m : m = [predicate_state |-> t.state, output_buffer_pointer |-> Len(pf.buffer)]
    OBVIOUS
  <2>4. /\ IsFilter(qa, g) /\ g.pstack = Append(s, m)
        /\ g.predicate_conditions = pf.predicate_conditions /\ g.buffer = pf.buffer
    BY <1>4, <1>5, <2>1, <2>2, <2>3, BeginFields
  <2>5. Len(d) = p + 1 /\ d[p + 1] = e /\ \A i \in 1 .. p : d[i] = b[i]
    BY <1>1, <1>5, <2>1, AppendProperties
  <2>6. m \in Marker(qa)
    BY <1>6, <2>1, <2>3 DEF Marker, Predicates
  <2>7. PICK r \in Seq(Marker(qa)) : r = g.pstack
    BY <2>4, <2>6, AppendProperties
  <2>8. Len(r) = p + 1 /\ r[p + 1] = m /\ \A i \in 1 .. p : r[i] = s[i]
    BY <1>4, <2>4, <2>6, <2>7, AppendProperties
  <2>9. ASSUME NEW i \in 1 .. p + 1
        PROVE  /\ r[i].predicate_state = l[d[i]].state
               /\ r[i].output_buffer_pointer <= Len(g.buffer)
               /\ \A j \in 1 .. p + 1 : i < j =>
                    r[i].output_buffer_pointer <= r[j].output_buffer_pointer
    <3>1. CASE i = p + 1
      <4>1. r[i] = m /\ d[i] = e /\ l[e] = t
        BY <1>3, <2>5, <2>8, <3>1
      <4>2. m.predicate_state = t.state /\ m.output_buffer_pointer = Len(pf.buffer)
        BY <2>3
      <4>3. ~ \E j \in 1 .. p + 1 : i < j
        BY <3>1
      <4>4. m.output_buffer_pointer <= Len(g.buffer)
        BY <1>6, <2>4, <4>2
      <4>5. r[i].predicate_state = l[d[i]].state
        BY <4>1, <4>2
      <4>6. r[i].output_buffer_pointer <= Len(g.buffer)
        BY <4>1, <4>4
      <4> QED
        BY <4>3, <4>5, <4>6
    <3>2. CASE i # p + 1
      <4>1. i \in 1 .. p
        BY <3>2
      <4>2. ASSUME NEW j \in 1 .. p + 1, i < j
            PROVE  r[i].output_buffer_pointer <= r[j].output_buffer_pointer
        <5>1. CASE j = p + 1
          <6>1. r[j] = m /\ r[i] = s[i] /\ m.output_buffer_pointer = Len(pf.buffer)
            BY <2>3, <2>8, <4>1, <5>1
          <6> QED
            BY <1>5, <4>1, <6>1
        <5>2. CASE j # p + 1
          <6>1. j \in 1 .. p
            BY <5>2
          <6> QED
            BY <1>5, <2>8, <4>1, <4>2, <6>1
        <5> QED
          BY <5>1, <5>2
      <4> QED
        BY <1>5, <2>4, <2>5, <2>8, <4>1, <4>2
    <3> QED
      BY <3>1, <3>2
  <2>10. d # <<>> /\ r[1].output_buffer_pointer = 0
    <3>1. CASE b = <<>>
      <4>1. p = 0 /\ pf.buffer = <<>>
        BY <1>5, <3>1
      <4> QED
        BY <2>1, <2>3, <2>8, <4>1
    <3>2. CASE b # <<>>
      <4>1. p # 0
        BY <1>5, <3>2, EmptySeq
      <4> QED
        <5>1. s[1].output_buffer_pointer = 0
          BY <1>5, <3>2
        <5>2. r[1] = s[1]
          BY <2>8, <4>1
        <5>3. d # <<>>
          BY <2>5
        <5> QED
          BY <5>1, <5>2, <5>3
    <3> QED
      BY <3>1, <3>2
  <2>11. \A q \in PredicatesOf(qa) : g.predicate_conditions[q] # ClearedIn(ctx, q) =>
           \E i \in 1 .. p + 1 : l[d[i]].state = q
    <3>1. \A i \in 1 .. p : i \in 1 .. p + 1 /\ d[i] = b[i]
      BY <2>5
    <3> QED
      BY <1>5, <2>4, <3>1
  <2> QED
    BY <1>1, <1>3, <2>4, <2>5, <2>7, <2>8, <2>9, <2>10, <2>11 DEF Shaped
<1>8. CASE t.mark = Ends
  <2>1. b # <<>> /\ d = Front(b)
    BY <1>2, <1>3, <1>8, MarksDiffer DEF Fits
  <2>2. g = EndElement(pf)
    BY <1>3, <1>8, MarksDiffer, TupleCases
  <2>3. p \in Nat \ {0} /\ s # <<>>
    BY <1>4, <1>5, <2>1, EmptySeq
  <2>4. PICK z, first : /\ z = Last(pf.pstack).predicate_state
                        /\ first = Last(pf.pstack).output_buffer_pointer
    OBVIOUS
  <2>5. /\ g.pstack = Front(s)
        /\ g.predicate_conditions = [pf.predicate_conditions EXCEPT ![z] = ClearedIn(ctx, z)]
        /\ g.buffer = IF Holds(ctx, pf, z) /\ p # 1 THEN pf.buffer
                      ELSE SubSeq(pf.buffer, 1, first)
        /\ z \in PredicatesOf(qa) /\ first \in Nat
    <3>1. pf.pstack # <<>> /\ Len(pf.pstack) = p
      BY <1>4, <2>3
    <3>2. /\ g = [pstack |-> Front(pf.pstack),
               predicate_conditions |-> [pf.predicate_conditions EXCEPT ![z] = ClearedIn(ctx, z)],
               buffer |-> IF Holds(ctx, pf, z) /\ Len(pf.pstack) # 1 THEN pf.buffer
                          ELSE SubSeq(pf.buffer, 1, first),
               output |-> IF Holds(ctx, pf, z) /\ Len(pf.pstack) = 1
                            THEN pf.output \o SubSeq(pf.buffer, first + 1, Len(pf.buffer))
                            ELSE pf.output]
          /\ z \in Predicates /\ first \in Nat
      BY <1>5, <2>2, <2>4, <3>1, EndFields
    <3> QED
      BY <1>4, <3>1, <3>2, Zenon DEF Predicates
  <2>6. Last(s) = s[p] /\ Len(Front(s)) = p - 1 /\ \A i \in 1 .. p - 1 : Front(s)[i] = s[i]
    BY <1>4, <2>3, FrontFacts
  <2>7. Len(d) = p - 1 /\ \A i \in 1 .. p - 1 : d[i] = b[i]
    <3>1. b \in Seq(Nat) /\ b # <<>> /\ Len(b) = p
      BY <1>5, <2>1
    <3> QED
      BY <2>1, <3>1, FrontFacts
  <2>8. first <= Len(pf.buffer) /\ z = l[b[p]].state
    BY <1>4, <1>5, <2>3, <2>4, <2>6
  <2>9. IsFilter(qa, g)
    BY <1>4, <1>5, <2>2, <2>3, <2>4, <2>8, EndIsFilter
  <2>10. Len(SubSeq(pf.buffer, 1, first)) = first
    <3>1. \A i \in 1 .. first : pf.buffer[i] \in Nat
      <4>1. \A i \in 1 .. first : i \in 1 .. Len(pf.buffer)
        BY <1>6, <2>5, <2>8
      <4> QED
        BY <1>6, <4>1, ElementOfSeq
    <3> QED
      BY <2>5, <3>1, SubSeqProperties
  <2>11. PICK r \in Seq(Marker(qa)) : r = g.pstack
    BY <2>9 DEF IsFilter
  <2>12. Len(r) = p - 1 /\ \A i \in 1 .. p - 1 : r[i] = s[i]
    BY <2>5, <2>6, <2>11
  <2>13. ASSUME NEW i \in 1 .. p - 1
         PROVE  /\ r[i].predicate_state = l[d[i]].state
                /\ r[i].output_buffer_pointer <= Len(g.buffer)
                /\ \A j \in 1 .. p - 1 : i < j =>
                     r[i].output_buffer_pointer <= r[j].output_buffer_pointer
    <3>1. i \in 1 .. p /\ p \in 1 .. p /\ i < p
      BY <2>3
    <3>2. r[i].output_buffer_pointer <= Len(g.buffer)
      <4>1. s[i].output_buffer_pointer <= Len(pf.buffer)
        BY <1>5, <3>1
      <4>2. s[i].output_buffer_pointer <= s[p].output_buffer_pointer
        BY <1>5, <3>1
      <4>3. first = s[p].output_buffer_pointer
        BY <1>4, <2>4, <2>6
      <4>4. CASE g.buffer = pf.buffer
        BY <2>12, <4>1, <4>4
      <4>5. CASE g.buffer = SubSeq(pf.buffer, 1, first)
        BY <2>10, <2>12, <4>2, <4>3, <4>5
      <4> QED
        BY <2>5, <4>4, <4>5
    <3>3. \A j \in 1 .. p - 1 : j \in 1 .. p
      BY <2>3
    <3> QED
      BY <1>5, <2>7, <2>12, <3>1, <3>2, <3>3
  <2>14. IF d = <<>> THEN g.buffer = <<>> ELSE r[1].output_buffer_pointer = 0
    <3>1. CASE p = 1
      <4>1. first = 0
        BY <1>4, <1>5, <2>1, <2>4, <2>6, <3>1
      <4>2. g.buffer = <<>>
        BY <1>6, <2>5, <3>1, <4>1, SubSeqEmpty
      <4>3. d = <<>>
        BY <1>1, <2>7, <3>1, EmptySeq
      <4> QED
        BY <4>2, <4>3
    <3>2. CASE p # 1
      <4>1. 1 \in 1 .. p - 1
        BY <2>3, <3>2
      <4>2. d # <<>>
        BY <2>7, <4>1
      <4> QED
        BY <1>5, <2>1, <2>12, <4>1, <4>2
    <3> QED
      BY <3>1, <3>2
  <2>15. ASSUME NEW q \in PredicatesOf(qa), g.predicate_conditions[q] # ClearedIn(ctx, q)
         PROVE  \E i \in 1 .. p - 1 : l[d[i]].state = q
    <3>1. q # z /\ pf.predicate_conditions[q] # ClearedIn(ctx, q)
      <4>1. pf.predicate_conditions = [x \in PredicatesOf(qa) |-> pf.predicate_conditions[x]]
        BY <1>5 DEF IsFilter
      <4> QED
        BY <2>5, <2>15, <4>1
    <3>2. PICK i \in 1 .. p : l[b[i]].state = q
      BY <1>5, <3>1
    <3>3. i # p
      BY <2>8, <3>1, <3>2
    <3>4. i \in 1 .. p - 1
      BY <3>3
    <3> QED
      BY <2>7, <3>2, <3>4
  <2> QED
    BY <1>1, <1>3, <2>7, <2>9, <2>11, <2>12, <2>13, <2>14, <2>15 DEF Shaped
<1>9. CASE t.mark = ""
  <2>1. d = b /\ t.at = e
    BY <1>2, <1>3, <1>9, MarksDiffer DEF Fits
  <2>2. g = ReadText(pf, t)
    BY <1>3, <1>9, MarksDiffer, TupleCases
  <2>3. CASE b = <<>>
    <3>1. s = <<>>
      BY <1>4, <1>5, <2>3, EmptySeq
    <3>2. g = pf
      BY <1>4, <2>2, <3>1, Zenon DEF ReadText
    <3> QED
      BY <1>1, <1>3, <2>1, <3>2 DEF Shaped
  <2>4. CASE b # <<>>
    <3>1. s # <<>> /\ p \in Nat \ {0}
      BY <1>4, <1>5, <2>4, EmptySeq
    <3>2. PICK z, name : z = Last(pf.pstack).predicate_state /\ name = ctx.subtree[t.state][1].name
      OBVIOUS
    <3>3. /\ IsFilter(qa, g) /\ z \in PredicatesOf(qa) /\ g.pstack = s
          /\ IF IsCondition(z, t.state)
               THEN /\ g.buffer = pf.buffer
                    /\ g.predicate_conditions
                         = [pf.predicate_conditions EXCEPT ![z] =
                              [pf.predicate_conditions[z] EXCEPT ![name] = t.text]]
               ELSE /\ g.buffer = Append(pf.buffer, e)
                    /\ g.predicate_conditions = pf.predicate_conditions
      <4>1. IsFilter(qa, pf) /\ pf.pstack # <<>> /\ t.at \in Nat
        BY <1>1, <1>4, <1>5, <2>1, <3>1
      <4>2. /\ IsFilter(qa, ReadText(pf, t)) /\ z \in Predicates
            /\ ReadText(pf, t).pstack = pf.pstack
            /\ IF IsCondition(z, t.state)
                 THEN /\ ReadText(pf, t).buffer = pf.buffer
                      /\ ReadText(pf, t).predicate_conditions
                           = [pf.predicate_conditions EXCEPT ![z] =
                                [pf.predicate_conditions[z] EXCEPT ![name] = t.text]]
                 ELSE /\ ReadText(pf, t).buffer = Append(pf.buffer, t.at)
                      /\ ReadText(pf, t).predicate_conditions = pf.predicate_conditions
        BY <3>2, <4>1, ReadFields
      <4> QED
        BY <1>4, <2>1, <2>2, <4>2, Zenon DEF Predicates
    <3>4. Len(pf.buffer) <= Len(g.buffer) /\ Len(g.buffer) \in Nat
      <4>1. Len(Append(pf.buffer, e)) = Len(pf.buffer) + 1
        BY <1>6, AppendProperties
      <4> QED
        BY <1>6, <3>3, <4>1
    <3>5. \A i \in 1 .. p : s[i].output_buffer_pointer <= Len(g.buffer)
      <4> SUFFICES ASSUME NEW i \in 1 .. p PROVE s[i].output_buffer_pointer <= Len(g.buffer)
        OBVIOUS
      <4>1. s[i].output_buffer_pointer <= Len(pf.buffer) /\ s[i].output_buffer_pointer \in Nat
        BY <1>5, <1>6
      <4> QED
        BY <1>6, <3>4, <4>1
    <3>6. z = l[b[p]].state
      <4>1. Last(s) = s[p]
        BY <1>4, <3>1, FrontFacts
      <4>2. p \in 1 .. p
        BY <3>1
      <4> QED
        BY <1>4, <1>5, <3>2, <4>1, <4>2
    <3>7. ASSUME NEW q \in PredicatesOf(qa), g.predicate_conditions[q] # ClearedIn(ctx, q)
          PROVE  \E i \in 1 .. p : l[b[i]].state = q
      <4>1. CASE q = z
        BY <3>1, <3>6, <4>1
      <4>2. CASE q # z
        <5>1. g.predicate_conditions[q] = pf.predicate_conditions[q]
          <6>1. pf.predicate_conditions = [x \in PredicatesOf(qa) |-> pf.predicate_conditions[x]]
            BY <1>5 DEF IsFilter
          <6> QED
            BY <3>3, <4>2, <6>1
        <5> QED
          BY <1>5, <3>7, <5>1
      <4> QED
        BY <4>1, <4>2
    <3> QED
      BY <1>1, <1>3, <1>4, <1>5, <2>1, <2>4, <3>3, <3>5, <3>7 DEF Shaped
  <2> QED
    BY <2>3, <2>4
<1> QED
  BY <1>2, <1>3, <1>7, <1>8, <1>9 DEF Fits

-----------------------------------------------------------------------------
(* A piece.                                                                *)

(* f[n] is the filter behind the first n tuples of tl. *)
Filters(f, pf, tl) ==
  f = [n \in 0 .. Len(tl) |-> IF n = 0 THEN pf
                              ELSE LET before == f[n-1] IN filterTuple(before, tl[n])]

(* The recursion of generateFinalOutput over the tuples of a piece has a
   solution, so that it can be followed tuple by tuple. *)
LEMMA FiltersExist ==
  ASSUME NEW pf, NEW tl, Len(tl) \in Nat
  PROVE  \E f : Filters(f, pf, tl)
<1> DEFINE Follows(f, m) == f = [n \in 0 .. m |-> IF n = 0 THEN pf ELSE filterTuple(f[n-1], tl[n])]
           P == {m \in Nat : \E f : Follows(f, m)}
<1>1. 0 \in P
  <2>1. Follows([n \in 0 .. 0 |-> pf], 0)
    OBVIOUS
  <2> HIDE DEF Follows
  <2> QED
    BY <2>1
<1>2. ASSUME NEW m \in Nat, m \in P PROVE m + 1 \in P
  <2>1. PICK f : Follows(f, m)
    BY <1>2
  <2>2. PICK k \in Nat : k = m + 1
    OBVIOUS
  <2>3. PICK v : v = filterTuple(f[m], tl[k])
    OBVIOUS
  <2> DEFINE h == [n \in 0 .. k |-> IF n = k THEN v ELSE f[n]]
  <2>4. ASSUME NEW n \in 0 .. k
        PROVE  h[n] = IF n = 0 THEN pf ELSE filterTuple(h[n-1], tl[n])
    <3>1. CASE n = k
      <4>1. h[n-1] = f[m] /\ n # 0 /\ h[n] = v
        BY <2>2, <3>1
      <4> QED
        BY <2>3, <3>1, <4>1
    <3>2. CASE n # k
      <4>0. n \in 0 .. m
        BY <2>2, <3>2
      <4>1. h[n] = f[n] /\ (n # 0 => h[n-1] = f[n-1])
        BY <2>2, <3>2
      <4>2. f[n] = IF n = 0 THEN pf ELSE filterTuple(f[n-1], tl[n])
        BY <2>1, <4>0
      <4> QED
        BY <4>1, <4>2
    <3> QED
      BY <3>1, <3>2
  <2>5. h = [n \in 0 .. k |-> h[n]]
    OBVIOUS
  <2>6. Follows(h, k)
    <3> HIDE DEF h
    <3> QED
      BY <2>4, <2>5
  <2> HIDE DEF Follows
  <2> QED
    BY <2>2, <2>6
<1>3. Len(tl) \in P
  <2> HIDE DEF P
  <2> QED
    BY <1>1, <1>2, SetInduction
<1>4. PICK f : Follows(f, Len(tl))
  <2> HIDE DEF Follows
  <2> QED
    BY <1>3
<1> QED
  BY <1>4, Zenon DEF Filters

(* g is the filter behind all of tl. *)
LeadsTo(f, pf, tl, g) ==
  /\ f[0] = pf /\ f[Len(tl)] = g
  /\ \A n \in 1 .. Len(tl) : f[n] = filterTuple(f[n-1], tl[n])

LEMMA FinalIsLast ==
  ASSUME NEW pf, NEW tl, Len(tl) \in Nat, Predicates # {}
  PROVE  \E f : LeadsTo(f, pf, tl, generateFinalOutput(pf, tl))
<1> DEFINE H == CHOOSE f : Filters(f, pf, tl)
<1>1. Filters(H, pf, tl)
  BY FiltersExist, Zenon
<1>2. generateFinalOutput(pf, tl) = H[Len(tl)]
  BY Zenon DEF generateFinalOutput, Filters
<1> HIDE DEF H
<1>3. PICK h : h = H
  OBVIOUS
<1>4. h = [n \in 0 .. Len(tl) |-> IF n = 0 THEN pf ELSE filterTuple(h[n-1], tl[n])]
  BY <1>1, <1>3, Zenon DEF Filters
<1>5. h[0] = pf
  BY <1>4
<1>6. \A n \in 1 .. Len(tl) : h[n] = filterTuple(h[n-1], tl[n])
  BY <1>4
<1> QED
  BY <1>2, <1>3, <1>5, <1>6 DEF LeadsTo

(* What Append does to a sequence of whatever set. *)
LEMMA AppendedTo ==
  ASSUME NEW l, Listed(l), NEW t
  PROVE  /\ Listed(Append(l, t))
         /\ Len(l) \in Nat /\ Len(Append(l, t)) = Len(l) + 1
         /\ Append(l, t)[Len(l) + 1] = t
         /\ \A i \in 1 .. Len(l) : Append(l, t)[i] = l[i]
<1>1. PICK S : l \in Seq(S)
  BY DEF Listed
<1>2. l \in Seq(S \union {t}) /\ t \in S \union {t}
  BY <1>1
<1>3. PICK T : l \in Seq(T) /\ t \in T
  BY <1>2
<1> QED
  BY <1>3, AppendProperties DEF Listed

(* The elements open behind one tuple more. *)
WithOpen(A, n, d) == [m \in 0 .. n + 1 |-> IF m = n + 1 THEN d ELSE A[m]]

(* A tuple that fits continues the nesting. *)
LEMMA NestsMore ==
  ASSUME NEW a, NEW l, NEW A, Nests(a, l, A), NEW t, NEW d \in Seq(Nat),
         NEW L, L = Append(l, t), Fits(a, L, A[Len(l)], d, Len(l) + 1)
  PROVE  Nests(a, L, WithOpen(A, Len(l), d))
<1>1. PICK N \in Nat : N = Len(l)
  BY DEF Nests, Listed
<1>2. Listed(L) /\ Len(L) = N + 1 /\ \A i \in 1 .. N : L[i] = l[i]
  BY <1>1, AppendedTo DEF Nests
<1>3. PICK B : B = WithOpen(A, N, d)
  OBVIOUS
<1>4. B = [m \in 0 .. N + 1 |-> IF m = N + 1 THEN d ELSE A[m]]
  BY <1>3 DEF WithOpen
<1>5. \A m \in 0 .. N : B[m] = A[m]
  BY <1>4
<1>6. B[N + 1] = d
  BY <1>4
<1>7. A \in [0 .. N -> Seq(Nat)] /\ A[0] = <<>>
  BY <1>1 DEF Nests
<1>8. B \in [0 .. Len(L) -> Seq(Nat)] /\ B[0] = <<>>
  BY <1>2, <1>4, <1>7
<1>9. ASSUME NEW n \in 1 .. Len(L) PROVE Fits(a, L, B[n-1], B[n], n)
  <2>1. CASE n = N + 1
    <3>1. n - 1 = N /\ N \in 0 .. N
      BY <2>1
    <3>2. B[n-1] = A[N] /\ B[n] = d
      BY <1>5, <1>6, <2>1, <3>1
    <3> QED
      BY <1>1, <2>1, <3>2
  <2>2. CASE n # N + 1
    <3>1. n \in 1 .. N /\ n - 1 \in 0 .. N /\ n \in 0 .. N
      BY <1>2, <2>2
    <3>2. B[n-1] = A[n-1] /\ B[n] = A[n] /\ L[n] = l[n]
      BY <1>2, <1>5, <3>1
    <3>3. Fits(a, l, A[n-1], A[n], n)
      BY <1>1, <3>1 DEF Nests
    <3>4. PICK b \in Seq(Nat) : b = A[n-1]
      BY <1>7, <3>1
    <3>5. b # <<>> => Last(b) \in 1 .. N
      <4> SUFFICES ASSUME b # <<>> PROVE Last(b) \in 1 .. N
        OBVIOUS
      <4>0. b \in Seq(Nat) /\ b # <<>>
        OBVIOUS
      <4>1. Last(b) = b[Len(b)] /\ Len(b) \in Nat \ {0} /\ Len(b) \in 1 .. Len(b)
        <5>1. Last(b) = b[Len(b)] /\ Len(b) \in Nat \ {0}
          BY <4>0, FrontFacts
        <5> QED
          BY <5>1
      <4>2. Nesting(l, A, n - 1)
        BY <1>1, <3>1, NestingHolds
      <4>3. b[Len(b)] \in 1 .. n - 1
        BY <3>4, <4>1, <4>2 DEF Nesting
      <4> QED
        BY <3>1, <4>1, <4>3
    <3>6. StateIn(L, b) = StateIn(l, b)
      BY <1>2, <3>5 DEF StateIn
    <3> QED
      BY <3>2, <3>3, <3>4, <3>6 DEF Fits
  <2> QED
    BY <2>1, <2>2
<1> QED
  BY <1>1, <1>2, <1>3, <1>8, <1>9 DEF Nests

(* Later tuples do not matter to the shape. *)
LEMMA ShapedMore ==
  ASSUME NEW a, NEW c, NEW l, NEW o \in Seq(Nat), NEW pf, Shaped(a, c, l, o, pf),
         NEW L, \A i \in 1 .. Len(o) : L[o[i]] = l[o[i]]
  PROVE  Shaped(a, c, L, o, pf)
BY DEF Shaped

(* Without predicates no element is ever open. *)
LEMMA NoneOpen ==
  ASSUME NEW a, NEW l, NEW A, Nests(a, l, A), PredicatesOf(a) = {}
  PROVE  \A k \in 0 .. Len(l) : A[k] = <<>>
<1> DEFINE P == {k \in 0 .. Len(l) : A[k] = <<>>}
<1>1. Len(l) \in Nat
  BY DEF Nests, Listed
<1>2. 0 \in P
  BY <1>1 DEF Nests
<1>3. ASSUME NEW k \in Nat, k < Len(l), k \in P PROVE k + 1 \in P
  <2>1. Fits(a, l, A[k], A[k+1], k + 1)
    BY <1>3, StepsBetween
  <2>2. A[k+1] = <<>>
    BY <1>3, <2>1 DEF Fits
  <2> QED
    BY <1>1, <1>3, <2>2
<1>4. 0 .. Len(l) \subseteq P
  <2> HIDE DEF P
  <2> QED
    BY <1>1, <1>2, <1>3, BoundedInduction
<1> QED
  BY <1>4

(* tl is what l has behind its first k tuples. *)
Rest(tl, l, k) ==
  /\ Listed(tl)
  /\ Len(tl) = Len(l) - k
  /\ \A j \in 1 .. Len(tl) : tl[j] = l[k + j]

(* The shape is kept by a whole piece. *)
LEMMA PieceShaped ==
  ASSUME NEW l, NEW A, Nests(qa, l, A), NEW k \in 0 .. Len(l), NEW tl, Rest(tl, l, k),
         NEW pf, Shaped(qa, ctx, l, A[k], pf)
  PROVE  Shaped(qa, ctx, l, A[Len(l)], generateFinalOutput(pf, tl))
<1>1. PICK N \in Nat : N = Len(l)
  BY DEF Nests, Listed
<1>2. PICK M \in Nat : M = Len(tl) /\ M = N - k /\ k \in Nat /\ k + M = N
  <2>1. k \in 0 .. N
    BY <1>1
  <2>2. Len(tl) = N - k
    BY <1>1 DEF Rest
  <2> QED
    BY <2>1, <2>2
<1>3. CASE Predicates # {}
  <2>0. PICK f : LeadsTo(f, pf, tl, generateFinalOutput(pf, tl))
    <3>1. Len(tl) \in Nat
      BY <1>2
    <3> QED
      BY <1>3, <3>1, FinalIsLast
  <2>1. /\ generateFinalOutput(pf, tl) = f[Len(tl)]
        /\ f[0] = pf
        /\ \A n \in 1 .. Len(tl) : f[n] = filterTuple(f[n-1], tl[n])
    BY <2>0 DEF LeadsTo
  <2> DEFINE P == {n \in 0 .. M : Shaped(qa, ctx, l, A[k + n], f[n])}
  <2>2. 0 \in P
    BY <1>2, <2>1
  <2>3. ASSUME NEW n \in Nat, n < M, n \in P PROVE n + 1 \in P
    <3>1. PICK e \in Nat : e = k + n
      BY <1>2
    <3>2. e < Len(l) /\ e + 1 = k + (n + 1) /\ n + 1 \in 1 .. M /\ (n + 1) - 1 = n
      BY <1>1, <1>2, <2>3, <3>1
    <3>3. Shaped(qa, ctx, l, A[e], f[n])
      BY <2>3, <3>1
    <3>4. Shaped(qa, ctx, l, A[e + 1], filterTuple(f[n], l[e + 1]))
      BY <3>2, <3>3, ShapedStep
    <3>5. f[n + 1] = filterTuple(f[n], l[e + 1])
      BY <1>2, <2>1, <3>2 DEF Rest
    <3> QED
      BY <3>2, <3>4, <3>5
  <2>4. 0 .. M \subseteq P
    <3> HIDE DEF P
    <3> QED
      BY <2>2, <2>3, BoundedInduction
  <2>5. M \in 0 .. M /\ k + M = Len(l)
    BY <1>1, <1>2
  <2> QED
    BY <1>2, <2>1, <2>4, <2>5
<1>4. CASE Predicates = {}
  <2>1. A[k] = <<>> /\ A[Len(l)] = <<>>
    BY <1>1, <1>4, NoneOpen DEF Predicates
  <2> DEFINE ps == pf.pstack
             pc == pf.predicate_conditions
             b  == pf.buffer
             o  == pf.output
             x  == [i \in DOMAIN tl |-> tl[i].at]
  <2>2. pf = [pstack |-> ps, predicate_conditions |-> pc, buffer |-> b, output |-> o]
    BY DEF Shaped, IsFilter
  <2>3. generateFinalOutput(pf, tl) = [pf EXCEPT !.output = o \o x]
    <3>1. generateFinalOutput(pf, tl) = [pf EXCEPT !.output = @ \o x]
      BY <1>4, Zenon DEF generateFinalOutput
    <3> QED
      BY <3>1
  <2>4. x \in Seq(Nat)
    <3>1. tl \in [1 .. M -> {tl[i] : i \in 1 .. M}] /\ DOMAIN tl = 1 .. M
      BY <1>2 DEF Rest, Listed
    <3>2. \A i \in 1 .. M : tl[i].at \in Nat
      <4> SUFFICES ASSUME NEW i \in 1 .. M PROVE tl[i].at \in Nat
        OBVIOUS
      <4>1. tl[i] = l[k + i] /\ k + i \in 1 .. Len(l)
        BY <1>1, <1>2 DEF Rest
      <4>2. l[k + i].at = k + i
        BY <4>1 DEF Nests, Fits
      <4> QED
        BY <4>1, <4>2
    <3>3. x = [i \in 1 .. M |-> tl[i].at]
      BY <3>1
    <3> HIDE DEF x
    <3>4. x \in [1 .. M -> Nat]
      BY <3>2, <3>3
    <3> QED
      BY <1>2, <3>4
  <2>5. ps \in Seq(Marker(qa)) /\ b \in Seq(Nat) /\ o \in Seq(Nat)
        /\ pc = [q \in PredicatesOf(qa) |-> pc[q]]
    BY DEF Shaped, IsFilter
  <2> HIDE DEF ps, pc, b, o, x
  <2>6. PICK y \in Seq(Nat) : y = o \o x
    BY <2>4, <2>5, ConcatProperties
  <2>7. PICK g : g = generateFinalOutput(pf, tl)
    OBVIOUS
  <2>8. g = [pstack |-> ps, predicate_conditions |-> pc, buffer |-> b, output |-> y]
    BY <2>2, <2>3, <2>6, <2>7
  <2>9. IsFilter(qa, g)
    BY <2>5, <2>8, MadeFilter
  <2>10. g.pstack = ps /\ g.predicate_conditions = pc /\ g.buffer = b
    BY <2>8
  <2>11. Shaped(qa, ctx, l, A[Len(l)], g)
    BY <2>1, <2>9, <2>10 DEF Shaped, ps, pc, b
  <2> QED
    BY <2>7, <2>11
<1> QED
  BY <1>3, <1>4

(* How the engine and the filter stand: l are the tuples, open the elements that
   are open, tl those the filter pf did not have yet. *)
Stands(a, c, l, A, h, open, tl, pf) ==
  /\ Nests(a, l, A) /\ A[Len(l)] = open
  /\ h \in 0 .. Len(l) /\ Rest(tl, l, h)
  /\ Shaped(a, c, l, A[h], pf)

(* With l instead, and what was open behind h tuples as it was. *)
StandsOn(a, c, l, o, h, open, tl, pf) ==
  \E A : Stands(a, c, l, A, h, open, tl, pf) /\ A[h] = o

(* A tuple of the engine leaves the filter where it stood. *)
LEMMA StandsMore ==
  ASSUME NEW a, NEW c, NEW l, NEW A, NEW h, NEW open, NEW tl, NEW pf,
         Stands(a, c, l, A, h, open, tl, pf),
         NEW t, NEW L, L = Append(l, t), NEW s, s = Append(tl, t),
         NEW d \in Seq(Nat), NEW n, n = Len(l) + 1, Fits(a, L, open, d, n)
  PROVE  StandsOn(a, c, L, A[h], h, d, s, pf)
<1>1. PICK N \in Nat : N = Len(l)
  BY DEF Stands, Nests, Listed
<1>2. Listed(l) /\ Listed(tl) /\ h \in 0 .. N /\ Len(tl) = N - h
      /\ \A j \in 1 .. Len(tl) : tl[j] = l[h + j]
  BY <1>1 DEF Stands, Nests, Rest
<1>3. /\ Len(L) = N + 1 /\ L[N + 1] = t /\ \A i \in 1 .. N : L[i] = l[i]
  BY <1>1, <1>2, AppendedTo
<1>4. PICK B : B = WithOpen(A, N, d)
  OBVIOUS
<1>5. Nests(a, L, B)
  <2>1. Nests(a, l, A) /\ A[N] = open /\ Fits(a, L, A[N], d, N + 1)
    BY <1>1 DEF Stands
  <2> QED
    BY <1>1, <1>4, <2>1, NestsMore
<1>6. B[N + 1] = d /\ B[h] = A[h]
  BY <1>2, <1>4 DEF WithOpen
<1>7. PICK M \in Nat : M = Len(tl) /\ M = N - h /\ h + M = N /\ h + (M + 1) = N + 1
  <2>1. h \in 0 .. N /\ Len(tl) = N - h
    BY <1>2
  <2> QED
    BY <2>1
<1>9. Listed(s) /\ Len(s) = M + 1 /\ s[M + 1] = t /\ \A j \in 1 .. M : s[j] = tl[j]
  <2>1. Listed(tl) /\ Len(tl) = M
    BY <1>2, <1>7
  <2>2. /\ Listed(s) /\ Len(s) = Len(tl) + 1 /\ s[Len(tl) + 1] = t
        /\ \A j \in 1 .. Len(tl) : s[j] = tl[j]
    BY <2>1, AppendedTo
  <2> QED
    BY <2>1, <2>2
<1>10. ASSUME NEW j \in 1 .. M + 1 PROVE s[j] = L[h + j]
  <2>1. CASE j = M + 1
    BY <1>3, <1>7, <1>9, <2>1
  <2>2. CASE j # M + 1
    <3>1. j \in 1 .. M /\ h + j \in 1 .. N
      BY <1>2, <1>7, <2>2
    <3> QED
      BY <1>2, <1>3, <1>7, <1>9, <3>1
  <2> QED
    BY <2>1, <2>2
<1>11. Rest(s, L, h)
  <2>1. Len(s) = Len(L) - h
    BY <1>2, <1>3, <1>7, <1>9
  <2> QED
    BY <1>9, <1>10, <2>1 DEF Rest
<1>12. Shaped(a, c, L, A[h], pf)
  <2>1. PICK o \in Seq(Nat) : o = A[h]
    BY <1>1, <1>2 DEF Stands, Nests
  <2>2. Nesting(l, A, h)
    BY <1>1, <1>2, NestingHolds DEF Stands
  <2>3. \A i \in 1 .. Len(o) : L[o[i]] = l[o[i]]
    BY <1>2, <1>3, <2>1, <2>2 DEF Nesting
  <2>4. Shaped(a, c, l, o, pf)
    BY <2>1 DEF Stands
  <2> QED
    BY <2>1, <2>3, <2>4, ShapedMore
<1>13. h \in 0 .. Len(L) /\ B[Len(L)] = d
  BY <1>2, <1>3, <1>6
<1>14. Stands(a, c, L, B, h, d, s, pf)
  BY <1>5, <1>6, <1>11, <1>12, <1>13 DEF Stands
<1> QED
  BY <1>6, <1>14 DEF StandsOn

LEMMA OpenElements ==
  ASSUME NEW a, NEW l, NEW A, Nests(a, l, A), NEW open, open = A[Len(l)]
  PROVE  /\ open \in Seq(Nat) /\ Len(l) \in Nat
         /\ open # <<>> => Last(open) \in 1 .. Len(l)
<1>1. Len(l) \in Nat /\ Len(l) \in 0 .. Len(l)
  BY DEF Nests, Listed
<1>2. open \in Seq(Nat)
  BY <1>1 DEF Nests
<1>3. ASSUME open # <<>> PROVE Last(open) \in 1 .. Len(l)
  <2>1. Last(open) = open[Len(open)] /\ Len(open) \in Nat \ {0}
    BY <1>2, <1>3, FrontFacts
  <2>2. Nesting(l, A, Len(l))
    BY <1>1, NestingHolds
  <2> QED
    BY <2>1, <2>2 DEF Nesting
<1> QED
  BY <1>1, <1>2, <1>3

-----------------------------------------------------------------------------
(* The inductive invariant.                                                *)

TheFilter == [pstack |-> pstack, predicate_conditions |-> predicate_conditions,
              buffer |-> buffer, output |-> output]

(* The filter has had the first handed tuples, and is in step with the elements
   that were open behind them, although the engine has gone on since. *)
FilterInv ==
  /\ finish_flag = INPROGRESS
  /\ \E A : Stands(qa, ctx, log, A, handed, elements, tuple_list, TheFilter)

LEMMA FilterStarts == FinishFlags = {INPROGRESS} /\ Init => FilterInv
<1> SUFFICES ASSUME FinishFlags = {INPROGRESS}, Init PROVE FilterInv
  OBVIOUS
<1>1. PICK A : A = [n \in 0 .. 0 |-> <<>>]
  OBVIOUS
<1>2. PICK e : e = <<>>
  OBVIOUS
<1>3. e \in Seq(Nat) /\ Len(e) = 0 /\ e \in Seq({})
  BY <1>2
<1>4. A \in [0 .. 0 -> Seq(Nat)] /\ A[0] = e
  BY <1>1, <1>2
<1>5. Nests(qa, e, A)
  BY <1>2, <1>3, <1>4 DEF Nests, Listed
<1>6. Rest(e, e, 0)
  BY <1>3 DEF Rest, Listed
<1>7. predicate_conditions = [p \in PredicatesOf(qa) |-> ClearedIn(ctx, p)]
  BY DEF Init, Predicates, Cleared, conditions, ClearedIn
<1>8. PICK pf : pf = [pstack |-> e, predicate_conditions |-> predicate_conditions,
                      buffer |-> e, output |-> e]
  OBVIOUS
<1>9. TheFilter = pf
  BY <1>2, <1>8 DEF Init, TheFilter
<1>10. IsFilter(qa, pf)
  <2>1. predicate_conditions = [p \in PredicatesOf(qa) |-> predicate_conditions[p]]
    BY <1>7
  <2>2. e \in Seq(Marker(qa))
    BY <1>2
  <2> QED
    BY <1>3, <1>8, <2>1, <2>2, MadeFilter
<1>11. Shaped(qa, ctx, e, e, pf)
  <2>1. pf.pstack = e /\ pf.buffer = e /\ pf.predicate_conditions = predicate_conditions
    BY <1>8
  <2> QED
    BY <1>2, <1>3, <1>7, <1>10, <2>1 DEF Shaped
<1>12. Stands(qa, ctx, e, A, 0, e, e, pf)
  BY <1>3, <1>4, <1>5, <1>6, <1>11 DEF Stands
<1>13. log = e /\ elements = e /\ tuple_list = e /\ handed = 0
  BY <1>2 DEF Init
<1>14. finish_flag = INPROGRESS
  BY DEF Init
<1> QED
  BY <1>9, <1>12, <1>13, <1>14 DEF FilterInv

LEMMA ClearedRest ==
  ASSUME NEW l, NEW N, N = Len(l), N \in Nat
  PROVE  Rest(<<>>, l, N)
<1>1. <<>> \in Seq({}) /\ Len(<<>>) = 0
  OBVIOUS
<1> QED
  BY <1>1 DEF Rest, Listed

(* What an action that adds a tuple makes of the rest. *)
LEMMA AddFields ==
  ASSUME NEW q, NEW mark, NEW text, AddTuple(q, mark, text),
         NEW t, t = [state |-> q, mark |-> mark, text |-> text,
                     at |-> Len(log) + 1, around |-> elements]
  PROVE  /\ log' = Append(log, t) /\ tuple_list' = Append(tuple_list, t)
         /\ qa' = qa /\ ctx' = ctx /\ finish_flag' = finish_flag
         /\ handed' = handed /\ TheFilter' = TheFilter
BY DEF AddTuple, queryVars, filterVars, TheFilter

LEMMA TupleFields ==
  ASSUME NEW q, NEW mark, NEW text, NEW at, NEW around,
         NEW t, t = [state |-> q, mark |-> mark, text |-> text, at |-> at, around |-> around]
  PROVE  t.state = q /\ t.mark = mark /\ t.at = at /\ t.around = around
OBVIOUS

(* What the engine's actions do as long as a piece lasts. *)
Grows(A, B) ==
  /\ Stands(qa', ctx', log', B, handed', elements', tuple_list', TheFilter')
  /\ qa' = qa /\ ctx' = ctx /\ finish_flag' = finish_flag
  /\ handed' = handed /\ TheFilter' = TheFilter
  /\ B[handed] = A[handed] /\ \A i \in 1 .. handed : log'[i] = log[i]

(* Each of the three actions that add a tuple adds one that fits. *)
LEMMA Adds ==
  ASSUME NEW A, Stands(qa, ctx, log, A, handed, elements, tuple_list, TheFilter),
         NEW q, NEW mark, NEW text, AddTuple(q, mark, text),
         NEW d \in Seq(Nat), elements' = d,
         NEW N, N = Len(log),
         \/ mark = Begins /\ d = Append(elements, N + 1)
            /\ q \in PredicatesOf(qa) /\ q \in Within(qa, Current)
         \/ mark = Ends /\ elements # <<>> /\ d = Front(elements)
         \/ mark = Plain /\ d = elements /\ q \in Within(qa, Current)
            /\ qa.accept[q] \in {OUTPUT_CANDIDATE, CONDITION}
  PROVE  \E B : Grows(A, B)
<1>2. PICK t : t = [state |-> q, mark |-> mark, text |-> text,
                    at |-> Len(log) + 1, around |-> elements]
  OBVIOUS
<1>3. /\ log' = Append(log, t) /\ tuple_list' = Append(tuple_list, t)
      /\ qa' = qa /\ ctx' = ctx /\ finish_flag' = finish_flag
      /\ handed' = handed /\ TheFilter' = TheFilter
  BY <1>2, AddFields
<1>4. PICK l, L, open : l = log /\ L = Append(l, t) /\ open = elements
  OBVIOUS
<1>5. Nests(qa, l, A) /\ open = A[Len(l)] /\ Listed(l) /\ handed \in 0 .. Len(l)
  BY <1>4 DEF Stands, Nests
<1>6. /\ open \in Seq(Nat) /\ N \in Nat
      /\ open # <<>> => Last(open) \in 1 .. N
  BY <1>4, <1>5, OpenElements
<1>7. L[N + 1] = t /\ \A i \in 1 .. N : L[i] = l[i]
  <2>1. Listed(l) /\ L = Append(l, t)
    BY <1>4, <1>5
  <2>2. /\ Append(l, t)[Len(l) + 1] = t
        /\ \A i \in 1 .. Len(l) : Append(l, t)[i] = l[i]
    BY <2>1, AppendedTo, Zenon
  <2>3. N = Len(l)
    BY <1>4
  <2> QED
    BY <2>1, <2>2, <2>3
<1>8. t.state = q /\ t.mark = mark /\ t.at = N + 1 /\ t.around = open
  BY <1>2, <1>4, TupleFields
<1>9. StateIn(L, open) = Current
  <2>1. StateIn(L, open) = StateIn(l, open)
    BY <1>6, <1>7 DEF StateIn
  <2> QED
    BY <1>4, <2>1, Zenon DEF StateIn, Current
<1>10. Fits(qa, L, open, d, N + 1)
  <2> DEFINE n == N + 1
  <2>1. L[n].at = n /\ L[n].around = open /\ L[n].mark = mark /\ L[n].state = q
    BY <1>7, <1>8
  <2>2. \/ mark = Begins /\ d = Append(open, n)
           /\ q \in PredicatesOf(qa) /\ q \in Within(qa, StateIn(L, open))
        \/ mark = Ends /\ open # <<>> /\ d = Front(open)
        \/ mark = Plain /\ d = open /\ q \in Within(qa, StateIn(L, open))
           /\ qa.accept[q] \in {OUTPUT_CANDIDATE, CONDITION}
    BY <1>4, <1>9
  <2> HIDE DEF n
  <2>3. Fits(qa, L, open, d, n)
    BY <2>1, <2>2, Zenon DEF Fits, Plain
  <2> QED
    BY <2>3 DEF n
<1>11. PICK c, h, tl, pf, s : /\ c = ctx /\ h = handed /\ tl = tuple_list /\ pf = TheFilter
                              /\ s = Append(tl, t)
  OBVIOUS
<1>12. Stands(qa, c, l, A, h, open, tl, pf)
  BY <1>4, <1>11
<1>13. StandsOn(qa, c, L, A[h], h, d, s, pf)
  <2>1. L = Append(l, t) /\ s = Append(tl, t)
    BY <1>4, <1>11
  <2>2. PICK n : n = Len(l) + 1
    OBVIOUS
  <2>3. Fits(qa, L, open, d, n)
    BY <1>4, <1>10, <2>2
  <2> QED
    BY <1>12, <2>1, <2>2, <2>3, StandsMore
<1>14. PICK B : Stands(qa, c, L, B, h, d, s, pf) /\ B[h] = A[h]
  BY <1>13 DEF StandsOn
<1>15. Stands(qa', ctx', log', B, handed', elements', tuple_list', TheFilter')
  BY <1>3, <1>4, <1>11, <1>14
<1>16. \A i \in 1 .. handed : L[i] = l[i]
  <2>1. handed \in 0 .. N
    BY <1>4, <1>5
  <2>2. \A i \in 1 .. handed : i \in 1 .. N
    BY <1>6, <2>1
  <2> QED
    BY <1>7, <2>2
<1>17. log' = L /\ log = l
  BY <1>3, <1>4
<1> QED
  BY <1>3, <1>11, <1>14, <1>15, <1>16, <1>17 DEF Grows

LEMMA EngineGrows ==
  ASSUME NEW A, Stands(qa, ctx, log, A, handed, elements, tuple_list, TheFilter),
         \/ ElementBegins \/ ElementEnds \/ TextFound \/ UNCHANGED vars
  PROVE  \E B : Grows(A, B)
<1>0. elements \in Seq(Nat) /\ Len(log) \in Nat /\ Listed(log)
  <2>1. Nests(qa, log, A) /\ elements = A[Len(log)]
    BY DEF Stands
  <2>2. Listed(log)
    BY <2>1 DEF Nests
  <2> QED
    BY <2>1, <2>2, OpenElements
<1>1. CASE ElementBegins
  <2>1. PICK q \in Within(qa, Current) \intersect Predicates :
          AddTuple(q, Begins, NULL) /\ elements' = Append(elements, Len(log'))
    BY <1>1, Zenon DEF ElementBegins, Begins
  <2>2. PICK N \in Nat : N = Len(log)
    BY <1>0
  <2>3. Len(log') = N + 1
    <3>1. PICK t : log' = Append(log, t)
      BY <2>1 DEF AddTuple
    <3> QED
      BY <1>0, <2>2, <3>1, AppendedTo
  <2>4. PICK d \in Seq(Nat) : d = Append(elements, N + 1)
    <3>1. N + 1 \in Nat
      BY <2>2
    <3>2. PICK e \in Seq(Nat) : e = elements
      BY <1>0
    <3>3. Append(e, N + 1) \in Seq(Nat)
      BY <3>1, <3>2, AppendProperties
    <3> QED
      BY <3>2, <3>3
  <2>5. elements' = d
    BY <2>1, <2>3, <2>4
  <2>6. q \in PredicatesOf(qa) /\ q \in Within(qa, Current)
    BY <2>1 DEF Predicates
  <2> QED
    BY <2>1, <2>2, <2>4, <2>5, <2>6, Adds
<1>2. CASE ElementEnds
  <2>1. elements # <<>> /\ AddTuple(Current, Ends, NULL) /\ elements' = Front(elements)
    BY <1>2, Zenon DEF ElementEnds, Ends
  <2>2. PICK d \in Seq(Nat) : d = Front(elements)
    BY <1>0, <2>1, FrontFacts
  <2>3. elements' = d
    BY <2>1, <2>2
  <2> QED
    BY <2>1, <2>2, <2>3, Adds
<1>3. CASE TextFound
  <2>0. PICK q \in Within(qa, Current) : \E text :
          /\ AddTuple(q, Plain, text) /\ elements' = elements
          /\ qa.accept[q] \in {OUTPUT_CANDIDATE, CONDITION}
    BY <1>3, Zenon DEF TextFound, Plain
  <2>1. PICK text : /\ AddTuple(q, Plain, text) /\ elements' = elements
                    /\ qa.accept[q] \in {OUTPUT_CANDIDATE, CONDITION}
    BY <2>0
  <2>2. PICK d \in Seq(Nat) : d = elements
    BY <1>0
  <2>3. elements' = d
    BY <2>1, <2>2
  <2> QED
    BY <2>1, <2>2, <2>3, Adds
<1>4. CASE UNCHANGED vars
  <2>1. /\ qa' = qa /\ ctx' = ctx /\ finish_flag' = finish_flag /\ log' = log
        /\ elements' = elements /\ tuple_list' = tuple_list /\ handed' = handed
        /\ TheFilter' = TheFilter
    BY <1>4 DEF vars, queryVars, filterVars, TheFilter
  <2>2. Stands(qa', ctx', log', A, handed', elements', tuple_list', TheFilter')
    BY <2>1
  <2> QED
    BY <2>1, <2>2 DEF Grows
<1> QED
  BY <1>1, <1>2, <1>3, <1>4

(* The end of a piece. *)
LEMMA PieceEnds ==
  ASSUME NEW A, Stands(qa, ctx, log, A, handed, elements, tuple_list, TheFilter),
         finish_flag = INPROGRESS, EndPiece
  PROVE  /\ Stands(qa', ctx', log', A, handed', elements', tuple_list', TheFilter')
         /\ qa' = qa /\ ctx' = ctx /\ finish_flag' = INPROGRESS
         /\ log' = log /\ handed' = Len(log)
         /\ TheFilter' = generateFinalOutput(TheFilter, tuple_list)
<1>1. PICK l, open, pf, tl, g : /\ l = log /\ open = elements /\ pf = TheFilter
                                /\ tl = tuple_list /\ g = generateFinalOutput(pf, tl)
  OBVIOUS
<1>2. Nests(qa, l, A) /\ A[Len(l)] = open /\ handed \in 0 .. Len(l)
      /\ Rest(tl, l, handed) /\ Shaped(qa, ctx, l, A[handed], pf)
  BY <1>1 DEF Stands
<1>3. Shaped(qa, ctx, l, A[Len(l)], g)
  BY <1>1, <1>2, PieceShaped
<1>4. g = [pstack |-> g.pstack, predicate_conditions |-> g.predicate_conditions,
           buffer |-> g.buffer, output |-> g.output]
  BY <1>3 DEF Shaped, IsFilter
<1>5. /\ pstack' = g.pstack /\ predicate_conditions' = g.predicate_conditions
      /\ buffer' = g.buffer /\ output' = g.output
  BY <1>1, Zenon DEF EndPiece, TheFilter
<1>6. TheFilter' = g
  BY <1>4, <1>5 DEF TheFilter
<1>7. /\ tuple_list' = <<>> /\ handed' = Len(l) /\ log' = l /\ elements' = open
      /\ qa' = qa /\ ctx' = ctx /\ finish_flag' = INPROGRESS
  BY <1>1 DEF EndPiece, queryVars
<1>8. PICK N \in Nat : N = Len(l)
  BY <1>2 DEF Nests, Listed
<1>9. Rest(<<>>, l, N) /\ N \in 0 .. Len(l)
  BY <1>8, ClearedRest
<1>10. Stands(qa, ctx, l, A, N, open, <<>>, g)
  BY <1>2, <1>3, <1>8, <1>9 DEF Stands
<1>11. Stands(qa', ctx', log', A, handed', elements', tuple_list', TheFilter')
  BY <1>6, <1>7, <1>8, <1>10
<1> QED
  BY <1>1, <1>6, <1>7, <1>11

(* Both halves of Next keep the invariant. *)
LEMMA FilterKeeps == FilterInv /\ [Next]_vars => FilterInv'
<1> SUFFICES ASSUME FilterInv, [Next]_vars PROVE FilterInv'
  OBVIOUS
<1>1. PICK A : Stands(qa, ctx, log, A, handed, elements, tuple_list, TheFilter)
  BY DEF FilterInv
<1>2. CASE EndPiece
  <2>1. /\ Stands(qa', ctx', log', A, handed', elements', tuple_list', TheFilter')
        /\ finish_flag' = INPROGRESS
    BY <1>1, <1>2, PieceEnds DEF FilterInv
  <2> QED
    BY <2>1 DEF FilterInv
<1>3. CASE ~EndPiece
  <2>1. PICK B : Grows(A, B)
    BY <1>1, <1>3, EngineGrows DEF Next
  <2> QED
    BY <2>1 DEF Grows, FilterInv
<1> QED
  BY <1>2, <1>3

(* With no element on the stack, all that is kept must be empty. *)
LEMMA FilterLeavesNothing == FilterInv => NothingLeftBehind
<1> SUFFICES ASSUME FilterInv, pstack = <<>> PROVE /\ buffer = <<>>
                        /\ \A p \in Predicates : predicate_conditions[p] = Cleared(p)
  BY DEF NothingLeftBehind
<1>1. PICK A : Stands(qa, ctx, log, A, handed, elements, tuple_list, TheFilter)
  BY DEF FilterInv
<1>2. PICK o \in Seq(Nat) : o = A[handed]
  BY <1>1 DEF Stands, Nests
<1>3. Shaped(qa, ctx, log, o, TheFilter)
  BY <1>1, <1>2 DEF Stands
<1>4. /\ TheFilter.pstack = pstack /\ TheFilter.buffer = buffer
      /\ TheFilter.predicate_conditions = predicate_conditions
  BY DEF TheFilter
<1>5. Len(o) = 0
  BY <1>3, <1>4 DEF Shaped
<1>6. o = <<>>
  BY <1>5, EmptySeq
<1>7. buffer = <<>> /\ \A p \in PredicatesOf(qa) : predicate_conditions[p] = ClearedIn(ctx, p)
  BY <1>3, <1>4, <1>5, <1>6 DEF Shaped
<1> QED
  BY <1>7 DEF Predicates, Cleared, conditions, ClearedIn

(* No candidate and no value of a condition is left behind when an outermost
   element ends (generateFinalOutput), with the list of tuples taken away after
   every piece (finish_flag is INPROGRESS). *)
THEOREM NothingEverLeft == FinishFlags = {INPROGRESS} /\ Spec => []NothingLeftBehind
<1>1. FinishFlags = {INPROGRESS} /\ Init => FilterInv
  BY FilterStarts
<1> QED
  BY <1>1, FilterKeeps, FilterLeavesNothing, PTL DEF Spec

-----------------------------------------------------------------------------
(***************************************************************************)
(* The output of the filter of predicate.c is, in order and each once, the *)
(* answers whose elements all ended with their predicate satisfied, for    *)
(* every file and every way to cut it, and every query that tells its      *)
(* texts apart and whose predicates nest in an order.  The invariant says  *)
(* where each candidate is as long as this is undecided: in the buffer,    *)
(* on the right side of the markers of the elements that are still open.   *)
(***************************************************************************)
-----------------------------------------------------------------------------
(* The elements that are open and those that ended.                        *)

(* What ended stays ended. *)
LEMMA EndedGrows ==
  ASSUME NEW l, NEW k \in Nat, NEW n \in Nat, k <= n
  PROVE  EndedBy(l, k) \subseteq EndedBy(l, n)
<1>1. \A m : m \in 1 .. k => m \in 1 .. n
  OBVIOUS
<1> QED
  BY <1>1 DEF EndedBy

(* What a tuple knows of the elements around it. *)
LEMMA AroundIs ==
  ASSUME NEW a, NEW l, NEW A, Nests(a, l, A), NEW n \in 1 .. Len(l)
  PROVE  /\ l[n].around = A[n-1] /\ l[n].around \in Seq(Nat)
         /\ n \in Nat /\ n - 1 \in 0 .. Len(l) /\ Len(l) \in Nat
         /\ \A i \in 1 .. Len(l[n].around) :
              l[n].around[i] \in 1 .. n - 1 /\ l[l[n].around[i]].mark = Begins
<1>1. Len(l) \in Nat
  BY DEF Nests, Listed
<1>2. n \in Nat /\ n - 1 \in 0 .. Len(l)
  BY <1>1
<1>3. l[n].around = A[n-1]
  BY DEF Nests, Fits
<1>4. A[n-1] \in Seq(Nat)
  BY <1>2 DEF Nests
<1>5. Nesting(l, A, n - 1)
  BY <1>2, NestingHolds
<1>6. \A i \in 1 .. Len(A[n-1]) : A[n-1][i] \in 1 .. n - 1 /\ l[A[n-1][i]].mark = Begins
  BY <1>5 DEF Nesting
<1> QED
  BY <1>1, <1>2, <1>3, <1>4, <1>6

(* Behind the end of an element no tuple is inside it. *)
LEMMA OverIsOver ==
  ASSUME NEW a, NEW l, NEW A, Nests(a, l, A), NEW k \in 0 .. Len(l), NEW o \in EndedBy(l, k),
         NEW n \in 1 .. Len(l), n > k
  PROVE  \A i \in 1 .. Len(l[n].around) : l[n].around[i] # o
<1>1. l[n].around = A[n-1] /\ n \in Nat /\ n - 1 \in 0 .. Len(l) /\ Len(l) \in Nat
  BY AroundIs
<1>2. EndedBy(l, k) \subseteq EndedBy(l, n - 1)
  <2>1. k \in Nat /\ n - 1 \in Nat /\ k <= n - 1
    BY <1>1
  <2> QED
    BY <2>1, EndedGrows
<1>3. Nesting(l, A, n - 1)
  BY <1>1, NestingHolds
<1>4. \A i \in 1 .. Len(A[n-1]) : A[n-1][i] \notin EndedBy(l, n - 1)
  BY <1>3 DEF Nesting
<1> QED
  BY <1>1, <1>2, <1>4

(* A tuple is inside an open element if it is behind its beginning. *)
LEMMA InsideSince ==
  ASSUME NEW a, NEW l, NEW A, Nests(a, l, A), NEW k \in 0 .. Len(l),
         NEW i \in 1 .. Len(A[k]), NEW n \in 1 .. k
  PROVE  /\ A[k][i] < n => i \in 1 .. Len(l[n].around) /\ l[n].around[i] = A[k][i]
         /\ A[k][i] >= n => \A j \in 1 .. Len(l[n].around) : l[n].around[j] # A[k][i]
<1>0. Len(l) \in Nat
  BY DEF Nests, Listed
<1>1. n \in 1 .. Len(l) /\ k \in Nat /\ n \in Nat
  BY <1>0
<1>2. l[n].around = A[n-1] /\ \A j \in 1 .. Len(l[n].around) : l[n].around[j] \in 1 .. n - 1
  BY <1>1, AroundIs
<1>3. PICK o \in Nat : o = A[k][i] /\ o \in 1 .. k /\ A[k] \in Seq(Nat) /\ Len(A[k]) \in Nat
  <2>1. Nesting(l, A, k) /\ A[k] \in Seq(Nat)
    BY NestingHolds DEF Nests
  <2> QED
    BY <1>1, <2>1 DEF Nesting
<1>4. ASSUME o < n PROVE i \in 1 .. Len(l[n].around) /\ l[n].around[i] = o
  <2>1. Nesting(l, A, k)
    BY NestingHolds
  <2>2. \A m \in A[k][i] .. k : i <= Len(A[m]) /\ A[m][i] = A[k][i]
    BY <2>1 DEF Nesting
  <2>3. n - 1 \in o .. k
    BY <1>1, <1>3, <1>4
  <2>4. i <= Len(A[n-1]) /\ A[n-1][i] = o
    BY <1>3, <2>2, <2>3
  <2>5. A[n-1] \in Seq(Nat)
    BY <1>1, <1>2, AroundIs
  <2>6. i \in 1 .. Len(A[n-1])
    BY <1>3, <2>4, <2>5
  <2> QED
    BY <1>2, <2>4, <2>6
<1>5. ASSUME o >= n PROVE \A j \in 1 .. Len(l[n].around) : l[n].around[j] # o
  BY <1>1, <1>2, <1>5
<1> QED
  BY <1>3, <1>4, <1>5

(* Every element around a tuple is open or ended. *)
LEMMA OpenOrEnded ==
  ASSUME NEW a, NEW l, NEW A, Nests(a, l, A), NEW k \in 0 .. Len(l), NEW n \in 1 .. k,
         NEW i \in 1 .. Len(l[n].around), l[n].around[i] \notin EndedBy(l, k)
  PROVE  \E j \in 1 .. Len(A[k]) : A[k][j] = l[n].around[i]
<1>1. Len(l) \in Nat
  BY DEF Nests, Listed
<1>2. n \in 1 .. Len(l)
  BY <1>1
<1>3. l[n].around[i] \in 1 .. n - 1 /\ l[l[n].around[i]].mark = Begins
  BY <1>2, AroundIs
<1>4. l[n].around[i] \in 1 .. k
  BY <1>1, <1>3
<1>5. Nesting(l, A, k)
  BY NestingHolds
<1> QED
  BY <1>3, <1>4, <1>5 DEF Nesting

(* No element is open inside another of its state. *)
Ascends(level, l, open) ==
  \A i \in 1 .. Len(open) : \A j \in 1 .. Len(open) :
    i < j => level[l[open[i]].state] < level[l[open[j]].state]

(* The order of the predicate states. *)
OrderedBy(a, level) ==
  /\ level \in [PredicatesOf(a) -> 0 .. a.n]
  /\ \A p \in PredicatesOf(a) : \A r \in Within(a, p) \intersect PredicatesOf(a) :
       level[p] < level[r]

(* Open elements are elements of predicates. *)
LEMMA OpenStates ==
  ASSUME NEW a, NEW l, NEW A, Nests(a, l, A), NEW k \in 0 .. Len(l), NEW i \in 1 .. Len(A[k])
  PROVE  l[A[k][i]].state \in PredicatesOf(a)
<1>1. Len(l) \in Nat /\ k \in Nat
  BY DEF Nests, Listed
<1>2. Nesting(l, A, k)
  BY NestingHolds
<1>3. A[k][i] \in 1 .. k /\ l[A[k][i]].mark = Begins
  BY <1>2 DEF Nesting
<1>4. A[k][i] \in 1 .. Len(l)
  BY <1>1, <1>3
<1>5. PICK n \in 1 .. Len(l) : n = A[k][i]
  BY <1>4
<1>6. Fits(a, l, A[n-1], A[n], n)
  BY DEF Nests
<1> QED
  BY <1>3, <1>5, <1>6, MarksDiffer DEF Fits

(* As the order has it, the elements inside each other ascend. *)
LEMMA OpenAscend ==
  ASSUME NEW a, NEW l, NEW A, Nests(a, l, A), NEW level, OrderedBy(a, level)
  PROVE  \A k \in 0 .. Len(l) : Ascends(level, l, A[k])
<1> DEFINE P == {k \in 0 .. Len(l) : Ascends(level, l, A[k])}
<1>1. Len(l) \in Nat
  BY DEF Nests, Listed
<1>2. 0 \in P
  <2>1. A[0] = <<>> /\ Len(<<>>) = 0 /\ 0 \in 0 .. Len(l)
    BY <1>1 DEF Nests
  <2>2. Ascends(level, l, <<>>)
    BY <2>1 DEF Ascends
  <2> QED
    BY <2>1, <2>2
<1>3. ASSUME NEW k \in Nat, k < Len(l), k \in P PROVE k + 1 \in P
  <2>1. PICK e \in Nat, b \in Seq(Nat), d \in Seq(Nat) : e = k + 1 /\ b = A[k] /\ d = A[e]
    <3>1. A[k] \in Seq(Nat) /\ A[k+1] \in Seq(Nat) /\ k + 1 \in Nat
      BY <1>3, StepsBetween
    <3> QED
      BY <3>1
  <2>2. Fits(a, l, b, d, e)
    BY <1>3, <2>1, StepsBetween
  <2>3. k \in 0 .. Len(l) /\ e \in 0 .. Len(l)
    BY <1>1, <1>3, <2>1
  <2>4. Ascends(level, l, b)
    BY <1>3, <2>1
  <2>5. PICK p \in Nat : p = Len(b)
    OBVIOUS
  <2>6. \A i \in 1 .. p : l[b[i]].state \in PredicatesOf(a)
    BY <2>1, <2>3, <2>5, OpenStates
  <2>7. \A i \in 1 .. Len(d) : l[d[i]].state \in PredicatesOf(a)
    BY <2>1, <2>3, OpenStates
  <2>8. CASE l[e].mark = Begins
    <3>1. d = Append(b, e) /\ l[e].state \in PredicatesOf(a) /\ l[e].state \in Within(a, StateIn(l, b))
      BY <2>2, <2>8, MarksDiffer DEF Fits
    <3>2. Len(d) = p + 1 /\ d[p + 1] = e /\ \A i \in 1 .. p : d[i] = b[i]
      BY <2>1, <2>5, <3>1, AppendProperties
    <3>3. ASSUME NEW i \in 1 .. p PROVE level[l[b[i]].state] < level[l[e].state]
      <4>1. b # <<>> /\ p \in 1 .. p
        BY <2>5, <3>3
      <4>2. Last(b) = b[p]
        BY <2>5, <4>1, FrontFacts
      <4>3. l[e].state \in Within(a, l[b[p]].state) /\ l[b[p]].state \in PredicatesOf(a)
        BY <2>6, <3>1, <4>1, <4>2 DEF StateIn
      <4>4. level[l[b[p]].state] < level[l[e].state]
        BY <3>1, <4>3 DEF OrderedBy
      <4>5. level \in [PredicatesOf(a) -> 0 .. a.n]
        BY DEF OrderedBy
      <4>6. /\ level[l[b[p]].state] \in Int /\ level[l[e].state] \in Int
            /\ level[l[b[i]].state] \in Int
        BY <2>6, <3>1, <4>3, <4>5
      <4>7. CASE i = p
        BY <4>4, <4>7
      <4>8. CASE i # p
        <5>1. level[l[b[i]].state] < level[l[b[p]].state]
          BY <2>4, <2>5, <4>1, <4>8 DEF Ascends
        <5> QED
          BY <4>4, <4>6, <5>1
      <4> QED
        BY <4>7, <4>8
    <3>4. ASSUME NEW i \in 1 .. Len(d), NEW j \in 1 .. Len(d), i < j
          PROVE  level[l[d[i]].state] < level[l[d[j]].state]
      <4>1. i \in 1 .. p /\ d[i] = b[i]
        BY <3>2, <3>4
      <4>2. CASE j = p + 1
        BY <3>2, <3>3, <4>1, <4>2
      <4>3. CASE j # p + 1
        <5>1. j \in 1 .. p /\ d[j] = b[j]
          BY <3>2, <4>3
        <5> QED
          BY <2>4, <2>5, <3>4, <4>1, <5>1 DEF Ascends
      <4> QED
        BY <4>2, <4>3
    <3> QED
      BY <2>1, <2>3, <3>4 DEF Ascends
  <2>9. CASE l[e].mark = Ends
    <3>1. b # <<>> /\ d = Front(b)
      BY <2>2, <2>9, MarksDiffer DEF Fits
    <3>2. Len(d) = p - 1 /\ \A i \in 1 .. p - 1 : d[i] = b[i]
      BY <2>1, <2>5, <3>1, FrontFacts
    <3>3. ASSUME NEW i \in 1 .. Len(d), NEW j \in 1 .. Len(d), i < j
          PROVE  level[l[d[i]].state] < level[l[d[j]].state]
      <4>1. i \in 1 .. p /\ d[i] = b[i] /\ j \in 1 .. p /\ d[j] = b[j]
        BY <3>2
      <4> QED
        BY <2>4, <2>5, <3>3, <4>1 DEF Ascends
    <3> QED
      BY <2>1, <2>3, <3>3 DEF Ascends
  <2>10. CASE l[e].mark = ""
    <3>1. d = b
      BY <2>2, <2>10, MarksDiffer DEF Fits
    <3> QED
      BY <2>1, <2>3, <2>4, <3>1
  <2> QED
    BY <2>2, <2>8, <2>9, <2>10 DEF Fits
<1>4. 0 .. Len(l) \subseteq P
  <2> HIDE DEF P
  <2> QED
    BY <1>1, <1>2, <1>3, BoundedInduction
<1> QED
  BY <1>4

-----------------------------------------------------------------------------
(* The values of conditions, behind k tuples.                              *)

IsValue(c, l, n, o, name) ==
  /\ l[n].mark = "" /\ l[n].around # <<>> /\ Last(l[n].around) = o
  /\ Names(c, l[o].state, l[n].state)
  /\ c.subtree[l[n].state][1].name = name

ValuesTo(c, l, k, o, name) == {n \in o + 1 .. k : IsValue(c, l, n, o, name)}

ValueAt(c, l, k, o, name) ==
  IF ValuesTo(c, l, k, o, name) = {} THEN NULL ELSE l[Max(ValuesTo(c, l, k, o, name))].text

TableAt(c, l, k, o) == [name \in NamesIn(c, l[o].state) |-> ValueAt(c, l, k, o, name)]

SatisfiedAt(c, l, k, o) == evaluateExpression(c.subtree[l[o].state], TableAt(c, l, k, o))

(* A tuple is the new value of its condition in the element around it, and of no
   other. *)
LEMMA ValuesOfMore ==
  ASSUME NEW c, NEW l, NEW k \in Nat, NEW e, e = k + 1, NEW o \in Nat, NEW name
  PROVE  /\ ~(o <= k /\ IsValue(c, l, e, o, name)) =>
              ValueAt(c, l, e, o, name) = ValueAt(c, l, k, o, name)
         /\ o <= k /\ IsValue(c, l, e, o, name) => ValueAt(c, l, e, o, name) = l[e].text
<1> DEFINE V == ValuesTo(c, l, k, o, name)
           W == ValuesTo(c, l, e, o, name)
<1>1. \A n : n \in o + 1 .. e <=> n \in o + 1 .. k \/ (n = e /\ o <= k)
  OBVIOUS
<1>2. ASSUME ~(o <= k /\ IsValue(c, l, e, o, name)) PROVE W = V
  BY <1>1, <1>2 DEF ValuesTo
<1>3. ASSUME o <= k, IsValue(c, l, e, o, name) PROVE W # {} /\ Max(W) = e
  <2>1. e \in W
    BY <1>1, <1>3 DEF ValuesTo
  <2>2. \A n \in W : n \in Int /\ n <= e
    BY DEF ValuesTo
  <2>3. e \in Int
    OBVIOUS
  <2>4. \A n \in W : e >= n
    BY <2>2, <2>3
  <2> HIDE DEF W
  <2>5. \A x \in W : (\A y \in W : x >= y) => x = e
    BY <2>1, <2>2, <2>3
  <2>6. Max(W) = e
    BY <2>1, <2>4, <2>5 DEF Max
  <2> QED
    BY <2>1, <2>6
<1> HIDE DEF V, W
<1>4. ValueAt(c, l, k, o, name) = (IF V = {} THEN NULL ELSE l[Max(V)].text)
  BY DEF ValueAt, V
<1>5. ValueAt(c, l, e, o, name) = (IF W = {} THEN NULL ELSE l[Max(W)].text)
  BY DEF ValueAt, W
<1>6. ASSUME ~(o <= k /\ IsValue(c, l, e, o, name))
      PROVE  ValueAt(c, l, e, o, name) = ValueAt(c, l, k, o, name)
  BY <1>2, <1>4, <1>5, <1>6
<1>7. ASSUME o <= k, IsValue(c, l, e, o, name) PROVE ValueAt(c, l, e, o, name) = l[e].text
  BY <1>3, <1>5, <1>7
<1> QED
  BY <1>6, <1>7

(* At its beginning an element has no value. *)
LEMMA NoValueYet ==
  ASSUME NEW c, NEW l, NEW o \in Nat, NEW name
  PROVE  ValueAt(c, l, o, o, name) = NULL
<1>1. ValuesTo(c, l, o, o, name) = {}
  BY DEF ValuesTo
<1> QED
  BY <1>1 DEF ValueAt

(* The table of an element stays as it is while no condition of it comes. *)
LEMMA TableStays ==
  ASSUME NEW c, NEW l, NEW k \in Nat, NEW e, e = k + 1, NEW o \in Nat,
         \A name : ~IsValue(c, l, e, o, name)
  PROVE  TableAt(c, l, e, o) = TableAt(c, l, k, o)
<1>1. \A name : ValueAt(c, l, e, o, name) = ValueAt(c, l, k, o, name)
  BY ValuesOfMore
<1> QED
  BY <1>1 DEF TableAt

(* An element that ended keeps its table. *)
LEMMA EndedKeepsTable ==
  ASSUME NEW a, NEW c, NEW l, NEW A, Nests(a, l, A), NEW k \in Nat, k < Len(l), NEW e, e = k + 1,
         NEW o \in EndedBy(l, k)
  PROVE  SatisfiedAt(c, l, e, o) <=> SatisfiedAt(c, l, k, o)
<1>1. k \in 0 .. Len(l) /\ e \in 1 .. Len(l) /\ e > k
  BY DEF Nests, Listed
<1>2. o \in Nat
  <2>1. Nesting(l, A, k)
    BY <1>1, NestingHolds
  <2> QED
    BY <2>1 DEF Nesting
<1>3. \A name : ~IsValue(c, l, e, o, name)
  <2>1. \A i \in 1 .. Len(l[e].around) : l[e].around[i] # o
    BY <1>1, OverIsOver
  <2>2. l[e].around \in Seq(Nat)
    BY <1>1, AroundIs
  <2>3. l[e].around # <<>> => Last(l[e].around) # o
    <3>1. PICK w \in Seq(Nat) : w = l[e].around
      BY <2>2
    <3> SUFFICES ASSUME w # <<>> PROVE Last(w) # o
      BY <3>1
    <3>2. Last(w) = w[Len(w)] /\ Len(w) \in Nat \ {0}
      BY FrontFacts
    <3> QED
      BY <2>1, <3>1, <3>2
  <2> QED
    BY <2>3 DEF IsValue
<1>4. TableAt(c, l, e, o) = TableAt(c, l, k, o)
  BY <1>2, <1>3, TableStays
<1> QED
  BY <1>4 DEF SatisfiedAt

-----------------------------------------------------------------------------
(* The fate of a candidate, behind k tuples.                               *)

Candidate(a, l, n) == l[n].mark = "" /\ a.accept[l[n].state] = OUTPUT_CANDIDATE

(* All the elements around it ended, and each with its predicate satisfied. *)
Answer(a, c, l, k, n) ==
  /\ Candidate(a, l, n)
  /\ \A i \in 1 .. Len(l[n].around) :
       l[n].around[i] \in EndedBy(l, k) /\ SatisfiedAt(c, l, k, l[n].around[i])

(* It is inside the element first that is still open, and none of the elements
   around it failed so far. *)
Pending(a, c, l, k, first, n) ==
  /\ Candidate(a, l, n)
  /\ l[n].around # <<>> /\ l[n].around[1] = first
  /\ \A i \in 1 .. Len(l[n].around) :
       l[n].around[i] \in EndedBy(l, k) => SatisfiedAt(c, l, k, l[n].around[i])

(* In the order of the text. *)
Increasing(s) == \A i \in 1 .. Len(s) : \A j \in 1 .. Len(s) : i < j => s[i] < s[j]

In(n, s) == \E i \in 1 .. Len(s) : s[i] = n

(* The buffer holds the pending candidates. *)
Waiting(a, c, l, k, open, buf) ==
  /\ Increasing(buf)
  /\ \A n : In(n, buf) <=> n \in 1 .. k /\ open # <<>> /\ Pending(a, c, l, k, open[1], n)

(* The output holds the answers, all in front of the elements that are open. *)
Released(a, c, l, k, open, out) ==
  /\ Increasing(out)
  /\ \A n : In(n, out) <=> n \in 1 .. k /\ Answer(a, c, l, k, n)
  /\ open # <<>> => \A i \in 1 .. Len(out) : out[i] < open[1]

(* A marker on the stack points between the candidates before and inside its
   element. *)
Pointing(open, stack, buf) ==
  \A i \in 1 .. Len(open) : \A j \in 1 .. Len(buf) :
    j <= stack[i].output_buffer_pointer <=> buf[j] < open[i]

(* A predicate's conditions have the values found in its open element. *)
Valued(c, l, k, open, pc) ==
  \A i \in 1 .. Len(open) : pc[l[open[i]].state] = TableAt(c, l, k, open[i])

(* What it means that the filter is right about the first k tuples. *)
Right(a, c, l, k, open, pf) ==
  /\ Shaped(a, c, l, open, pf)
  /\ Waiting(a, c, l, k, open, pf.buffer)
  /\ Released(a, c, l, k, open, pf.output)
  /\ Pointing(open, pf.pstack, pf.buffer)
  /\ Valued(c, l, k, open, pf.predicate_conditions)

(* No tuple but the end of an element changes what became of the others. *)
LEMMA FateStays ==
  ASSUME NEW a, NEW c, NEW l, NEW A, Nests(a, l, A), NEW k \in Nat, k < Len(l), NEW e, e = k + 1,
         EndedBy(l, e) = EndedBy(l, k)
  PROVE  \A n : /\ Answer(a, c, l, e, n) <=> Answer(a, c, l, k, n)
                /\ \A first : Pending(a, c, l, e, first, n) <=> Pending(a, c, l, k, first, n)
<1>1. \A o \in EndedBy(l, k) : SatisfiedAt(c, l, e, o) <=> SatisfiedAt(c, l, k, o)
  BY EndedKeepsTable
<1> QED
  BY <1>1 DEF Answer, Pending

(* A tuple that is no candidate adds no answer and no pending candidate. *)
LEMMA NoCandidate ==
  ASSUME NEW a, NEW c, NEW l, NEW A, Nests(a, l, A), NEW k \in Nat, k < Len(l), NEW e, e = k + 1,
         EndedBy(l, e) = EndedBy(l, k), ~Candidate(a, l, e)
  PROVE  \A n : /\ (n \in 1 .. e /\ Answer(a, c, l, e, n)) <=> (n \in 1 .. k /\ Answer(a, c, l, k, n))
                /\ \A first : (n \in 1 .. e /\ Pending(a, c, l, e, first, n)) <=>
                                (n \in 1 .. k /\ Pending(a, c, l, k, first, n))
<1>1. \A n : n \in 1 .. e <=> n \in 1 .. k \/ n = e
  OBVIOUS
<1>2. \A n : /\ Answer(a, c, l, e, n) <=> Answer(a, c, l, k, n)
             /\ \A first : Pending(a, c, l, e, first, n) <=> Pending(a, c, l, k, first, n)
  BY FateStays
<1>3. ~Answer(a, c, l, e, e) /\ \A first : ~Pending(a, c, l, e, first, e)
  BY DEF Answer, Pending
<1> QED
  BY <1>1, <1>2, <1>3

(* What is kept comes from the tuples so far. *)
LEMMA InBounds ==
  ASSUME NEW a, NEW c, NEW l, NEW k, NEW open, NEW buf, NEW out,
         Waiting(a, c, l, k, open, buf), Released(a, c, l, k, open, out)
  PROVE  /\ \A j \in 1 .. Len(buf) : buf[j] \in 1 .. k
         /\ \A j \in 1 .. Len(out) : out[j] \in 1 .. k
BY DEF Waiting, Released, In

(* The table of a predicate whose element just began. *)
LEMMA FreshTable ==
  ASSUME NEW c, NEW l, NEW e \in Nat
  PROVE  TableAt(c, l, e, e) = ClearedIn(c, l[e].state)
<1>1. \A name : ValueAt(c, l, e, e, name) = NULL
  BY NoValueYet
<1> QED
  BY <1>1 DEF TableAt, ClearedIn

-----------------------------------------------------------------------------
(* What a tuple decides.                                                   *)

(* The beginning of an element. *)
LEMMA BeginsRight ==
  ASSUME NEW l, NEW A, Nests(qa, l, A), NEW k \in Nat, k < Len(l), NEW e, e = k + 1,
         NEW level, OrderedBy(qa, level),
         NEW pf, Right(qa, ctx, l, k, A[k], pf), l[e].mark = Begins
  PROVE  Right(qa, ctx, l, e, A[e], filterTuple(pf, l[e]))
<1>0. PICK t, g : t = l[e] /\ g = filterTuple(pf, t)
  OBVIOUS
<1>1. PICK b \in Seq(Nat), d \in Seq(Nat) : b = A[k] /\ d = A[e]
  <2>1. A[k] \in Seq(Nat) /\ A[e] \in Seq(Nat)
    BY StepsBetween
  <2> QED
    BY <2>1
<1>2. Fits(qa, l, b, d, e) /\ Nesting(l, A, k) /\ Nesting(l, A, e)
  BY <1>0, <1>1, StepsBetween
<1>3. d = Append(b, e) /\ t.state \in PredicatesOf(qa)
  BY <1>0, <1>1, <1>2, MarksDiffer DEF Fits
<1>4. PICK p \in Nat : p = Len(b)
  OBVIOUS
<1>5. Len(d) = p + 1 /\ d[p + 1] = e /\ \A i \in 1 .. p : d[i] = b[i]
  BY <1>0, <1>1, <1>3, <1>4, AppendProperties
<1>6. Shaped(qa, ctx, l, d, g)
  BY <1>0, <1>1, ShapedStep DEF Right
<1>7. PICK s, pc, u, o : s = pf.pstack /\ pc = pf.predicate_conditions
                         /\ u = pf.buffer /\ o = pf.output
  OBVIOUS
<1>8. /\ Shaped(qa, ctx, l, b, pf) /\ Waiting(qa, ctx, l, k, b, u) /\ Released(qa, ctx, l, k, b, o)
      /\ Pointing(b, s, u) /\ Valued(ctx, l, k, b, pc) /\ IsFilter(qa, pf)
  BY <1>0, <1>1, <1>7 DEF Right, Shaped
<1>9. s \in Seq(Marker(qa)) /\ u \in Seq(Nat) /\ o \in Seq(Nat) /\ Len(s) = p
  BY <1>0, <1>1, <1>4, <1>7, <1>8 DEF IsFilter, Shaped
<1>10. PICK m : m = [predicate_state |-> t.state, output_buffer_pointer |-> Len(u)]
  OBVIOUS
<1>11. /\ g.pstack = Append(s, m) /\ g.predicate_conditions = pc /\ g.buffer = u /\ g.output = o
  <2>1. g = BeginElement(pf, t)
    BY <1>0, <1>1, TupleCases
  <2> QED
    BY <1>3, <1>7, <1>8, <1>10, <2>1, BeginFields DEF Predicates
<1>12. EndedBy(l, e) = EndedBy(l, k)
  <2>0. e \in Nat
    OBVIOUS
  <2>1. e \in Nat /\ l[e].mark # Ends
    BY <2>0, MarksDiffer, Zenon
  <2>2. EndedBy(l, e) = IF l[e].mark = Ends THEN EndedBy(l, k) \union {Last(l[e].around)}
                                            ELSE EndedBy(l, k)
    BY <2>1, EndedOfMore
  <2> QED
    BY <2>1, <2>2
<1>13. ~Candidate(qa, l, e)
  BY MarksDiffer DEF Candidate
<1>14. \A n : /\ (n \in 1 .. e /\ Answer(qa, ctx, l, e, n))
                   <=> (n \in 1 .. k /\ Answer(qa, ctx, l, k, n))
              /\ \A first : (n \in 1 .. e /\ Pending(qa, ctx, l, e, first, n))
                              <=> (n \in 1 .. k /\ Pending(qa, ctx, l, k, first, n))
  BY <1>12, <1>13, NoCandidate
<1>15. /\ \A j \in 1 .. Len(u) : u[j] \in 1 .. k
       /\ \A j \in 1 .. Len(o) : o[j] \in 1 .. k
  BY <1>8, InBounds
<1>16. Waiting(qa, ctx, l, e, d, u)
  <2>1. d # <<>>
    BY <1>5
  <2>2. CASE b = <<>>
    <3>1. u = <<>>
      BY <1>7, <1>8, <2>2 DEF Shaped
    <3>2. d[1] = e
      BY <1>4, <1>5, <2>2
    <3>3. \A n \in 1 .. k : ~Pending(qa, ctx, l, k, e, n)
      <4> SUFFICES ASSUME NEW n \in 1 .. k, Pending(qa, ctx, l, k, e, n) PROVE FALSE
        OBVIOUS
      <4>1. n \in 1 .. Len(l)
        BY DEF Nests, Listed
      <4>2. l[n].around \in Seq(Nat) /\ l[n].around # <<>> /\ l[n].around[1] = e
        BY <4>1, AroundIs DEF Pending
      <4>3. 1 \in 1 .. Len(l[n].around)
        BY <4>2, EmptySeq
      <4>4. l[n].around[1] \in 1 .. n - 1
        BY <4>1, <4>3, AroundIs
      <4> QED
        BY <4>2, <4>4
    <3>4. \A n : ~In(n, u)
      BY <3>1 DEF In
    <3>5. Increasing(u)
      BY <1>8 DEF Waiting
    <3> QED
      BY <1>14, <3>2, <3>3, <3>4, <3>5 DEF Waiting
  <2>3. CASE b # <<>>
    <3>1. d[1] = b[1]
      <4>1. 1 \in 1 .. p
        BY <1>4, <2>3, EmptySeq
      <4> QED
        BY <1>5, <4>1
    <3> QED
      BY <1>8, <1>14, <2>1, <2>3, <3>1 DEF Waiting
  <2> QED
    BY <2>2, <2>3
<1>17. Released(qa, ctx, l, e, d, o)
  <2>1. \A i \in 1 .. Len(o) : o[i] < d[1]
    <3>1. CASE b = <<>>
      <4>1. d[1] = e
        BY <1>4, <1>5, <3>1
      <4> QED
        BY <1>15, <4>1
    <3>2. CASE b # <<>>
      <4>1. 1 \in 1 .. p
        BY <1>4, <3>2, EmptySeq
      <4>2. d[1] = b[1]
        BY <1>5, <4>1
      <4> QED
        BY <1>8, <3>2, <4>2 DEF Released
    <3> QED
      BY <3>1, <3>2
  <2>2. \A n : In(n, o) <=> n \in 1 .. e /\ Answer(qa, ctx, l, e, n)
    BY <1>8, <1>14 DEF Released
  <2>3. Increasing(o)
    BY <1>8 DEF Released
  <2> QED
    BY <2>1, <2>2, <2>3 DEF Released
<1> DEFINE r == Append(s, m)
<1>18. Len(r) = p + 1 /\ r[p + 1] = m /\ \A i \in 1 .. p : r[i] = s[i]
  <2>1. m \in Marker(qa)
    <3>1. Len(u) \in Nat
      BY <1>9
    <3> QED
      BY <1>3, <1>10, <3>1 DEF Marker
  <2> QED
    BY <1>9, <2>1, AppendProperties
<1>18a. r = g.pstack
  BY <1>11
<1> HIDE DEF r
<1>19. Pointing(d, r, u)
  <2> SUFFICES ASSUME NEW i \in 1 .. p + 1, NEW j \in 1 .. Len(u)
               PROVE  j <= r[i].output_buffer_pointer <=> u[j] < d[i]
    BY <1>5 DEF Pointing
  <2>1. CASE i = p + 1
    <3>1. r[i].output_buffer_pointer = Len(u) /\ d[i] = e
      BY <1>5, <1>10, <1>18, <2>1
    <3>2. j <= Len(u) /\ u[j] < e
      BY <1>15
    <3> QED
      BY <3>1, <3>2
  <2>2. CASE i # p + 1
    <3>0. i \in 1 .. p
      BY <2>2
    <3>1. i \in 1 .. p /\ r[i] = s[i] /\ d[i] = b[i]
      BY <1>5, <1>18, <3>0
    <3> QED
      BY <1>4, <1>8, <3>1 DEF Pointing
  <2> QED
    BY <2>1, <2>2
<1>20. Valued(ctx, l, e, d, pc)
  <2> SUFFICES ASSUME NEW i \in 1 .. p + 1
               PROVE  pc[l[d[i]].state] = TableAt(ctx, l, e, d[i])
    BY <1>5 DEF Valued
  <2>1. CASE i = p + 1
    <3>1. d[i] = e /\ l[d[i]] = t
      BY <1>0, <1>1, <1>5, <2>1
    <3>2. \A x \in 1 .. p : l[b[x]].state # t.state
      <4> SUFFICES ASSUME NEW x \in 1 .. p PROVE l[b[x]].state # t.state
        OBVIOUS
      <4>1. e \in 0 .. Len(l)
        BY DEF Nests, Listed
      <4>2. Ascends(level, l, d)
        BY <1>0, <1>1, <4>1, OpenAscend
      <4>3. x \in 1 .. Len(d) /\ p + 1 \in 1 .. Len(d) /\ x < p + 1
        BY <1>5
      <4>4. level[l[d[x]].state] < level[l[d[p + 1]].state]
        BY <4>2, <4>3 DEF Ascends
      <4>5. \A y \in 1 .. Len(A[e]) : l[A[e][y]].state \in PredicatesOf(qa)
        BY <4>1, OpenStates
      <4>6. l[d[x]].state \in PredicatesOf(qa) /\ l[d[p + 1]].state \in PredicatesOf(qa)
        BY <1>0, <1>1, <4>3, <4>5
      <4>7. level[l[d[x]].state] \in Int /\ level[l[d[p + 1]].state] \in Int
        <5>1. level \in [PredicatesOf(qa) -> 0 .. qa.n]
          BY DEF OrderedBy
        <5>2. \A y \in PredicatesOf(qa) : level[y] \in Int
          BY <5>1
        <5> QED
          BY <4>6, <5>2
      <4>8. level[l[d[x]].state] # level[l[d[p + 1]].state]
        BY <4>4, <4>7
      <4> QED
        BY <1>5, <3>1, <2>1, <4>8
    <3>3. pc[t.state] = ClearedIn(ctx, t.state)
      BY <1>3, <1>4, <1>7, <1>8, <3>2 DEF Shaped
    <3> QED
      BY <1>0, <1>1, <3>1, <3>3, FreshTable
  <2>2. CASE i # p + 1
    <3>1. i \in 1 .. p /\ d[i] = b[i]
      BY <1>5, <2>2
    <3>2. pc[l[b[i]].state] = TableAt(ctx, l, k, b[i])
      BY <1>4, <1>8, <3>1 DEF Valued
    <3>3. \A name : ~IsValue(ctx, l, e, b[i], name)
      BY MarksDiffer DEF IsValue
    <3>4. b[i] \in Nat
      BY <1>4, <3>1
    <3>5. TableAt(ctx, l, e, b[i]) = TableAt(ctx, l, k, b[i])
      BY <3>3, <3>4, TableStays
    <3> QED
      BY <3>1, <3>2, <3>5
  <2> QED
    BY <2>1, <2>2
<1>21. /\ Waiting(qa, ctx, l, e, d, g.buffer) /\ Released(qa, ctx, l, e, d, g.output)
       /\ Pointing(d, g.pstack, g.buffer) /\ Valued(ctx, l, e, d, g.predicate_conditions)
  BY <1>11, <1>16, <1>17, <1>18a, <1>19, <1>20
<1>22. Right(qa, ctx, l, e, d, g)
  BY <1>6, <1>21 DEF Right
<1> QED
  BY <1>0, <1>1, <1>22

(* What the end of the innermost element w decides about a candidate. *)
Decides(a, c, l, k, e, p, w, n) ==
  /\ n <= w => /\ Answer(a, c, l, e, n) <=> Answer(a, c, l, k, n)
               /\ \A f : Pending(a, c, l, e, f, n) <=> Pending(a, c, l, k, f, n)
  /\ n > w => /\ ~Answer(a, c, l, k, n)
              /\ \A f : Pending(a, c, l, e, f, n) <=>
                          Pending(a, c, l, k, f, n) /\ SatisfiedAt(c, l, e, w)
              /\ IF p = 1
                   THEN Answer(a, c, l, e, n) <=>
                          Pending(a, c, l, k, w, n) /\ SatisfiedAt(c, l, e, w)
                   ELSE ~Answer(a, c, l, e, n)

(* The end of the element decides so about each candidate inside it. *)
LEMMA EndDecides ==
  ASSUME NEW a, NEW c, NEW l, NEW A, Nests(a, l, A), NEW k \in Nat, k < Len(l), NEW e, e = k + 1,
         EndedBy(l, e) = EndedBy(l, k) \union {A[k][Len(A[k])]}, A[k] # <<>>,
         NEW n \in 1 .. k
  PROVE  Decides(a, c, l, k, e, Len(A[k]), A[k][Len(A[k])], n)
<1>1. PICK b \in Seq(Nat) : b = A[k]
  BY StepsBetween
<1>2. PICK p \in Nat \ {0} : p = Len(b) /\ p \in 1 .. p /\ 1 \in 1 .. p
  <2>1. Len(b) \in Nat \ {0}
    BY <1>1, EmptySeq
  <2> QED
    BY <2>1
<1>3. k \in 0 .. Len(l) /\ k \in Nat /\ n \in 1 .. Len(l)
  BY DEF Nests, Listed
<1>4. Nesting(l, A, k)
  BY <1>3, NestingHolds
<1>5. PICK w \in Nat : w = b[p]
  BY <1>2
<1>6. PICK x \in Seq(Nat) : x = l[n].around
  BY <1>3, AroundIs
<1>7. EndedBy(l, e) = EndedBy(l, k) \union {w}
  BY <1>1, <1>2, <1>5
<1>8. w \notin EndedBy(l, k) /\ b[1] \notin EndedBy(l, k)
  BY <1>1, <1>2, <1>4, <1>5 DEF Nesting
<1>9. \A y \in EndedBy(l, k) : SatisfiedAt(c, l, e, y) <=> SatisfiedAt(c, l, k, y)
  BY EndedKeepsTable
<1>10. /\ w < n => p \in 1 .. Len(x) /\ x[p] = w
       /\ w >= n => \A j \in 1 .. Len(x) : x[j] # w
  <2>1. k \in 0 .. Len(l) /\ p \in 1 .. Len(A[k]) /\ n \in 1 .. k
    BY <1>1, <1>2, <1>3
  <2>2. /\ A[k][p] < n => p \in 1 .. Len(l[n].around) /\ l[n].around[p] = A[k][p]
        /\ A[k][p] >= n => \A j \in 1 .. Len(l[n].around) : l[n].around[j] # A[k][p]
    BY <2>1, InsideSince
  <2>3. A[k][p] = w
    BY <1>1, <1>5
  <2> QED
    BY <1>6, <2>2, <2>3
<1>11. ASSUME n <= w
       PROVE  /\ Answer(a, c, l, e, n) <=> Answer(a, c, l, k, n)
              /\ \A f : Pending(a, c, l, e, f, n) <=> Pending(a, c, l, k, f, n)
  <2>1. \A j \in 1 .. Len(x) : x[j] # w
    BY <1>3, <1>10, <1>11
  <2>2. \A j \in 1 .. Len(x) : /\ x[j] \in EndedBy(l, e) <=> x[j] \in EndedBy(l, k)
                               /\ x[j] \in EndedBy(l, k) =>
                                    (SatisfiedAt(c, l, e, x[j]) <=> SatisfiedAt(c, l, k, x[j]))
    BY <1>7, <1>9, <2>1
  <2> QED
    BY <1>6, <2>2 DEF Answer, Pending
<1>12. ASSUME n > w
       PROVE  /\ ~Answer(a, c, l, k, n)
              /\ \A f : Pending(a, c, l, e, f, n) <=>
                          Pending(a, c, l, k, f, n) /\ SatisfiedAt(c, l, e, w)
              /\ IF p = 1
                   THEN Answer(a, c, l, e, n) <=>
                          Pending(a, c, l, k, w, n) /\ SatisfiedAt(c, l, e, w)
                   ELSE ~Answer(a, c, l, e, n)
  <2>1. p \in 1 .. Len(x) /\ x[p] = w
    BY <1>3, <1>10, <1>12
  <2>2. ~Answer(a, c, l, k, n)
    BY <1>6, <1>8, <2>1 DEF Answer
  <2>3. ASSUME NEW f
        PROVE  Pending(a, c, l, e, f, n) <=>
                 Pending(a, c, l, k, f, n) /\ SatisfiedAt(c, l, e, w)
    <3>1. \A j \in 1 .. Len(x) :
            (x[j] \in EndedBy(l, e) => SatisfiedAt(c, l, e, x[j])) <=>
              /\ x[j] \in EndedBy(l, k) => SatisfiedAt(c, l, k, x[j])
              /\ x[j] = w => SatisfiedAt(c, l, e, x[j])
      BY <1>7, <1>8, <1>9
    <3> QED
      BY <1>6, <2>1, <3>1 DEF Pending
  <2>4. CASE p = 1
    <3>1. ASSUME NEW j \in 1 .. Len(x) PROVE x[j] \in EndedBy(l, e)
      <4> SUFFICES ASSUME x[j] \notin EndedBy(l, k) PROVE x[j] = w
        BY <1>7
      <4>1. \E y \in 1 .. Len(b) : b[y] = x[j]
        BY <1>1, <1>3, <1>6, OpenOrEnded
      <4> QED
        BY <1>2, <1>5, <2>4, <4>1
    <3>2. x # <<>> /\ x[1] = w
      BY <2>1, <2>4
    <3>3. Pending(a, c, l, e, w, n) <=> Answer(a, c, l, e, n)
      BY <1>6, <3>1, <3>2 DEF Pending, Answer
    <3> QED
      BY <2>2, <2>3, <2>4, <3>3
  <2>5. CASE p # 1
    <3>1. b[1] < b[p]
      <4>1. \A i \in 1 .. Len(b) : \A j \in 1 .. Len(b) : i < j => b[i] < b[j]
        BY <1>1, <1>4 DEF Nesting
      <4>2. 1 \in 1 .. Len(b) /\ p \in 1 .. Len(b) /\ 1 < p
        BY <1>2, <2>5
      <4> QED
        BY <4>1, <4>2
    <3>2. b[1] \in Nat
      BY <1>2
    <3>3. 1 \in 1 .. Len(x) /\ x[1] = b[1]
      <4>1. b[1] < n
        BY <1>3, <1>5, <1>12, <3>1, <3>2
      <4> QED
        BY <1>1, <1>2, <1>3, <1>6, <4>1, InsideSince
    <3>4. x[1] \notin EndedBy(l, e)
      BY <1>5, <1>7, <1>8, <3>1, <3>2, <3>3
    <3>5. ~Answer(a, c, l, e, n)
      BY <1>6, <3>3, <3>4 DEF Answer
    <3> QED
      BY <2>2, <2>3, <2>5, <3>5
  <2> QED
    BY <2>4, <2>5
<1>13. Decides(a, c, l, k, e, p, w, n)
  BY <1>11, <1>12 DEF Decides
<1> QED
  BY <1>1, <1>2, <1>5, <1>13

(* The end of an element: candidates inside it are released if it is the
   outermost and holds, kept if it holds inside another, removed if it fails. *)
LEMMA EndsRight ==
  ASSUME NEW l, NEW A, Nests(qa, l, A), NEW k \in Nat, k < Len(l), NEW e, e = k + 1,
         NEW level, OrderedBy(qa, level),
         NEW pf, Right(qa, ctx, l, k, A[k], pf), l[e].mark = Ends
  PROVE  Right(qa, ctx, l, e, A[e], filterTuple(pf, l[e]))
<1>1. PICK b \in Seq(Nat), d \in Seq(Nat) : b = A[k] /\ d = A[e]
  BY StepsBetween
<1>2. PICK t, g : t = l[e] /\ g = filterTuple(pf, t)
  OBVIOUS
<1>3. e \in Nat /\ e \in 1 .. Len(l) /\ k \in 0 .. Len(l) /\ e \in 0 .. Len(l)
  BY DEF Nests, Listed
<1>4. Fits(qa, l, b, d, e) /\ Nesting(l, A, k)
  BY <1>1, StepsBetween
<1>5. b # <<>> /\ d = Front(b) /\ l[e].around = b
  BY <1>4, MarksDiffer DEF Fits
<1>6. PICK p \in Nat \ {0} : p = Len(b) /\ p \in 1 .. p /\ 1 \in 1 .. p
  <2>1. Len(b) \in Nat \ {0}
    BY <1>5, EmptySeq
  <2> QED
    BY <2>1
<1>7. Last(b) = b[p] /\ Len(d) = p - 1 /\ \A i \in 1 .. p - 1 : d[i] = b[i]
  BY <1>5, <1>6, FrontFacts
<1>8. PICK w \in Nat : w = b[p] /\ w \in 1 .. k /\ l[w].mark = Begins
  <2>1. \A i \in 1 .. Len(b) : b[i] \in 1 .. k /\ l[b[i]].mark = Begins
    BY <1>1, <1>4 DEF Nesting
  <2>2. b[p] \in 1 .. k /\ l[b[p]].mark = Begins
    BY <1>6, <2>1
  <2> QED
    BY <2>2
<1>9. Shaped(qa, ctx, l, d, g)
  BY <1>1, <1>2, ShapedStep DEF Right
<1>10. PICK s, pc, u, o : s = pf.pstack /\ pc = pf.predicate_conditions
                          /\ u = pf.buffer /\ o = pf.output
  OBVIOUS
<1>11. /\ Shaped(qa, ctx, l, b, pf) /\ Waiting(qa, ctx, l, k, b, u) /\ Released(qa, ctx, l, k, b, o)
       /\ Pointing(b, s, u) /\ Valued(ctx, l, k, b, pc) /\ IsFilter(qa, pf)
  BY <1>1, <1>10 DEF Right, Shaped
<1>12. s \in Seq(Marker(qa)) /\ u \in Seq(Nat) /\ o \in Seq(Nat) /\ Len(s) = p
       /\ pc = [q \in PredicatesOf(qa) |-> pc[q]]
  BY <1>6, <1>10, <1>11 DEF IsFilter, Shaped
<1>13. PICK z, first : z = l[w].state /\ first = s[p].output_buffer_pointer
                       /\ s[p].predicate_state = z /\ first <= Len(u)
  BY <1>6, <1>8, <1>10, <1>11 DEF Shaped
<1>14. PICK f \in Seq(Marker(qa)) : f = Front(s) /\ Last(s) = s[p] /\ Len(f) = p - 1
                                    /\ \A i \in 1 .. p - 1 : f[i] = s[i]
  <2>1. s # <<>>
    BY <1>6, <1>12
  <2>2. /\ Front(s) \in Seq(Marker(qa)) /\ Last(s) = s[p] /\ Len(Front(s)) = p - 1
        /\ \A i \in 1 .. p - 1 : Front(s)[i] = s[i]
    BY <1>12, <2>1, FrontFacts
  <2> QED
    BY <2>2
<1>15. PICK holds \in BOOLEAN : holds <=> Holds(ctx, pf, z)
  OBVIOUS
<1>16. PICK v, x : /\ v = IF holds /\ p # 1 THEN u ELSE SubSeq(u, 1, first)
                   /\ x = IF holds /\ p = 1 THEN o \o SubSeq(u, first + 1, Len(u)) ELSE o
  OBVIOUS
<1>17. /\ g = [pstack |-> f, predicate_conditions |-> [pc EXCEPT ![z] = ClearedIn(ctx, z)],
               buffer |-> v, output |-> x]
       /\ z \in PredicatesOf(qa) /\ first \in Nat
  <2>1. pf.pstack # <<>> /\ z = Last(pf.pstack).predicate_state
        /\ first = Last(pf.pstack).output_buffer_pointer
    BY <1>6, <1>10, <1>12, <1>13, <1>14
  <2>2. g = EndElement(pf)
    BY <1>2, MarksDiffer, TupleCases
  <2>3. /\ g = [pstack |-> Front(pf.pstack),
               predicate_conditions |-> [pf.predicate_conditions EXCEPT ![z] = ClearedIn(ctx, z)],
               buffer |-> IF Holds(ctx, pf, z) /\ Len(pf.pstack) # 1 THEN pf.buffer
                          ELSE SubSeq(pf.buffer, 1, first),
               output |-> IF Holds(ctx, pf, z) /\ Len(pf.pstack) = 1
                            THEN pf.output \o SubSeq(pf.buffer, first + 1, Len(pf.buffer))
                            ELSE pf.output]
        /\ z \in Predicates /\ first \in Nat
    BY <1>11, <2>1, <2>2, EndFields
  <2>4. /\ f = Front(pf.pstack)
        /\ v = IF Holds(ctx, pf, z) /\ Len(pf.pstack) # 1 THEN pf.buffer
               ELSE SubSeq(pf.buffer, 1, first)
        /\ x = IF Holds(ctx, pf, z) /\ Len(pf.pstack) = 1
                 THEN pf.output \o SubSeq(pf.buffer, first + 1, Len(pf.buffer))
                 ELSE pf.output
    BY <1>10, <1>12, <1>14, <1>15, <1>16
  <2> QED
    BY <1>10, <2>3, <2>4, Zenon DEF Predicates
<1>18. holds <=> SatisfiedAt(ctx, l, e, w)
  <2>1. pc[z] = TableAt(ctx, l, k, w)
    BY <1>6, <1>8, <1>11, <1>13 DEF Valued
  <2>2. \A name : ~IsValue(ctx, l, e, w, name)
    BY MarksDiffer DEF IsValue
  <2>3. TableAt(ctx, l, e, w) = TableAt(ctx, l, k, w)
    BY <2>2, TableStays
  <2> QED
    BY <1>10, <1>13, <1>15, <2>1, <2>3 DEF Holds, SatisfiedAt
<1>19. EndedBy(l, e) = EndedBy(l, k) \union {w}
  <2>1. EndedBy(l, e) = IF l[e].mark = Ends THEN EndedBy(l, k) \union {Last(l[e].around)}
                                            ELSE EndedBy(l, k)
    BY <1>3, EndedOfMore
  <2> QED
    BY <1>5, <1>7, <1>8, <2>1
<1>20. \A n \in 1 .. k : Decides(qa, ctx, l, k, e, p, w, n)
  <2>1. EndedBy(l, e) = EndedBy(l, k) \union {A[k][Len(A[k])]} /\ A[k] # <<>>
    BY <1>1, <1>5, <1>6, <1>8, <1>19
  <2>2. \A n \in 1 .. k : Decides(qa, ctx, l, k, e, Len(A[k]), A[k][Len(A[k])], n)
    BY <2>1, EndDecides
  <2> QED
    BY <1>1, <1>6, <1>8, <2>2
<1>21. /\ ~Candidate(qa, l, e) /\ ~Candidate(qa, l, w)
       /\ \A n : n \in 1 .. e <=> n \in 1 .. k \/ n = e
  <2>1. ~Candidate(qa, l, e)
    BY MarksDiffer, Zenon DEF Candidate
  <2>2. ~Candidate(qa, l, w)
    BY <1>8, MarksDiffer, Zenon DEF Candidate
  <2>3. \A n : n \in 1 .. e <=> n \in 1 .. k \/ n = e
    OBVIOUS
  <2> QED
    BY <2>1, <2>2, <2>3
<1>22. /\ \A j \in 1 .. Len(u) : u[j] \in 1 .. k
       /\ \A j \in 1 .. Len(o) : o[j] \in 1 .. k
  BY <1>11, InBounds
<1>23. \A j \in 1 .. Len(u) : j <= first <=> u[j] < w
  BY <1>6, <1>8, <1>11, <1>13 DEF Pointing
<1>24. /\ SubSeq(u, 1, first) \in Seq(Nat) /\ Len(SubSeq(u, 1, first)) = first
       /\ \A j \in 1 .. first : SubSeq(u, 1, first)[j] = u[j]
  BY <1>12, <1>13, <1>17, Prefix
<1>25. /\ Len(v) \in Nat /\ Len(v) <= Len(u)
       /\ \A j \in 1 .. Len(v) : v[j] = u[j]
  <2>1. CASE holds /\ p # 1
    BY <1>12, <1>16, <2>1
  <2>2. CASE ~(holds /\ p # 1)
    BY <1>13, <1>16, <1>17, <1>24, <2>2
  <2> QED
    BY <2>1, <2>2
<1>26. Increasing(v)
  <2>1. \A j \in 1 .. Len(v) : j \in 1 .. Len(u)
    BY <1>12, <1>25
  <2> QED
    BY <1>11, <1>25, <2>1 DEF Waiting, Increasing
<1>27. Pointing(d, f, v)
  <2> SUFFICES ASSUME NEW i \in 1 .. p - 1, NEW j \in 1 .. Len(v)
               PROVE  j <= f[i].output_buffer_pointer <=> v[j] < d[i]
    BY <1>7 DEF Pointing
  <2>0. Len(u) \in Nat
    BY <1>12
  <2>1. i \in 1 .. p /\ j \in 1 .. Len(u)
    BY <1>25, <2>0
  <2>2. j <= s[i].output_buffer_pointer <=> u[j] < b[i]
    BY <1>6, <1>11, <2>1 DEF Pointing
  <2> QED
    BY <1>7, <1>14, <1>25, <2>2
<1>28. Valued(ctx, l, e, d, [pc EXCEPT ![z] = ClearedIn(ctx, z)])
  <2> SUFFICES ASSUME NEW i \in 1 .. p - 1
               PROVE  [pc EXCEPT ![z] = ClearedIn(ctx, z)][l[d[i]].state] = TableAt(ctx, l, e, d[i])
    BY <1>7 DEF Valued
  <2>1. i \in 1 .. p /\ i < p /\ d[i] = b[i] /\ b[i] \in Nat
    <3>1. i \in 1 .. p /\ i < p
      OBVIOUS
    <3>2. d[i] = b[i]
      BY <1>7
    <3>3. b[i] \in Nat
      BY <1>6, <3>1
    <3> QED
      BY <3>1, <3>2, <3>3
  <2>2. l[b[i]].state \in PredicatesOf(qa)
    BY <1>1, <1>3, <1>6, <2>1, OpenStates
  <2>3. l[b[i]].state # z
    <3>1. Ascends(level, l, b)
      BY <1>1, <1>3, OpenAscend
    <3>2. level[l[b[i]].state] < level[l[b[p]].state]
      BY <1>6, <2>1, <3>1 DEF Ascends
    <3>3. level \in [PredicatesOf(qa) -> 0 .. qa.n]
      BY DEF OrderedBy
    <3>4. level[l[b[i]].state] \in Int /\ level[z] \in Int /\ l[b[p]].state = z
      <4>1. l[b[p]].state = z
        BY <1>8, <1>13
      <4>2. level[l[b[i]].state] \in 0 .. qa.n
        BY <2>2, <3>3
      <4>3. level[z] \in 0 .. qa.n
        BY <1>17, <3>3
      <4> QED
        BY <4>1, <4>2, <4>3
    <3>5. PICK y : y = l[b[i]].state
      OBVIOUS
    <3>6. level[y] < level[z] /\ level[y] \in Int /\ level[z] \in Int
      BY <3>2, <3>4, <3>5
    <3>7. level[y] # level[z]
      BY <3>6
    <3>8. y # z
      BY <3>7
    <3> QED
      BY <3>5, <3>8
  <2>4. pc[l[b[i]].state] = TableAt(ctx, l, k, b[i])
    BY <1>6, <1>11, <2>1 DEF Valued
  <2>5. \A name : ~IsValue(ctx, l, e, b[i], name)
    BY MarksDiffer DEF IsValue
  <2>6. TableAt(ctx, l, e, b[i]) = TableAt(ctx, l, k, b[i])
    BY <2>1, <2>5, TableStays
  <2>7. [pc EXCEPT ![z] = ClearedIn(ctx, z)][l[b[i]].state] = pc[l[b[i]].state]
    BY <1>12, <2>2, <2>3
  <2> QED
    BY <2>1, <2>4, <2>6, <2>7
<1>29. /\ Waiting(qa, ctx, l, e, d, v)
       /\ Released(qa, ctx, l, e, d, x)
  <2>1. CASE p # 1
    <3>1. d # <<>> /\ d[1] = b[1]
      <4>1. 1 \in 1 .. p - 1
        BY <1>6, <2>1
      <4> QED
        BY <1>7, <4>1
    <3>2. ASSUME NEW n
          PROVE  In(n, v) <=> n \in 1 .. e /\ Pending(qa, ctx, l, e, d[1], n)
      <4>1. In(n, v) <=> In(n, u) /\ (holds \/ n <= w)
        <5>1. CASE holds
          <6>1. v = u
            BY <1>16, <2>1, <5>1
          <6> QED
            BY <5>1, <6>1
        <5>2. CASE ~holds
          <6>1. v = SubSeq(u, 1, first)
            BY <1>16, <5>2
          <6>2. ASSUME In(n, v) PROVE In(n, u) /\ n <= w
            <7>1. PICK j \in 1 .. first : v[j] = n /\ v[j] = u[j]
              BY <1>24, <6>1, <6>2 DEF In
            <7>2. j \in 1 .. Len(u) /\ j <= first
              BY <1>12, <1>13, <1>17
            <7> QED
              BY <1>8, <1>22, <1>23, <7>1, <7>2 DEF In
          <6>3. ASSUME In(n, u), n <= w PROVE In(n, v)
            <7>1. PICK j \in 1 .. Len(u) : u[j] = n
              BY <6>3 DEF In
            <7>2. n # w
              BY <1>11, <1>21, <6>3 DEF Waiting, Pending
            <7>3. n \in Nat /\ n < w
              BY <1>8, <1>22, <6>3, <7>1, <7>2
            <7>4. j \in 1 .. first
              BY <1>17, <1>23, <7>1, <7>3
            <7> QED
              BY <1>24, <6>1, <7>1, <7>4 DEF In
          <6> QED
            BY <5>2, <6>2, <6>3
        <5> QED
          BY <5>1, <5>2
      <4>2. In(n, u) <=> n \in 1 .. k /\ Pending(qa, ctx, l, k, b[1], n)
        BY <1>5, <1>11 DEF Waiting
      <4>3. ASSUME n \in 1 .. k
            PROVE  Pending(qa, ctx, l, e, b[1], n) <=>
                     Pending(qa, ctx, l, k, b[1], n) /\ (holds \/ n <= w)
        <5>1. Decides(qa, ctx, l, k, e, p, w, n)
          BY <1>20, <4>3
        <5>2. n <= w \/ n > w
          BY <1>8, <4>3
        <5>3. ~(n <= w /\ n > w)
          BY <1>8, <4>3
        <5> QED
          BY <1>18, <5>1, <5>2, <5>3 DEF Decides
      <4>4. ~Pending(qa, ctx, l, e, b[1], e)
        BY <1>21 DEF Pending
      <4> QED
        BY <1>21, <3>1, <4>1, <4>2, <4>3, <4>4
    <3>3. x = o
      BY <1>16, <2>1
    <3>4. ASSUME NEW n
          PROVE  In(n, o) <=> n \in 1 .. e /\ Answer(qa, ctx, l, e, n)
      <4>1. In(n, o) <=> n \in 1 .. k /\ Answer(qa, ctx, l, k, n)
        BY <1>11 DEF Released
      <4>2. ASSUME n \in 1 .. k
            PROVE  Answer(qa, ctx, l, e, n) <=> Answer(qa, ctx, l, k, n)
        <5>1. Decides(qa, ctx, l, k, e, p, w, n)
          BY <1>20, <4>2
        <5>2. n <= w \/ n > w
          BY <1>8, <4>2
        <5> QED
          BY <2>1, <5>1, <5>2 DEF Decides
      <4>3. ~Answer(qa, ctx, l, e, e)
        BY <1>21 DEF Answer
      <4> QED
        BY <1>21, <4>1, <4>2, <4>3
    <3>5. Increasing(o) /\ \A i \in 1 .. Len(o) : o[i] < d[1]
      BY <1>5, <1>11, <3>1 DEF Released
    <3>6. Waiting(qa, ctx, l, e, d, v)
      BY <1>26, <3>1, <3>2 DEF Waiting
    <3>7. Released(qa, ctx, l, e, d, o)
      BY <3>4, <3>5 DEF Released
    <3> QED
      BY <3>3, <3>6, <3>7
  <2>2. CASE p = 1
    <3>1. d = <<>>
      <4>1. Len(d) = 0
        BY <1>7, <2>2
      <4> QED
        BY <4>1, EmptySeq
    <3>2. first = 0 /\ b[1] = w
      BY <1>5, <1>8, <1>10, <1>11, <1>13, <2>2 DEF Shaped
    <3>3. Waiting(qa, ctx, l, e, d, v)
      <4>1. Len(v) = 0
        BY <1>16, <1>24, <2>2, <3>2
      <4>2. \A n : ~In(n, v)
        BY <4>1 DEF In
      <4> QED
        BY <1>26, <3>1, <4>2 DEF Waiting
    <3>4. ASSUME NEW n
          PROVE  n \in 1 .. e /\ Answer(qa, ctx, l, e, n) <=>
                   In(n, o) \/ (holds /\ In(n, u))
      <4>1. In(n, o) <=> n \in 1 .. k /\ Answer(qa, ctx, l, k, n)
        BY <1>11 DEF Released
      <4>2. In(n, u) <=> n \in 1 .. k /\ Pending(qa, ctx, l, k, w, n)
        BY <1>5, <1>11, <3>2 DEF Waiting
      <4>3. ASSUME n \in 1 .. k
            PROVE  Answer(qa, ctx, l, e, n) <=>
                     Answer(qa, ctx, l, k, n) \/ (holds /\ Pending(qa, ctx, l, k, w, n))
        <5>1. Decides(qa, ctx, l, k, e, p, w, n)
          BY <1>20, <4>3
        <5>2. CASE n <= w
          <6>1. ~Pending(qa, ctx, l, k, w, n)
            <7> SUFFICES ASSUME Pending(qa, ctx, l, k, w, n) PROVE FALSE
              OBVIOUS
            <7>1. n \in 1 .. Len(l)
              BY <1>3, <4>3
            <7>2. l[n].around \in Seq(Nat) /\ l[n].around # <<>> /\ l[n].around[1] = w
              BY <7>1, AroundIs DEF Pending
            <7>3. 1 \in 1 .. Len(l[n].around)
              BY <7>2, EmptySeq
            <7>4. l[n].around[1] \in 1 .. n - 1
              BY <7>1, <7>3, AroundIs
            <7>5. n \in Nat /\ w \in Nat
              BY <1>8, <4>3
            <7>6. w \in 1 .. n - 1
              BY <7>2, <7>4
            <7> QED
              BY <5>2, <7>5, <7>6
          <6> QED
            BY <5>1, <5>2, <6>1 DEF Decides
        <5>3. CASE n > w
          BY <1>18, <2>2, <5>1, <5>3 DEF Decides
        <5> QED
          BY <1>8, <4>3, <5>2, <5>3
      <4>4. ~Answer(qa, ctx, l, e, e)
        BY <1>21 DEF Answer
      <4> QED
        BY <1>21, <4>1, <4>2, <4>3, <4>4
    <3>5. CASE ~holds
      <4>1. x = o
        BY <1>16, <3>5
      <4>2. Increasing(o)
        BY <1>11 DEF Released
      <4>3. \A n : In(n, o) <=> n \in 1 .. e /\ Answer(qa, ctx, l, e, n)
        BY <3>4, <3>5
      <4>4. Released(qa, ctx, l, e, d, o)
        BY <3>1, <4>2, <4>3 DEF Released
      <4> QED
        BY <3>3, <4>1, <4>4
    <3>6. CASE holds
      <4>1. x = o \o SubSeq(u, 1, Len(u))
        <5>1. x = o \o SubSeq(u, first + 1, Len(u))
          BY <1>16, <2>2, <3>6, Zenon
        <5>2. first + 1 = 1
          BY <3>2
        <5> QED
          BY <5>1, <5>2, Zenon
      <4>2. SubSeq(u, 1, Len(u)) = u
        BY <1>12
      <4>3. x = o \o u
        BY <4>1, <4>2
      <4>4. PICK m \in Nat, h \in Nat : m = Len(o) /\ h = Len(u)
        <5>1. Len(o) \in Nat /\ Len(u) \in Nat
          BY <1>12
        <5> QED
          BY <5>1
      <4>5. /\ Len(x) = m + h
            /\ \A i \in 1 .. m : x[i] = o[i]
            /\ \A i \in 1 .. h : x[m + i] = u[i]
        <5>0. o \in Seq(Nat) /\ u \in Seq(Nat)
          BY <1>12
        <5>1. /\ Len(o \o u) = Len(o) + Len(u)
              /\ \A i \in 1 .. Len(o) : (o \o u)[i] = o[i]
              /\ \A i \in 1 .. Len(u) : (o \o u)[Len(o) + i] = u[i]
          BY <5>0, ConcatProperties
        <5> QED
          BY <4>3, <4>4, <5>1
      <4>6. \A i \in 1 .. m + h : i \in 1 .. m \/ \E j \in 1 .. h : i = m + j
        <5> SUFFICES ASSUME NEW i \in 1 .. m + h, i \notin 1 .. m
                     PROVE  \E j \in 1 .. h : i = m + j
          OBVIOUS
        <5>1. i - m \in 1 .. h /\ i = m + (i - m)
          OBVIOUS
        <5> QED
          BY <5>1
      <4>7. ASSUME NEW n PROVE In(n, x) <=> In(n, o) \/ In(n, u)
        <5>1. ASSUME In(n, x) PROVE In(n, o) \/ In(n, u)
          <6>1. PICK i \in 1 .. m + h : x[i] = n
            BY <4>5, <5>1 DEF In
          <6> QED
            BY <4>4, <4>5, <4>6, <6>1 DEF In
        <5>2. ASSUME In(n, o) PROVE In(n, x)
          <6>1. PICK i \in 1 .. m : o[i] = n
            BY <4>4, <5>2 DEF In
          <6>2. i \in 1 .. Len(x)
            BY <4>5
          <6> QED
            BY <4>5, <6>1, <6>2 DEF In
        <5>3. ASSUME In(n, u) PROVE In(n, x)
          <6>1. PICK i \in 1 .. h : u[i] = n
            BY <4>4, <5>3 DEF In
          <6>2. m + i \in 1 .. Len(x)
            BY <4>5
          <6> QED
            BY <4>5, <6>1, <6>2 DEF In
        <5> QED
          BY <5>1, <5>2, <5>3
      <4>8. \A n : In(n, x) <=> n \in 1 .. e /\ Answer(qa, ctx, l, e, n)
        BY <3>4, <3>6, <4>7
      <4>9. \A i \in 1 .. m : o[i] \in Nat /\ o[i] < w
        BY <1>5, <1>11, <1>22, <3>2, <4>4 DEF Released
      <4>10. \A i \in 1 .. h : u[i] \in Nat /\ u[i] >= w
        <5> SUFFICES ASSUME NEW i \in 1 .. h PROVE u[i] \in Nat /\ u[i] >= w
          OBVIOUS
        <5>1. u[i] \in Nat /\ ~(u[i] < w)
          BY <1>22, <1>23, <3>2, <4>4
        <5> QED
          BY <1>8, <5>1
      <4>11. ASSUME NEW i \in 1 .. Len(x), NEW j \in 1 .. Len(x), i < j PROVE x[i] < x[j]
        <5>0. i \in 1 .. m + h /\ j \in 1 .. m + h
          BY <4>5
        <5>1. CASE i \in 1 .. m /\ j \in 1 .. m
          <6>1. o[i] < o[j]
            BY <1>11, <4>4, <4>11, <5>1 DEF Released, Increasing
          <6> QED
            BY <4>5, <5>1, <6>1
        <5>2. CASE i \in 1 .. m /\ j \notin 1 .. m
          <6>1. PICK y \in 1 .. h : j = m + y
            BY <4>6, <5>0, <5>2
          <6>2. x[i] = o[i] /\ x[j] = u[y]
            BY <4>5, <5>2, <6>1
          <6>3. o[i] \in Nat /\ o[i] < w /\ u[y] \in Nat /\ u[y] >= w
            BY <4>9, <4>10, <5>2, <6>1
          <6>4. o[i] < u[y]
            BY <6>3
          <6> QED
            BY <6>2, <6>4
        <5>3. CASE i \notin 1 .. m
          <6>1. PICK y \in 1 .. h : i = m + y
            BY <4>6, <5>0, <5>3
          <6>2. j \notin 1 .. m
            BY <4>11, <6>1
          <6>3. PICK r \in 1 .. h : j = m + r
            BY <4>6, <5>0, <6>2
          <6>4. y < r
            BY <4>11, <6>1, <6>3
          <6>5. u[y] < u[r]
            BY <1>11, <4>4, <6>4 DEF Waiting, Increasing
          <6> QED
            BY <4>5, <6>1, <6>3, <6>5
        <5> QED
          BY <5>1, <5>2, <5>3
      <4>12. Released(qa, ctx, l, e, d, x)
        BY <3>1, <4>8, <4>11 DEF Released, Increasing
      <4> QED
        BY <3>3, <4>12
    <3> QED
      BY <3>5, <3>6
  <2> QED
    BY <2>1, <2>2
<1>30. g.pstack = f /\ g.buffer = v /\ g.output = x
       /\ g.predicate_conditions = [pc EXCEPT ![z] = ClearedIn(ctx, z)]
  BY <1>17
<1>31. Right(qa, ctx, l, e, d, g)
  BY <1>9, <1>27, <1>28, <1>29, <1>30 DEF Right
<1> QED
  BY <1>1, <1>2, <1>31

(* So the conditions of two open elements are never the same ones. *)
LEMMA StatesDiffer ==
  ASSUME NEW a, NEW l, NEW A, Nests(a, l, A), NEW level, OrderedBy(a, level),
         NEW k \in 0 .. Len(l), NEW i \in 1 .. Len(A[k]), NEW j \in 1 .. Len(A[k]), i < j
  PROVE  l[A[k][i]].state # l[A[k][j]].state
<1>1. PICK x, y : x = l[A[k][i]].state /\ y = l[A[k][j]].state
  OBVIOUS
<1>2. Ascends(level, l, A[k])
  BY OpenAscend
<1>3. level[x] < level[y]
  BY <1>1, <1>2 DEF Ascends
<1>4. x \in PredicatesOf(a) /\ y \in PredicatesOf(a)
  BY <1>1, OpenStates
<1>5. level \in [PredicatesOf(a) -> 0 .. a.n]
  BY DEF OrderedBy
<1>6. level[x] \in Int /\ level[y] \in Int
  BY <1>4, <1>5
<1>7. level[x] # level[y]
  BY <1>3, <1>6
<1> QED
  BY <1>1, <1>7

LEMMA TypesDiffer == OUTPUT_CANDIDATE # CONDITION
BY DEF OUTPUT_CANDIDATE, CONDITION

(* A text: a candidate joins the buffer, a condition changes one value. *)
LEMMA TextRight ==
  ASSUME NEW l, NEW A, Nests(qa, l, A), NEW k \in Nat, k < Len(l), NEW e, e = k + 1,
         NEW level, OrderedBy(qa, level),
         NEW q, TellsTextsApart(q), q.qa = qa, q.ctx = ctx, Predicates # {},
         NEW pf, Right(qa, ctx, l, k, A[k], pf), l[e].mark = Plain
  PROVE  Right(qa, ctx, l, e, A[e], filterTuple(pf, l[e]))
<1>1. PICK b \in Seq(Nat) : b = A[k]
  BY StepsBetween
<1>2. PICK t, g : t = l[e] /\ g = filterTuple(pf, t)
  OBVIOUS
<1>3. e \in Nat /\ e \in 1 .. Len(l) /\ k \in 0 .. Len(l) /\ e \in 0 .. Len(l)
  BY DEF Nests, Listed
<1>4. Fits(qa, l, b, A[e], e) /\ Nesting(l, A, k)
  BY <1>1, StepsBetween
<1>5. /\ A[e] = b /\ t.around = b /\ t.at = e /\ t.mark = Plain
      /\ t.state \in Within(qa, StateIn(l, b))
      /\ qa.accept[t.state] \in {OUTPUT_CANDIDATE, CONDITION}
  BY <1>2, <1>4, PlainDiffers, Zenon DEF Fits
<1>6. Shaped(qa, ctx, l, b, g)
  BY <1>1, <1>2, <1>5, ShapedStep DEF Right
<1>7. PICK s, pc, u, o : s = pf.pstack /\ pc = pf.predicate_conditions
                         /\ u = pf.buffer /\ o = pf.output
  OBVIOUS
<1>8. /\ Shaped(qa, ctx, l, b, pf) /\ Waiting(qa, ctx, l, k, b, u) /\ Released(qa, ctx, l, k, b, o)
      /\ Pointing(b, s, u) /\ Valued(ctx, l, k, b, pc) /\ IsFilter(qa, pf)
  BY <1>1, <1>7 DEF Right, Shaped
<1>9. /\ s \in Seq(Marker(qa)) /\ u \in Seq(Nat) /\ o \in Seq(Nat) /\ Len(s) = Len(b)
      /\ pc = [y \in PredicatesOf(qa) |-> pc[y]]
  BY <1>1, <1>7, <1>8 DEF IsFilter, Shaped
<1>10. EndedBy(l, e) = EndedBy(l, k)
  <2>1. l[e].mark # Ends
    BY PlainDiffers, Zenon
  <2>2. EndedBy(l, e) = IF l[e].mark = Ends THEN EndedBy(l, k) \union {Last(l[e].around)}
                                            ELSE EndedBy(l, k)
    BY <1>3, EndedOfMore
  <2> QED
    BY <2>1, <2>2
<1>11. g = ReadText(pf, t)
  BY <1>2, <1>5, PlainDiffers, TupleCases, Zenon
<1>12. ASSUME ~Candidate(qa, l, e)
       PROVE  Waiting(qa, ctx, l, e, b, u) /\ Released(qa, ctx, l, e, b, o)
  <2>1. \A n : /\ (n \in 1 .. e /\ Answer(qa, ctx, l, e, n))
                    <=> (n \in 1 .. k /\ Answer(qa, ctx, l, k, n))
               /\ \A f : (n \in 1 .. e /\ Pending(qa, ctx, l, e, f, n))
                           <=> (n \in 1 .. k /\ Pending(qa, ctx, l, k, f, n))
    BY <1>10, <1>12, NoCandidate
  <2>2. Waiting(qa, ctx, l, e, b, u)
    BY <1>8, <2>1 DEF Waiting
  <2>3. Released(qa, ctx, l, e, b, o)
    BY <1>8, <2>1 DEF Released
  <2> QED
    BY <2>2, <2>3
<1>13. CASE b = <<>>
  <2>1. g = pf
    <3>1. pf.pstack = <<>>
      BY <1>7, <1>9, <1>13, EmptySeq
    <3> QED
      BY <1>11, <3>1, Zenon DEF ReadText
  <2>2. ~Candidate(qa, l, e)
    <3>1. t.state \in Within(qa, 1)
      BY <1>5, <1>13 DEF StateIn
    <3>2. qa.accept[t.state] # OUTPUT_CANDIDATE
      BY <3>1 DEF TellsTextsApart, Predicates
    <3> QED
      BY <1>2, <3>2 DEF Candidate
  <2>3. Valued(ctx, l, e, b, pc) /\ Pointing(b, s, u)
    BY <1>8, <1>13 DEF Valued
  <2>4. Right(qa, ctx, l, e, b, g)
    BY <1>6, <1>7, <1>12, <2>1, <2>2, <2>3 DEF Right
  <2> QED
    BY <1>2, <1>5, <2>4
<1>14. CASE b # <<>>
  <2>1. PICK p \in Nat \ {0} : p = Len(b) /\ p \in 1 .. p /\ 1 \in 1 .. p
    <3>1. Len(b) \in Nat \ {0}
      BY <1>14, EmptySeq
    <3> QED
      BY <3>1
  <2>2. Last(b) = b[p]
    BY <1>14, <2>1, FrontFacts
  <2>3. \A i \in 1 .. p : b[i] \in 1 .. k /\ b[i] \notin EndedBy(l, k) /\ b[i] \in Nat
    <3>1. \A i \in 1 .. Len(b) : b[i] \in 1 .. k /\ b[i] \notin EndedBy(l, k)
      BY <1>1, <1>4 DEF Nesting
    <3> QED
      BY <2>1, <3>1
  <2>4. PICK w \in Nat : w = b[p] /\ w \in 1 .. k
    BY <2>1, <2>3
  <2>5. PICK z : z = l[w].state /\ s[p].predicate_state = z
    BY <1>7, <1>8, <2>1, <2>4 DEF Shaped
  <2>6. Last(s) = s[p] /\ s # <<>>
    <3>1. s # <<>>
      BY <1>9, <2>1
    <3> QED
      BY <1>9, <2>1, <3>1, FrontFacts
  <2>7. PICK name : name = ctx.subtree[t.state][1].name
    OBVIOUS
  <2>8. /\ z \in PredicatesOf(qa) /\ g.pstack = s /\ g.output = o
        /\ IF IsCondition(z, t.state)
             THEN g.buffer = u /\ g.predicate_conditions = [pc EXCEPT ![z] = [pc[z] EXCEPT ![name] = t.text]]
             ELSE g.buffer = Append(u, e) /\ g.predicate_conditions = pc
    <3>1. IsFilter(qa, pf) /\ pf.pstack # <<>> /\ t.at \in Nat
      BY <1>3, <1>5, <1>7, <1>8, <2>6
    <3>2. z = Last(pf.pstack).predicate_state
      BY <1>7, <2>5, <2>6
    <3>3. /\ IsFilter(qa, ReadText(pf, t)) /\ z \in Predicates
          /\ ReadText(pf, t).pstack = pf.pstack
          /\ ReadText(pf, t).output = pf.output
          /\ IF IsCondition(z, t.state)
               THEN /\ ReadText(pf, t).buffer = pf.buffer
                    /\ ReadText(pf, t).predicate_conditions
                         = [pf.predicate_conditions EXCEPT ![z] =
                              [pf.predicate_conditions[z] EXCEPT ![name] = t.text]]
               ELSE /\ ReadText(pf, t).buffer = Append(pf.buffer, t.at)
                    /\ ReadText(pf, t).predicate_conditions = pf.predicate_conditions
      BY <2>7, <3>1, <3>2, ReadFields
    <3> QED
      BY <1>5, <1>7, <1>11, <3>3, Zenon DEF Predicates
  <2>9. IsCondition(z, t.state) <=> Names(ctx, z, t.state)
    BY DEF IsCondition
  <2>10. t.state \in Within(qa, z)
    BY <1>5, <1>14, <2>2, <2>4, <2>5 DEF StateIn
  <2>11. ASSUME NEW i \in 1 .. p, i # p
         PROVE  /\ TableAt(ctx, l, e, b[i]) = TableAt(ctx, l, k, b[i])
                /\ l[b[i]].state # z
    <3>1. i < p /\ i \in 1 .. Len(A[k]) /\ p \in 1 .. Len(A[k])
      BY <1>1, <2>1, <2>11
    <3>2. l[b[i]].state # z
      BY <1>1, <1>3, <2>4, <2>5, <3>1, StatesDiffer
    <3>3. b[i] # w
      BY <2>5, <3>2
    <3>4. \A nm : ~IsValue(ctx, l, e, b[i], nm)
      BY <1>2, <1>5, <2>2, <2>4, <3>3 DEF IsValue
    <3>5. b[i] \in Nat
      BY <2>3
    <3> QED
      BY <3>2, <3>4, <3>5, TableStays
  <2>12. CASE qa.accept[t.state] = CONDITION
    <3>1. Names(ctx, z, t.state)
      BY <2>8, <2>10, <2>12 DEF TellsTextsApart
    <3>2. /\ g.buffer = u
          /\ g.predicate_conditions = [pc EXCEPT ![z] = [pc[z] EXCEPT ![name] = t.text]]
      BY <2>8, <2>9, <3>1
    <3>3. ~Candidate(qa, l, e)
      BY <1>2, <2>12, TypesDiffer DEF Candidate
    <3>4. TableAt(ctx, l, e, w) = [TableAt(ctx, l, k, w) EXCEPT ![name] = t.text]
      <4>1. name \in NamesIn(ctx, z)
        BY <2>7, <3>1 DEF Names
      <4>2. IsValue(ctx, l, e, w, name)
        <5>1. l[e].mark = ""
          BY <1>2, <1>5, Zenon DEF Plain
        <5>2. l[e].around = b /\ Last(b) = w /\ l[w].state = z /\ l[e].state = t.state
          BY <1>2, <1>5, <2>2, <2>4, <2>5
        <5> QED
          BY <1>14, <2>7, <3>1, <5>1, <5>2, Zenon DEF IsValue
      <4>3. \A nm : nm # name => ~IsValue(ctx, l, e, w, nm)
        BY <1>2, <2>7 DEF IsValue
      <4>4. ValueAt(ctx, l, e, w, name) = t.text
        <5>1. w <= k
          BY <2>4
        <5> QED
          BY <1>2, <2>4, <4>2, <5>1, ValuesOfMore
      <4>5. \A nm : nm # name => ValueAt(ctx, l, e, w, nm) = ValueAt(ctx, l, k, w, nm)
        BY <2>4, <4>3, ValuesOfMore
      <4> QED
        BY <2>5, <4>1, <4>4, <4>5 DEF TableAt
    <3>5. Valued(ctx, l, e, b, g.predicate_conditions)
      <4> SUFFICES ASSUME NEW i \in 1 .. p
                   PROVE  g.predicate_conditions[l[b[i]].state] = TableAt(ctx, l, e, b[i])
        BY <2>1 DEF Valued
      <4>1. pc[l[b[i]].state] = TableAt(ctx, l, k, b[i])
        BY <1>8, <2>1 DEF Valued
      <4>2. PICK y : y = l[b[i]].state /\ y \in PredicatesOf(qa)
        BY <1>1, <1>3, <2>1, OpenStates
      <4>3. CASE i = p
        <5>1. y = z /\ b[i] = w
          BY <2>4, <2>5, <4>2, <4>3
        <5>2. g.predicate_conditions[z] = [pc[z] EXCEPT ![name] = t.text]
          BY <1>9, <2>8, <3>2
        <5> QED
          BY <3>4, <4>1, <4>2, <5>1, <5>2
      <4>4. CASE i # p
        <5>1. y # z /\ TableAt(ctx, l, e, b[i]) = TableAt(ctx, l, k, b[i])
          BY <2>11, <4>2, <4>4
        <5>2. g.predicate_conditions[y] = pc[y]
          BY <1>9, <3>2, <4>2, <5>1
        <5> QED
          BY <4>1, <4>2, <5>1, <5>2
      <4> QED
        BY <4>3, <4>4
    <3>6. Right(qa, ctx, l, e, b, g)
      BY <1>6, <1>8, <1>12, <2>8, <3>2, <3>3, <3>5 DEF Right
    <3> QED
      BY <1>2, <1>5, <3>6
  <2>13. CASE qa.accept[t.state] = OUTPUT_CANDIDATE
    <3>1. ~Names(ctx, z, t.state)
      BY <2>8, <2>10, <2>13 DEF TellsTextsApart
    <3>2. g.buffer = Append(u, e) /\ g.predicate_conditions = pc
      BY <2>8, <2>9, <3>1
    <3>3. Valued(ctx, l, e, b, pc)
      <4> SUFFICES ASSUME NEW i \in 1 .. p
                   PROVE  pc[l[b[i]].state] = TableAt(ctx, l, e, b[i])
        BY <2>1 DEF Valued
      <4>1. pc[l[b[i]].state] = TableAt(ctx, l, k, b[i])
        BY <1>8, <2>1 DEF Valued
      <4>2. CASE i = p
        <5>1. b[i] = w
          BY <2>4, <4>2
        <5>2. \A nm : ~IsValue(ctx, l, e, w, nm)
          BY <1>2, <2>5, <3>1 DEF IsValue
        <5>3. TableAt(ctx, l, e, w) = TableAt(ctx, l, k, w)
          BY <5>2, TableStays
        <5> QED
          BY <4>1, <5>1, <5>3
      <4>3. CASE i # p
        BY <2>11, <4>1, <4>3
      <4> QED
        BY <4>2, <4>3
    <3>4. PICK h \in Nat : h = Len(u)
      <4>1. Len(u) \in Nat
        BY <1>9
      <4> QED
        BY <4>1
    <3> DEFINE v == Append(u, e)
    <3>5. Len(v) = h + 1 /\ v[h + 1] = e /\ \A j \in 1 .. h : v[j] = u[j]
      BY <1>3, <1>9, <3>4, AppendProperties
    <3> HIDE DEF v
    <3>6. \A j \in 1 .. h : u[j] \in 1 .. k
      BY <1>8, <3>4, InBounds
    <3>7. \A n : In(n, v) <=> In(n, u) \/ n = e
      <4>1. ASSUME NEW n, In(n, v) PROVE In(n, u) \/ n = e
        <5>1. PICK j \in 1 .. h + 1 : v[j] = n
          BY <3>5, <4>1 DEF In
        <5>2. CASE j = h + 1
          BY <3>5, <5>1, <5>2
        <5>3. CASE j # h + 1
          <6>1. j \in 1 .. h
            BY <5>3
          <6> QED
            BY <3>4, <3>5, <5>1, <6>1 DEF In
        <5> QED
          BY <5>2, <5>3
      <4>2. ASSUME NEW n, In(n, u) PROVE In(n, v)
        <5>1. PICK j \in 1 .. h : u[j] = n
          BY <3>4, <4>2 DEF In
        <5>2. j \in 1 .. Len(v)
          BY <3>5
        <5> QED
          BY <3>5, <5>1, <5>2 DEF In
      <4>3. In(e, v)
        <5>1. h + 1 \in 1 .. Len(v)
          BY <3>5
        <5> QED
          BY <3>5, <5>1 DEF In
      <4> QED
        BY <4>1, <4>2, <4>3
    <3>8. Pending(qa, ctx, l, e, b[1], e)
      <4>1. Candidate(qa, l, e)
        <5>1. l[e].mark = "" /\ qa.accept[l[e].state] = OUTPUT_CANDIDATE
          BY <1>2, <1>5, <2>13, Zenon DEF Plain
        <5> QED
          BY <5>1, Zenon DEF Candidate
      <4>2. l[e].around = b
        BY <1>2, <1>5
      <4>3. \A i \in 1 .. Len(b) : b[i] \notin EndedBy(l, e)
        BY <1>10, <2>1, <2>3
      <4> QED
        BY <1>14, <4>1, <4>2, <4>3 DEF Pending
    <3>9. ~Answer(qa, ctx, l, e, e)
      <4>1. l[e].around = b /\ 1 \in 1 .. Len(b) /\ b[1] \notin EndedBy(l, e)
        BY <1>2, <1>5, <1>10, <2>1, <2>3
      <4> QED
        BY <4>1 DEF Answer
    <3>10. /\ \A n : n \in 1 .. e <=> n \in 1 .. k \/ n = e
           /\ \A n : /\ Answer(qa, ctx, l, e, n) <=> Answer(qa, ctx, l, k, n)
                     /\ \A f : Pending(qa, ctx, l, e, f, n) <=> Pending(qa, ctx, l, k, f, n)
      <4>1. \A n : n \in 1 .. e <=> n \in 1 .. k \/ n = e
        OBVIOUS
      <4>2. \A n : /\ Answer(qa, ctx, l, e, n) <=> Answer(qa, ctx, l, k, n)
                   /\ \A f : Pending(qa, ctx, l, e, f, n) <=> Pending(qa, ctx, l, k, f, n)
        BY <1>10, FateStays
      <4> QED
        BY <4>1, <4>2
    <3>11. Waiting(qa, ctx, l, e, b, v)
      <4>1. ASSUME NEW n PROVE In(n, v) <=> n \in 1 .. e /\ Pending(qa, ctx, l, e, b[1], n)
        <5>1. In(n, u) <=> n \in 1 .. k /\ Pending(qa, ctx, l, k, b[1], n)
          BY <1>8, <1>14 DEF Waiting
        <5> QED
          BY <3>7, <3>8, <3>10, <5>1
      <4>2. ASSUME NEW i \in 1 .. Len(v), NEW j \in 1 .. Len(v), i < j PROVE v[i] < v[j]
        <5>0. i \in 1 .. h /\ j \in 1 .. h + 1
          BY <3>5, <4>2
        <5>1. CASE j = h + 1
          <6>1. v[i] \in 1 .. k /\ v[j] = e
            BY <3>5, <3>6, <5>0, <5>1
          <6> QED
            BY <6>1
        <5>2. CASE j # h + 1
          <6>1. j \in 1 .. h
            BY <5>0, <5>2
          <6>2. u[i] < u[j]
            BY <1>8, <3>4, <4>2, <5>0, <6>1 DEF Waiting, Increasing
          <6> QED
            BY <3>5, <5>0, <6>1, <6>2
        <5> QED
          BY <5>1, <5>2
      <4> QED
        BY <1>14, <4>1, <4>2 DEF Waiting, Increasing
    <3>12. Released(qa, ctx, l, e, b, o)
      BY <1>8, <3>9, <3>10 DEF Released
    <3>13. Pointing(b, s, v)
      <4> SUFFICES ASSUME NEW i \in 1 .. p, NEW j \in 1 .. h + 1
                   PROVE  j <= s[i].output_buffer_pointer <=> v[j] < b[i]
        BY <2>1, <3>5 DEF Pointing
      <4>1. CASE j = h + 1
        <5>1. s[i].output_buffer_pointer <= h /\ s[i].output_buffer_pointer \in Nat
          <6>1. s[i] \in Marker(qa)
            BY <1>9, <2>1, ElementOfSeq
          <6>2. s[i].output_buffer_pointer <= Len(u)
            BY <1>7, <1>8, <2>1 DEF Shaped
          <6> QED
            BY <3>4, <6>1, <6>2 DEF Marker
        <5>2. v[j] = e /\ b[i] \in 1 .. k
          BY <2>3, <3>5, <4>1
        <5>3. ~(j <= s[i].output_buffer_pointer)
          BY <4>1, <5>1
        <5>4. ~(v[j] < b[i])
          BY <5>2
        <5> QED
          BY <5>3, <5>4
      <4>2. CASE j # h + 1
        <5>1. j \in 1 .. h
          BY <4>2
        <5> QED
          BY <1>8, <2>1, <3>4, <3>5, <5>1 DEF Pointing
      <4> QED
        BY <4>1, <4>2
    <3>14. v = g.buffer
      BY <3>2 DEF v
    <3>15. Right(qa, ctx, l, e, b, g)
      BY <1>6, <2>8, <3>2, <3>3, <3>11, <3>12, <3>13, <3>14 DEF Right
    <3> QED
      BY <1>2, <1>5, <3>15
  <2> QED
    BY <1>5, <2>12, <2>13
<1> QED
  BY <1>13, <1>14

-----------------------------------------------------------------------------
(* Piece after piece.                                                      *)

(* Tuples that are added later do not matter. *)
LEMMA TableOfMore ==
  ASSUME NEW c, NEW l, NEW L, NEW k \in Nat, \A i \in 1 .. k : L[i] = l[i], NEW o \in 1 .. k
  PROVE  /\ TableAt(c, L, k, o) = TableAt(c, l, k, o)
         /\ SatisfiedAt(c, L, k, o) <=> SatisfiedAt(c, l, k, o)
<1>1. ASSUME NEW name PROVE ValueAt(c, L, k, o, name) = ValueAt(c, l, k, o, name)
  <2>1. \A n \in o + 1 .. k : n \in 1 .. k
    OBVIOUS
  <2>2. \A n \in o + 1 .. k : IsValue(c, L, n, o, name) <=> IsValue(c, l, n, o, name)
    BY <2>1 DEF IsValue
  <2>3. PICK V : V = ValuesTo(c, l, k, o, name)
    OBVIOUS
  <2>4. V = ValuesTo(c, L, k, o, name)
    BY <2>2, <2>3 DEF ValuesTo
  <2>5. CASE V = {}
    BY <2>3, <2>4, <2>5 DEF ValueAt
  <2>6. CASE V # {}
    <3>1. \A v \in V : v \in o + 1 .. k
      BY <2>3 DEF ValuesTo
    <3>2. Max(V) \in V
      BY <2>6, <3>1, MaxFacts
    <3>3. Max(V) \in 1 .. k
      BY <2>1, <3>1, <3>2
    <3>4. L[Max(V)] = l[Max(V)]
      BY <3>3
    <3> QED
      BY <2>3, <2>4, <2>6, <3>4 DEF ValueAt
  <2> QED
    BY <2>5, <2>6
<1>2. L[o] = l[o]
  OBVIOUS
<1>3. TableAt(c, L, k, o) = TableAt(c, l, k, o)
  BY <1>1, <1>2 DEF TableAt
<1> QED
  BY <1>2, <1>3 DEF SatisfiedAt

LEMMA EndedSame ==
  ASSUME NEW l, NEW L, NEW k \in Nat, \A i \in 1 .. k : L[i] = l[i]
  PROVE  EndedBy(L, k) = EndedBy(l, k)
<1>1. {i \in 1 .. k : L[i].mark = Ends} = {i \in 1 .. k : l[i].mark = Ends}
  OBVIOUS
<1>2. \A m \in {i \in 1 .. k : l[i].mark = Ends} : L[m] = l[m]
  OBVIOUS
<1> QED
  BY <1>1, <1>2 DEF EndedBy

(* So later tuples leave the filter right about what it had. *)
LEMMA RightMore ==
  ASSUME NEW a, NEW c, NEW l, NEW A, Nests(a, l, A), NEW k \in 0 .. Len(l), NEW pf,
         Right(a, c, l, k, A[k], pf), NEW L, \A i \in 1 .. k : L[i] = l[i],
         Shaped(a, c, L, A[k], pf)
  PROVE  Right(a, c, L, k, A[k], pf)
<1>1. k \in Nat
  BY DEF Nests, Listed
<1>2. PICK b \in Seq(Nat) : b = A[k]
  BY DEF Nests
<1>3. Nesting(l, A, k)
  BY NestingHolds
<1>4. \A i \in 1 .. Len(b) : b[i] \in 1 .. k
  BY <1>2, <1>3 DEF Nesting
<1>5. EndedBy(L, k) = EndedBy(l, k)
  BY <1>1, EndedSame
<1>6. EndedBy(l, k) \subseteq 1 .. k
  BY <1>3 DEF Nesting
<1>7. \A o \in 1 .. k : /\ TableAt(c, L, k, o) = TableAt(c, l, k, o)
                        /\ SatisfiedAt(c, L, k, o) <=> SatisfiedAt(c, l, k, o)
  BY <1>1, TableOfMore
<1>8. \A o \in EndedBy(l, k) : SatisfiedAt(c, L, k, o) <=> SatisfiedAt(c, l, k, o)
  BY <1>6, <1>7
<1>9. \A n \in 1 .. k : /\ Answer(a, c, L, k, n) <=> Answer(a, c, l, k, n)
                        /\ \A f : Pending(a, c, L, k, f, n) <=> Pending(a, c, l, k, f, n)
  BY <1>5, <1>8 DEF Answer, Pending, Candidate
<1>10. Waiting(a, c, L, k, b, pf.buffer)
  BY <1>2, <1>9 DEF Right, Waiting
<1>11. Released(a, c, L, k, b, pf.output)
  BY <1>2, <1>9 DEF Right, Released
<1>12. Valued(c, L, k, b, pf.predicate_conditions)
  <2>1. \A i \in 1 .. Len(b) : L[b[i]] = l[b[i]]
    BY <1>4
  <2> QED
    BY <1>2, <1>4, <1>7, <2>1 DEF Right, Valued
<1> QED
  BY <1>2, <1>10, <1>11, <1>12 DEF Right

(* The filter stays right, tuple by tuple. *)
LEMMA RightStep ==
  ASSUME NEW l, NEW A, Nests(qa, l, A), NEW k \in Nat, k < Len(l),
         NEW level, OrderedBy(qa, level),
         NEW q, TellsTextsApart(q), q.qa = qa, q.ctx = ctx, Predicates # {},
         NEW pf, Right(qa, ctx, l, k, A[k], pf)
  PROVE  Right(qa, ctx, l, k + 1, A[k + 1], filterTuple(pf, l[k + 1]))
<1>1. PICK e : e = k + 1
  OBVIOUS
<1>2. Fits(qa, l, A[k], A[e], e)
  BY <1>1, StepsBetween
<1>3. l[e].mark = Begins \/ l[e].mark = Ends \/ l[e].mark = Plain
  BY <1>2, Zenon DEF Fits, Plain
<1>4. CASE l[e].mark = Begins
  BY <1>1, <1>4, BeginsRight
<1>5. CASE l[e].mark = Ends
  BY <1>1, <1>5, EndsRight
<1>6. CASE l[e].mark = Plain
  BY <1>1, <1>6, TextRight
<1> QED
  BY <1>3, <1>4, <1>5, <1>6

(* Without predicates every tuple is an answer. *)
Plainly(k, pf) == Len(pf.output) = k /\ \A i \in 1 .. k : pf.output[i] = i

(* What the filter did with the first k tuples, with predicates or without. *)
Correct(a, c, l, A, k, pf) ==
  IF PredicatesOf(a) = {} THEN Plainly(k, pf) ELSE Right(a, c, l, k, A[k], pf)

(* The filter stays right over a piece. *)
LEMMA PieceRight ==
  ASSUME NEW l, NEW A, Nests(qa, l, A), NEW k \in 0 .. Len(l), NEW tl, Rest(tl, l, k),
         NEW level, OrderedBy(qa, level),
         NEW q, TellsTextsApart(q), q.qa = qa, q.ctx = ctx,
         NEW pf, Shaped(qa, ctx, l, A[k], pf), Correct(qa, ctx, l, A, k, pf)
  PROVE  Correct(qa, ctx, l, A, Len(l), generateFinalOutput(pf, tl))
<1>1. PICK N \in Nat : N = Len(l)
  BY DEF Nests, Listed
<1>2. PICK M \in Nat : M = Len(tl) /\ M = N - k /\ k \in Nat /\ k + M = N
  <2>1. k \in 0 .. N
    BY <1>1
  <2>2. Len(tl) = N - k
    BY <1>1 DEF Rest
  <2> QED
    BY <2>1, <2>2
<1>3. CASE Predicates # {}
  <2>0. PICK f : LeadsTo(f, pf, tl, generateFinalOutput(pf, tl))
    <3>1. Len(tl) \in Nat
      BY <1>2
    <3> QED
      BY <1>3, <3>1, FinalIsLast
  <2>1. /\ generateFinalOutput(pf, tl) = f[Len(tl)]
        /\ f[0] = pf
        /\ \A n \in 1 .. Len(tl) : f[n] = filterTuple(f[n-1], tl[n])
    BY <2>0 DEF LeadsTo
  <2> DEFINE P == {n \in 0 .. M : Right(qa, ctx, l, k + n, A[k + n], f[n])}
  <2>2. 0 \in P
    <3>1. Right(qa, ctx, l, k, A[k], pf)
      BY <1>3 DEF Correct, Predicates
    <3>2. k + 0 = k
      BY <1>2
    <3> QED
      BY <2>1, <3>1, <3>2
  <2>3. ASSUME NEW n \in Nat, n < M, n \in P PROVE n + 1 \in P
    <3>1. PICK e \in Nat : e = k + n
      BY <1>2
    <3>2. e < Len(l) /\ e + 1 = k + (n + 1) /\ n + 1 \in 1 .. M /\ (n + 1) - 1 = n
      BY <1>1, <1>2, <2>3, <3>1
    <3>3. Right(qa, ctx, l, e, A[e], f[n])
      BY <2>3, <3>1
    <3>4. Right(qa, ctx, l, e + 1, A[e + 1], filterTuple(f[n], l[e + 1]))
      BY <1>3, <3>2, <3>3, RightStep
    <3>5. f[n + 1] = filterTuple(f[n], l[e + 1])
      BY <1>2, <2>1, <3>2 DEF Rest
    <3> QED
      BY <3>2, <3>4, <3>5
  <2>4. 0 .. M \subseteq P
    <3> HIDE DEF P
    <3> QED
      BY <2>2, <2>3, BoundedInduction
  <2>5. M \in 0 .. M /\ k + M = Len(l)
    BY <1>1, <1>2
  <2>6. Right(qa, ctx, l, Len(l), A[Len(l)], generateFinalOutput(pf, tl))
    BY <1>2, <2>1, <2>4, <2>5
  <2> QED
    BY <1>3, <2>6 DEF Correct, Predicates
<1>4. CASE Predicates = {}
  <2> DEFINE o == pf.output
             x == [i \in DOMAIN tl |-> tl[i].at]
             g == generateFinalOutput(pf, tl)
  <2>1. Plainly(k, pf) /\ o \in Seq(Nat) /\ IsFilter(qa, pf)
    BY <1>4 DEF Correct, Predicates, Shaped, IsFilter
  <2>2. g = [pf EXCEPT !.output = o \o x]
    <3>1. generateFinalOutput(pf, tl) = [pf EXCEPT !.output = @ \o x]
      BY <1>4, Zenon DEF generateFinalOutput
    <3> QED
      BY <3>1
  <2>3. g.output = o \o x
    <3>1. pf = [pstack |-> pf.pstack, predicate_conditions |-> pf.predicate_conditions,
                buffer |-> pf.buffer, output |-> pf.output]
      BY <2>1 DEF IsFilter
    <3> HIDE DEF o, x, g
    <3> QED
      BY <2>2, <3>1
  <2>4. \A i \in 1 .. M : tl[i].at = k + i
    <3> SUFFICES ASSUME NEW i \in 1 .. M PROVE tl[i].at = k + i
      OBVIOUS
    <3>1. tl[i] = l[k + i] /\ k + i \in 1 .. Len(l)
      BY <1>1, <1>2 DEF Rest
    <3>2. l[k + i].at = k + i
      BY <3>1 DEF Nests, Fits
    <3> QED
      BY <3>1, <3>2
  <2>5. x = [i \in 1 .. M |-> tl[i].at]
    <3>1. DOMAIN tl = 1 .. M
      BY <1>2 DEF Rest, Listed
    <3> QED
      BY <3>1
  <2> HIDE DEF o, x, g
  <2>6. x \in Seq(Nat) /\ Len(x) = M
    <3>1. x \in [1 .. M -> Nat]
      BY <1>2, <2>4, <2>5
    <3> QED
      BY <1>2, <3>1
  <2>7. /\ Len(o \o x) = k + M
        /\ \A i \in 1 .. k : (o \o x)[i] = o[i]
        /\ \A i \in 1 .. M : (o \o x)[k + i] = x[i]
    <3>1. Len(o) = k
      BY <2>1 DEF Plainly, o
    <3>2. /\ Len(o \o x) = Len(o) + Len(x)
          /\ \A i \in 1 .. Len(o) : (o \o x)[i] = o[i]
          /\ \A i \in 1 .. Len(x) : (o \o x)[Len(o) + i] = x[i]
      <4>1. o \in Seq(Nat) /\ x \in Seq(Nat)
        BY <2>1, <2>6
      <4> QED
        BY <4>1, ConcatProperties
    <3> QED
      BY <2>6, <3>1, <3>2
  <2>8. ASSUME NEW i \in 1 .. N PROVE g.output[i] = i
    <3>1. CASE i \in 1 .. k
      BY <2>1, <2>3, <2>7, <3>1 DEF Plainly, o
    <3>2. CASE i \notin 1 .. k
      <4>1. PICK j \in 1 .. M : i = k + j
        <5>1. i - k \in 1 .. M /\ i = k + (i - k)
          BY <1>2, <3>2
        <5> QED
          BY <5>1
      <4>2. x[j] = k + j
        BY <2>4, <2>5
      <4> QED
        BY <2>3, <2>7, <4>1, <4>2
    <3> QED
      BY <3>1, <3>2
  <2>9. Plainly(Len(l), g)
    BY <1>1, <1>2, <2>3, <2>7, <2>8 DEF Plainly
  <2> QED
    BY <1>4, <2>9 DEF Correct, Predicates, g
<1> QED
  BY <1>3, <1>4

-----------------------------------------------------------------------------
(* The inductive invariant.                                                *)

(* The queries are such as the filter is made for. *)
QueriesSuit == \A q \in Queries : TellsTextsApart(q) /\ NestsInOrder(q)

(* The inductive invariant: the filter is right about the tuples it had. *)
RightInv ==
  /\ finish_flag = INPROGRESS
  /\ \E q \in Queries : q.qa = qa /\ q.ctx = ctx
  /\ \E A : /\ Stands(qa, ctx, log, A, handed, elements, tuple_list, TheFilter)
            /\ Correct(qa, ctx, log, A, handed, TheFilter)

(* The engine going on does not matter. *)
LEMMA CorrectMore ==
  ASSUME NEW a, NEW c, NEW l, NEW A, NEW h, NEW open, NEW tl, NEW pf,
         Stands(a, c, l, A, h, open, tl, pf), Correct(a, c, l, A, h, pf),
         NEW L, NEW B, NEW d, NEW s, Stands(a, c, L, B, h, d, s, pf),
         \A i \in 1 .. h : L[i] = l[i], B[h] = A[h]
  PROVE  Correct(a, c, L, B, h, pf)
<1>1. CASE PredicatesOf(a) = {}
  BY <1>1 DEF Correct
<1>2. CASE PredicatesOf(a) # {}
  <2>1. Right(a, c, l, h, A[h], pf)
    BY <1>2 DEF Correct
  <2>2. Nests(a, l, A) /\ h \in 0 .. Len(l)
    BY DEF Stands
  <2>3. Shaped(a, c, L, A[h], pf)
    BY DEF Stands
  <2>4. Right(a, c, L, h, A[h], pf)
    BY <2>1, <2>2, <2>3, RightMore
  <2> QED
    BY <1>2, <2>4 DEF Correct
<1> QED
  BY <1>1, <1>2

LEMMA RightStarts == FinishFlags = {INPROGRESS} /\ QueriesSuit /\ Init => RightInv
<1> SUFFICES ASSUME FinishFlags = {INPROGRESS}, QueriesSuit, Init PROVE RightInv
  OBVIOUS
<1>1. FilterInv
  BY FilterStarts
<1>2. \E q \in Queries : q.qa = qa /\ q.ctx = ctx
  BY DEF Init
<1>3. PICK A : Stands(qa, ctx, log, A, handed, elements, tuple_list, TheFilter)
  BY <1>1 DEF FilterInv
<1>4. PICK e : e = <<>>
  OBVIOUS
<1>5. PICK pf : pf = TheFilter
  OBVIOUS
<1>6. /\ log = e /\ handed = 0
      /\ pf.buffer = e /\ pf.output = e /\ pf.pstack = e
  <2>1. log = e /\ handed = 0 /\ buffer = e /\ output = e /\ pstack = e
    BY <1>4 DEF Init
  <2>2. TheFilter.buffer = buffer /\ TheFilter.output = output /\ TheFilter.pstack = pstack
    BY DEF TheFilter
  <2> QED
    BY <1>5, <2>1, <2>2
<1>7. Len(e) = 0
  BY <1>4
<1>8. Nests(qa, log, A) /\ Shaped(qa, ctx, log, A[handed], TheFilter)
  BY <1>3 DEF Stands
<1>9. A[0] = e /\ Shaped(qa, ctx, log, e, pf)
  <2>1. A[0] = e
    BY <1>4, <1>8 DEF Nests
  <2> QED
    BY <1>5, <1>6, <1>8, <2>1
<1>10. Plainly(0, pf)
  BY <1>6, <1>7 DEF Plainly
<1>11. Right(qa, ctx, log, 0, e, pf)
  <2>1. Increasing(e)
    BY <1>7 DEF Increasing
  <2>2. \A n : ~In(n, e)
    BY <1>7 DEF In
  <2>3. \A n : n \notin 1 .. 0
    OBVIOUS
  <2>4. Waiting(qa, ctx, log, 0, e, e)
    BY <2>1, <2>2, <2>3 DEF Waiting
  <2>5. Released(qa, ctx, log, 0, e, e)
    BY <1>4, <2>1, <2>2, <2>3 DEF Released
  <2>6. Pointing(e, e, e)
    BY <1>7 DEF Pointing
  <2>7. Valued(ctx, log, 0, e, pf.predicate_conditions)
    BY <1>7 DEF Valued
  <2> QED
    BY <1>6, <1>9, <2>4, <2>5, <2>6, <2>7 DEF Right
<1>12. Correct(qa, ctx, log, A, handed, TheFilter)
  BY <1>5, <1>6, <1>9, <1>10, <1>11 DEF Correct
<1> QED
  BY <1>1, <1>2, <1>3, <1>12 DEF RightInv, FilterInv

(* Both halves of Next keep the invariant. *)
LEMMA RightKeeps == QueriesSuit /\ RightInv /\ [Next]_vars => RightInv'
<1> SUFFICES ASSUME QueriesSuit, RightInv, [Next]_vars PROVE RightInv'
  OBVIOUS
<1>1. PICK A : /\ Stands(qa, ctx, log, A, handed, elements, tuple_list, TheFilter)
               /\ Correct(qa, ctx, log, A, handed, TheFilter)
  BY DEF RightInv
<1>2. PICK q \in Queries : q.qa = qa /\ q.ctx = ctx
  BY DEF RightInv
<1>3. TellsTextsApart(q) /\ NestsInOrder(q)
  BY DEF QueriesSuit
<1>4. finish_flag = INPROGRESS
  BY DEF RightInv
<1>5. CASE EndPiece
  <2>1. PICK l, h, pf, tl, g, B :
          /\ l = log /\ h = handed /\ pf = TheFilter /\ tl = tuple_list
          /\ g = generateFinalOutput(pf, tl) /\ B = A
    OBVIOUS
  <2>2. /\ Stands(qa', ctx', log', A, handed', elements', tuple_list', TheFilter')
        /\ qa' = qa /\ ctx' = ctx /\ finish_flag' = INPROGRESS
        /\ log' = l /\ handed' = Len(l) /\ TheFilter' = g
    BY <1>1, <1>4, <1>5, <2>1, PieceEnds
  <2>3. Nests(qa, l, A) /\ h \in 0 .. Len(l) /\ Rest(tl, l, h) /\ Shaped(qa, ctx, l, A[h], pf)
    BY <1>1, <2>1 DEF Stands
  <2>4. Correct(qa, ctx, l, A, h, pf)
    BY <1>1, <2>1
  <2>5. PICK level : OrderedBy(qa, level)
    BY <1>2, <1>3 DEF NestsInOrder, OrderedBy
  <2>6. Correct(qa, ctx, l, A, Len(l), generateFinalOutput(pf, tl))
    BY <1>2, <1>3, <2>3, <2>4, <2>5, PieceRight
  <2>7. Correct(qa', ctx', log', A, handed', TheFilter')
    BY <2>1, <2>2, <2>6
  <2>8. q.qa = qa' /\ q.ctx = ctx'
    BY <1>2, <2>2
  <2> QED
    BY <2>2, <2>7, <2>8 DEF RightInv
<1>6. CASE ~EndPiece
  <2>1. PICK B : Grows(A, B)
    BY <1>1, <1>6, EngineGrows DEF Next
  <2>2. PICK a, c, l, h, open, tl, pf :
          /\ a = qa /\ c = ctx /\ l = log /\ h = handed /\ open = elements
          /\ tl = tuple_list /\ pf = TheFilter
    OBVIOUS
  <2>3. PICK L, d, s : L = log' /\ d = elements' /\ s = tuple_list'
    OBVIOUS
  <2>4. /\ qa' = a /\ ctx' = c /\ finish_flag' = finish_flag
        /\ handed' = h /\ TheFilter' = pf
        /\ B[h] = A[h] /\ \A i \in 1 .. h : L[i] = l[i]
    BY <2>1, <2>2, <2>3 DEF Grows
  <2>5. Stands(qa', ctx', log', B, handed', elements', tuple_list', TheFilter')
    BY <2>1 DEF Grows
  <2>6. Stands(a, c, L, B, h, d, s, pf)
    BY <2>3, <2>4, <2>5
  <2>7. Stands(a, c, l, A, h, open, tl, pf) /\ Correct(a, c, l, A, h, pf)
    BY <1>1, <2>2
  <2>8. Correct(a, c, L, B, h, pf)
    BY <2>4, <2>6, <2>7, CorrectMore
  <2>9. Correct(qa', ctx', log', B, handed', TheFilter')
    BY <2>3, <2>4, <2>8
  <2>10. q.qa = qa' /\ q.ctx = ctx'
    BY <1>2, <2>2, <2>4
  <2> QED
    BY <1>4, <2>4, <2>5, <2>9, <2>10 DEF RightInv
<1> QED
  BY <1>5, <1>6

(* What the property says of a tuple, on the definitions of the proof. *)
LEMMA AnswersAre ==
  ASSUME NEW A, Nests(qa, log, A), handed \in 0 .. Len(log)
  PROVE  \A n \in 1 .. handed : IsAnswer(n) <=> Answer(qa, ctx, log, handed, n)
<1>1. Ended = EndedBy(log, handed)
  BY Zenon DEF Ended, EndedBy, Ends
<1>2. ASSUME NEW o, NEW name PROVE ValueIn(o, name) = ValueAt(ctx, log, handed, o, name)
  BY Zenon DEF ValueIn, ValueAt, ValuesTo, IsValue, IsCondition
<1>3. ASSUME NEW o PROVE Satisfies(o) <=> SatisfiedAt(ctx, log, handed, o)
  <2>1. [name \in conditions(log[o].state) |-> ValueIn(o, name)] = TableAt(ctx, log, handed, o)
    BY <1>2 DEF TableAt, conditions
  <2> QED
    BY <2>1, Zenon DEF Satisfies, SatisfiedAt
<1> SUFFICES ASSUME NEW n \in 1 .. handed
             PROVE  IsAnswer(n) <=> Answer(qa, ctx, log, handed, n)
  OBVIOUS
<1>4. n \in 1 .. Len(log)
  BY DEF Nests, Listed
<1>5. DOMAIN log[n].around = 1 .. Len(log[n].around)
  <2>1. PICK w \in Seq(Nat) : w = log[n].around
    BY <1>4, AroundIs
  <2>2. DOMAIN w = 1 .. Len(w)
    OBVIOUS
  <2> QED
    BY <2>1, <2>2
<1> QED
  BY <1>1, <1>3, <1>5 DEF IsAnswer, Answer, Candidate

(* The invariant says what the property says. *)
LEMMA RightIsKept == QueriesSuit /\ RightInv => KeepsSatisfyingElements
<1> SUFFICES ASSUME QueriesSuit, RightInv PROVE KeepsSatisfyingElements
  OBVIOUS
<1>1. PICK A : /\ Stands(qa, ctx, log, A, handed, elements, tuple_list, TheFilter)
               /\ Correct(qa, ctx, log, A, handed, TheFilter)
  BY DEF RightInv
<1>2. PICK q \in Queries : q.qa = qa /\ q.ctx = ctx
  BY DEF RightInv
<1>3. TellsTextsApart(q)
  BY DEF QueriesSuit
<1>4. Nests(qa, log, A) /\ handed \in 0 .. Len(log) /\ IsFilter(qa, TheFilter)
  BY <1>1 DEF Stands, Shaped
<1>5. TheFilter.output = output
  BY DEF TheFilter
<1>6. output \in Seq(Nat)
  BY <1>4, <1>5 DEF IsFilter
<1>7. DOMAIN output = 1 .. Len(output)
  BY <1>6
<1>8. \A n \in 1 .. handed : IsAnswer(n) <=> Answer(qa, ctx, log, handed, n)
  BY <1>4, AnswersAre
<1>9. CASE PredicatesOf(qa) # {}
  <2>1. Released(qa, ctx, log, handed, A[handed], output)
    BY <1>1, <1>5, <1>9 DEF Correct, Right
  <2>2. Increasing(output) /\ \A n : In(n, output) <=> n \in 1 .. handed /\ Answer(qa, ctx, log, handed, n)
    BY <2>1 DEF Released
  <2>3. \A n : In(n, output) <=> n \in {m \in 1 .. handed : IsAnswer(m)}
    BY <1>8, <2>2
  <2>4. {output[i] : i \in DOMAIN output} = {n \in 1 .. handed : IsAnswer(n)}
    BY <1>7, <2>3 DEF In
  <2>5. \A i, j \in DOMAIN output : i < j => output[i] < output[j]
    BY <1>7, <2>2 DEF Increasing
  <2> QED
    BY <2>4, <2>5 DEF KeepsSatisfyingElements
<1>10. CASE PredicatesOf(qa) = {}
  <2>1. Len(output) = handed /\ \A i \in 1 .. handed : output[i] = i
    BY <1>1, <1>5, <1>10 DEF Correct, Plainly
  <2>2. ASSUME NEW n \in 1 .. handed PROVE IsAnswer(n)
    <3>1. n \in 1 .. Len(log)
      BY <1>4 DEF Nests, Listed
    <3>2. A[n-1] = <<>> /\ Fits(qa, log, A[n-1], A[n], n)
      <4>1. n - 1 \in 0 .. Len(log)
        BY <1>4, <3>1, AroundIs
      <4>2. \A k \in 0 .. Len(log) : A[k] = <<>>
        BY <1>4, <1>10, NoneOpen
      <4> QED
        BY <1>4, <3>1, <4>1, <4>2 DEF Nests
    <3>3. PICK e : e = <<>>
      OBVIOUS
    <3>4. StateIn(log, e) = 1 /\ Len(e) = 0
      BY <3>3 DEF StateIn
    <3>5. /\ log[n].around = e /\ log[n].mark = ""
          /\ log[n].state \in Within(qa, 1)
          /\ qa.accept[log[n].state] \in {OUTPUT_CANDIDATE, CONDITION}
      BY <1>10, <3>2, <3>3, <3>4 DEF Fits
    <3>6. qa.accept[log[n].state] # CONDITION
      BY <1>2, <1>3, <1>10, <3>5 DEF TellsTextsApart
    <3>7. Candidate(qa, log, n)
      BY <3>5, <3>6 DEF Candidate
    <3>8. Answer(qa, ctx, log, handed, n)
      <4>1. Len(log[n].around) = 0
        BY <3>4, <3>5
      <4>2. \A i : i \notin 1 .. 0
        OBVIOUS
      <4>3. \A i : i \notin 1 .. Len(log[n].around)
        BY <4>1, <4>2
      <4> QED
        BY <3>7, <4>3 DEF Answer
    <3> QED
      BY <1>8, <3>8
  <2>3. {output[i] : i \in DOMAIN output} = {n \in 1 .. handed : IsAnswer(n)}
    BY <1>7, <2>1, <2>2
  <2>4. \A i, j \in DOMAIN output : i < j => output[i] < output[j]
    BY <1>7, <2>1
  <2> QED
    BY <2>3, <2>4 DEF KeepsSatisfyingElements
<1> QED
  BY <1>9, <1>10

(* The output of the filter is what the query promises: the values of a
   condition count for their own element wherever they stand in it, and an
   element that fails takes along what was satisfied inside (generateFinalOutput). *)
THEOREM AlwaysSatisfying ==
  FinishFlags = {INPROGRESS} /\ QueriesSuit /\ Spec => []KeepsSatisfyingElements
<1>1. FinishFlags = {INPROGRESS} /\ QueriesSuit /\ Init => RightInv
  BY RightStarts
<1>2. QueriesSuit => []QueriesSuit
  <2>1. QueriesSuit => QueriesSuit'
    BY DEF QueriesSuit
  <2> QED
    BY <2>1, PTL
<1> QED
  BY <1>1, <1>2, RightKeeps, RightIsKept, PTL DEF Spec
=============================================================================
