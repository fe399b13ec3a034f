---------------------- MODULE StreamingAutomatonProofs ----------------------
(***************************************************************************)
(* For every text, every set of query automata and every MAX_STACK: the    *)
(* engine's stacks stay well-formed, and as long as no push was dropped    *)
(* they hold the nesting of the text and the run of the query automaton    *)
(* along the path.                                                         *)
(*                                                                         *)
(* The second part is what its elements, constraints and tuples then say   *)
(* of the text: an answer keeps its start, the constraint table covers the *)
(* run, and the marks of a predicate nest like the elements they stand     *)
(* for.  At the end, that the engine answers the query: with a table that  *)
(* means the steps of a path (QueryMeaning) it implements PathQuery.       *)
(***************************************************************************)
EXTENDS StreamingAutomaton, SequenceTheorems, FiniteSetTheorems, DataInduction, QueryMeaning

-----------------------------------------------------------------------------
(* The input: what each token does to the nesting and to the path.         *)

(* An array counts its element without changing the label otherwise. *)
LEMMA CountedLabel ==
  ASSUME NEW l \in Label
  PROVE  /\ [l EXCEPT !.idx = l.idx + 1] \in Label
         /\ [l EXCEPT !.idx = l.idx + 1].key = l.key
         /\ [l EXCEPT !.idx = l.idx + 1].idx = l.idx + 1
  BY DEF Label

(* A stack of entries with the symbols, and the path, that a value leaves
   when it is complete. *)
LEMMA ValueDoneFacts ==
  ASSUME NEW o \in Seq(Entry), NEW p \in Seq(Label), ValueDone(o, p),
         o = <<>> => p = <<>>,
         o # <<>> => /\ o[Len(o)].sym # "LCB"
                     /\ p # <<>>
  PROVE  /\ open' \in Seq(Entry) /\ path' \in Seq(Label)
         /\ o = <<>> => open' = <<>> /\ path' = <<>> /\ expect' = "end"
         /\ o # <<>> /\ o[Len(o)].sym = "KY" =>
              /\ expect' = "sep"
              /\ Len(open') = Len(o) - 1 /\ Len(path') = Len(p) - 1
              /\ \A i \in 1 .. Len(o) - 1 : open'[i] = o[i]
              /\ \A j \in 1 .. Len(p) - 1 : path'[j] = p[j]
         /\ o # <<>> /\ o[Len(o)].sym = "LB" =>
              /\ expect' = "sep"
              /\ open' = o /\ Len(path') = Len(p)
              /\ \A j \in 1 .. Len(p) - 1 : path'[j] = p[j]
              /\ path'[Len(p)].key = p[Len(p)].key
              /\ path'[Len(p)].idx = p[Len(p)].idx + 1
<1>1. CASE o = <<>>
  BY <1>1 DEF ValueDone
<1>2. CASE o # <<>>
  <2>1. o[Len(o)] \in Entry /\ Len(o) \in Nat \ {0}
    BY <1>2, FrontFacts
  <2>2. o[Len(o)].sym \in {"KY", "LB"}
    BY <1>2, <2>1 DEF Entry, Symbol
  <2>3. p # <<>> /\ Len(p) \in Nat \ {0} /\ p[Len(p)] \in Label
    BY <1>2, FrontFacts
  <2>4. CASE o[Len(o)].sym = "KY"
    <3>1. open' = Front(o) /\ path' = Front(p) /\ expect' = "sep"
      BY <1>2, <2>4 DEF ValueDone
    <3>. QED
      BY <1>2, <2>3, <2>4, <3>1, FrontFacts
  <2>5. CASE o[Len(o)].sym = "LB"
    <3>1. /\ open' = o /\ expect' = "sep"
          /\ path' = [p EXCEPT ![Len(p)] =
                        [p[Len(p)] EXCEPT !.idx = p[Len(p)].idx + 1]]
      BY <1>2, <2>5 DEF ValueDone
    <3> DEFINE bumped == [p[Len(p)] EXCEPT !.idx = p[Len(p)].idx + 1]
    <3>2. bumped \in Label /\ bumped.key = p[Len(p)].key /\ bumped.idx = p[Len(p)].idx + 1
      BY <2>3, CountedLabel
    <3> HIDE DEF bumped
    <3>3. path' = [p EXCEPT ![Len(p)] = bumped]
      BY <3>1 DEF bumped
    <3>4. /\ path' \in Seq(Label) /\ Len(path') = Len(p)
          /\ \A j \in 1 .. Len(p) : path'[j] = IF j = Len(p) THEN bumped ELSE p[j]
      BY <2>3, <3>2, <3>3, ExceptSeq
    <3>. QED
      BY <1>2, <2>3, <2>5, <3>1, <3>2, <3>4
  <2>. QED
    BY <2>2, <2>4, <2>5
<1>. QED
  BY <1>1, <1>2

StreamInv == StreamTypeOK /\ StreamShape

(* A key or container opened where the grammar admits it keeps the shape. *)
LEMMA OpenedShape ==
  ASSUME StreamInv, NEW e \in Entry, open' = Append(open, e),
         e.depth = Len(path),
         IF e.sym = "KY" THEN open # <<>> /\ Innermost = "LCB"
                         ELSE open = <<>> \/ Innermost # "LCB",
         path' \in Seq(Label),
         Len(path') = Len(path) + (IF e.sym = "LCB" THEN 0 ELSE 1),
         pos' \in Nat,
         expect' = IF e.sym = "KY" THEN "value" ELSE "first"
  PROVE  StreamInv'
<1>0. PICK n \in Nat : n = Len(open)
  BY LenProperties DEF StreamInv, StreamTypeOK
<1>1. open \in Seq(Entry) /\ n \in Nat /\ DOMAIN open = 1 .. n /\ Len(path) \in Nat
  BY <1>0, LenProperties DEF StreamInv, StreamTypeOK
<1>2. /\ open' \in Seq(Entry) /\ open' # <<>> /\ Len(open') = n + 1
      /\ \A i \in 1 .. n : open'[i] = open[i]
      /\ open'[n + 1] = e
  BY <1>0, <1>1, AppendProperties
<1>3. DOMAIN open' = 1 .. n + 1
  BY <1>2, LenProperties
<1>4. open = <<>> <=> n = 0
  BY <1>0, <1>1, EmptySeq
<1>5. e.sym \in Symbol
  BY DEF Entry
<1>6. Len(path) = IF n = 0 THEN 0 ELSE open[n].depth + (IF open[n].sym = "LCB" THEN 0 ELSE 1)
  BY <1>0, <1>1, <1>4 DEF StreamInv, StreamShape, LabelsTo
<1>7. \A i \in 1 .. n :
       /\ open[i].depth = IF i = 1 THEN 0 ELSE LabelsTo(i - 1)
       /\ IF open[i].sym = "KY" THEN i > 1 /\ open[i-1].sym = "LCB"
                                ELSE i > 1 => open[i-1].sym # "LCB"
  BY <1>1 DEF StreamInv, StreamShape
<1>8. ASSUME NEW i \in 1 .. n + 1
      PROVE  /\ open'[i].depth = IF i = 1 THEN 0 ELSE LabelsTo(i - 1)'
             /\ IF open'[i].sym = "KY" THEN i > 1 /\ open'[i-1].sym = "LCB"
                                       ELSE i > 1 => open'[i-1].sym # "LCB"
  <2>1. CASE i \in 1 .. n
    <3>1. i - 1 >= 1 => i - 1 \in 1 .. n
      BY <1>1, <2>1
    <3>. QED
      BY <1>1, <1>2, <1>7, <2>1, <3>1 DEF LabelsTo
  <2>2. CASE i = n + 1
    <3>1. CASE n = 0
      BY <1>2, <1>4, <1>6, <2>2, <3>1
    <3>2. CASE n > 0
      <4>1. n \in 1 .. n /\ i - 1 = n /\ i > 1
        BY <1>1, <2>2, <3>2
      <4>2. LabelsTo(n)' = Len(path)
        BY <1>2, <1>6, <3>2, <4>1 DEF LabelsTo
      <4>3. IF e.sym = "KY" THEN open[n].sym = "LCB" ELSE open[n].sym # "LCB"
        BY <1>0, <1>4, <3>2 DEF Innermost
      <4>. QED
        BY <1>2, <2>2, <4>1, <4>2, <4>3
    <3>. QED
      BY <1>1, <3>1, <3>2
  <2>. QED
    BY <1>1, <2>1, <2>2
<1>9. Len(path)' = LabelsTo(n + 1)'
  BY <1>2 DEF LabelsTo
<1>10. (Innermost)' = e.sym
  BY <1>2 DEF Innermost
<1>11. StreamShape'
  BY <1>2, <1>3, <1>5, <1>8, <1>9, <1>10 DEF StreamShape, Symbol
<1>12. StreamTypeOK'
  BY <1>2 DEF StreamTypeOK
<1>. QED
  BY <1>11, <1>12 DEF StreamInv

(* Entries closed from the inside keep the shape, if no key is left without
   its value. *)
LEMMA ClosedShape ==
  ASSUME StreamInv, NEW m \in 0 .. Len(open),
         open' \in Seq(Entry), Len(open') = m,
         \A i \in 1 .. m : open'[i] = open[i],
         path' \in Seq(Label),
         Len(path') = IF m = 0 THEN 0 ELSE LabelsTo(m),
         m > 0 => open[m].sym # "KY",
         pos' \in Nat,
         \/ m = 0 /\ expect' = "end"
         \/ m > 0 /\ expect' = "sep"
         \/ m > 0 /\ expect' = IF open[m].sym = "LCB" THEN "key" ELSE "value"
  PROVE  StreamInv'
<1>1. m \in Nat /\ Len(open) \in Nat /\ DOMAIN open = 1 .. Len(open)
  BY LenProperties DEF StreamInv, StreamTypeOK
<1>2. DOMAIN open' = 1 .. m /\ (open' = <<>> <=> m = 0)
  BY <1>1, LenProperties, EmptySeq
<1>3. \A i \in 1 .. Len(open) :
       /\ open[i].depth = IF i = 1 THEN 0 ELSE LabelsTo(i - 1)
       /\ IF open[i].sym = "KY" THEN i > 1 /\ open[i-1].sym = "LCB"
                                ELSE i > 1 => open[i-1].sym # "LCB"
  BY <1>1 DEF StreamInv, StreamShape
<1>4. ASSUME NEW i \in 1 .. m
      PROVE  /\ open'[i].depth = IF i = 1 THEN 0 ELSE LabelsTo(i - 1)'
             /\ IF open'[i].sym = "KY" THEN i > 1 /\ open'[i-1].sym = "LCB"
                                       ELSE i > 1 => open'[i-1].sym # "LCB"
  <2>1. i - 1 >= 1 => i - 1 \in 1 .. m
    BY <1>1
  <2>2. i \in 1 .. Len(open)
    BY <1>1
  <2>. QED
    BY <1>1, <1>3, <2>1, <2>2 DEF LabelsTo
<1>5. m > 0 => LabelsTo(m)' = LabelsTo(m) /\ (Innermost)' = open[m].sym
  BY <1>1 DEF LabelsTo, Innermost
<1>6. StreamShape'
  BY <1>1, <1>2, <1>4, <1>5 DEF StreamShape
<1>. QED
  BY <1>6 DEF StreamInv, StreamTypeOK

(* A value enclosed by the first m entries and reached by the first l labels
   is complete: its key is closed with it, or its array counts it. *)
ValueEnds(m, l) ==
  /\ m = 0 => Len(open') = 0 /\ Len(path') = 0
  /\ m > 0 /\ open[m].sym = "KY" =>
       /\ m > 1 /\ l > 0
       /\ Len(open') = m - 1 /\ Len(path') = l - 1
       /\ \A i \in 1 .. m - 1 : open'[i] = open[i]
       /\ \A j \in 1 .. l - 1 : path'[j] = path[j]
  /\ m > 0 /\ open[m].sym = "LB" =>
       /\ l > 0
       /\ Len(open') = m /\ Len(path') = l
       /\ \A i \in 1 .. m : open'[i] = open[i]
       /\ \A j \in 1 .. l - 1 : path'[j] = path[j]
       /\ path'[l].key = path[l].key /\ path'[l].idx = path[l].idx + 1
  /\ m > 0 => open[m].sym \in {"KY", "LB"}

(* ValueDone, seen from the stream it is applied to. *)
LEMMA ValueEndsShape ==
  ASSUME StreamInv, pos' \in Nat,
         NEW m \in 0 .. Len(open), NEW l \in 0 .. Len(path),
         NEW o \in Seq(Entry), NEW p \in Seq(Label),
         Len(o) = m, \A i \in 1 .. m : o[i] = open[i],
         Len(p) = l, \A j \in 1 .. l : p[j] = path[j],
         l = IF m = 0 THEN 0 ELSE LabelsTo(m),
         m > 0 => open[m].sym # "LCB",
         ValueDone(o, p)
  PROVE  StreamInv' /\ ValueEnds(m, l)
<1>1. /\ m \in Nat /\ l \in Nat /\ Len(open) \in Nat /\ Len(path) \in Nat
      /\ open \in Seq(Entry) /\ DOMAIN open = 1 .. Len(open)
  BY LenProperties DEF StreamInv, StreamTypeOK
<1>2. (o = <<>> <=> m = 0) /\ (p = <<>> <=> l = 0)
  BY <1>1, EmptySeq
<1>3. m > 0 => /\ open[m] \in Entry /\ o[m] = open[m]
               /\ open[m].depth \in Nat /\ open[m].sym \in {"KY", "LB"}
  <2>1. m > 0 => m \in 1 .. Len(open) /\ m \in 1 .. m
    BY <1>1
  <2>2. m > 0 => open[m] \in Entry
    BY <1>1, <2>1, ElementOfSeq
  <2>. QED
    BY <2>1, <2>2 DEF Entry, Symbol
<1>4. m > 0 => l = open[m].depth + 1 /\ l > 0
  BY <1>1, <1>3 DEF LabelsTo
<1>5. /\ o = <<>> => p = <<>>
      /\ o # <<>> => o[Len(o)].sym # "LCB" /\ p # <<>>
  BY <1>2, <1>3, <1>4
<1>6. /\ open' \in Seq(Entry) /\ path' \in Seq(Label)
      /\ o = <<>> => open' = <<>> /\ path' = <<>> /\ expect' = "end"
      /\ o # <<>> /\ o[Len(o)].sym = "KY" =>
           /\ expect' = "sep"
           /\ Len(open') = Len(o) - 1 /\ Len(path') = Len(p) - 1
           /\ \A i \in 1 .. Len(o) - 1 : open'[i] = o[i]
           /\ \A j \in 1 .. Len(p) - 1 : path'[j] = p[j]
      /\ o # <<>> /\ o[Len(o)].sym = "LB" =>
           /\ expect' = "sep"
           /\ open' = o /\ Len(path') = Len(p)
           /\ \A j \in 1 .. Len(p) - 1 : path'[j] = p[j]
           /\ path'[Len(p)].key = p[Len(p)].key
           /\ path'[Len(p)].idx = p[Len(p)].idx + 1
  BY <1>5, ValueDoneFacts
<1>7. CASE m = 0
  <2>1. Len(open') = 0 /\ Len(path') = 0 /\ expect' = "end"
    BY <1>2, <1>6, <1>7, EmptySeq
  <2>2. StreamInv'
    BY <1>6, <1>7, <2>1, ClosedShape
  <2>. QED
    BY <1>7, <2>1, <2>2 DEF ValueEnds
<1>8. CASE m > 0 /\ open[m].sym = "KY"
  <2>1. /\ m > 1 /\ open[m-1].sym = "LCB" /\ m - 1 \in 1 .. Len(open)
        /\ open[m].depth = LabelsTo(m - 1)
    BY <1>1, <1>8 DEF StreamInv, StreamShape
  <2>2. /\ expect' = "sep" /\ Len(open') = m - 1 /\ Len(path') = l - 1
        /\ \A i \in 1 .. m - 1 : open'[i] = open[i]
        /\ \A j \in 1 .. l - 1 : path'[j] = path[j]
    BY <1>1, <1>2, <1>3, <1>6, <1>8
  <2>3. Len(path') = LabelsTo(m - 1)
    BY <1>3, <1>4, <1>8, <2>1, <2>2
  <2>4. StreamInv'
    BY <1>1, <1>6, <2>1, <2>2, <2>3, ClosedShape
  <2>. QED
    BY <1>4, <1>8, <2>1, <2>2, <2>4 DEF ValueEnds
<1>9. CASE m > 0 /\ open[m].sym = "LB"
  <2>1. /\ expect' = "sep" /\ Len(open') = m /\ Len(path') = l
        /\ \A i \in 1 .. m : open'[i] = open[i]
        /\ \A j \in 1 .. l - 1 : path'[j] = path[j]
        /\ path'[l].key = path[l].key /\ path'[l].idx = path[l].idx + 1
    <3>1. o # <<>> /\ o[Len(o)].sym = "LB" /\ l \in 1 .. l /\ p[l] = path[l]
      BY <1>1, <1>2, <1>3, <1>4, <1>9
    <3>2. /\ expect' = "sep" /\ open' = o /\ Len(path') = Len(p)
          /\ \A j \in 1 .. Len(p) - 1 : path'[j] = p[j]
          /\ path'[Len(p)].key = p[Len(p)].key
          /\ path'[Len(p)].idx = p[Len(p)].idx + 1
      BY <1>6, <3>1
    <3>. QED
      BY <1>1, <3>1, <3>2, SMTT(30)
  <2>2. StreamInv'
    BY <1>1, <1>6, <1>9, <2>1, ClosedShape
  <2>. QED
    BY <1>4, <1>9, <2>1, <2>2 DEF ValueEnds
<1>. QED
  BY <1>1, <1>3, <1>7, <1>8, <1>9

(* The innermost entry, where the grammar closes or continues a container. *)
LEMMA InnermostFacts ==
  ASSUME StreamInv
  PROVE  /\ Len(open) \in Nat /\ Len(path) \in Nat
         /\ open \in Seq(Entry) /\ path \in Seq(Label)
         /\ open = <<>> <=> Len(open) = 0
         /\ Len(path) = IF Len(open) = 0 THEN 0 ELSE LabelsTo(Len(open))
         /\ \A i \in 1 .. Len(open) :
              /\ open[i] \in Entry
              /\ open[i].depth \in Nat /\ open[i].sym \in Symbol
              /\ LabelsTo(i) \in Nat
              /\ open[i].depth = IF i = 1 THEN 0 ELSE LabelsTo(i - 1)
              /\ IF open[i].sym = "KY" THEN i > 1 /\ open[i-1].sym = "LCB"
                                       ELSE i > 1 => open[i-1].sym # "LCB"
<1>1. /\ Len(open) \in Nat /\ Len(path) \in Nat
      /\ open \in Seq(Entry) /\ path \in Seq(Label)
      /\ DOMAIN open = 1 .. Len(open)
  BY LenProperties DEF StreamInv, StreamTypeOK
<1>2. open = <<>> <=> Len(open) = 0
  BY <1>1, EmptySeq
<1>3. ASSUME NEW i \in 1 .. Len(open)
      PROVE  /\ open[i] \in Entry
             /\ open[i].depth \in Nat /\ open[i].sym \in Symbol
             /\ LabelsTo(i) \in Nat
  <2>1. open[i] \in Entry
    BY <1>1, ElementOfSeq
  <2>. QED
    BY <2>1 DEF Entry, LabelsTo
<1>4. /\ Len(path) = IF Len(open) = 0 THEN 0 ELSE LabelsTo(Len(open))
      /\ \A i \in 1 .. Len(open) :
           /\ open[i].depth = IF i = 1 THEN 0 ELSE LabelsTo(i - 1)
           /\ IF open[i].sym = "KY" THEN i > 1 /\ open[i-1].sym = "LCB"
                                    ELSE i > 1 => open[i-1].sym # "LCB"
  BY <1>1, <1>2 DEF StreamInv, StreamShape
<1>. QED
  BY <1>1, <1>2, <1>3, <1>4

(* '}' completes the value that the entries around the object enclose. *)
LEMMA RCBFacts ==
  ASSUME StreamInv, ReadRCB
  PROVE  /\ StreamInv'
         /\ Len(open) > 0 /\ open[Len(open)].sym = "LCB"
         /\ ValueEnds(Len(open) - 1, Len(path))
<1>1. PICK n \in Nat : n = Len(open)
  BY InnermostFacts
<1>2. n > 0 /\ open[n].sym = "LCB"
  BY <1>1, InnermostFacts DEF ReadRCB, StreamInv, StreamShape, Innermost
<1>3. /\ n \in 1 .. n /\ n - 1 \in 0 .. Len(open) /\ Len(path) \in 0 .. Len(path)
      /\ open[n].depth = (IF n = 1 THEN 0 ELSE LabelsTo(n - 1))
      /\ n > 1 => open[n-1].sym # "LCB"
  BY <1>1, <1>2, InnermostFacts, SMTT(30)
<1>4. Len(path) = IF n - 1 = 0 THEN 0 ELSE LabelsTo(n - 1)
  <2>1. LabelsTo(n) = open[n].depth
    BY <1>2, <1>3, InnermostFacts, SMTT(30) DEF LabelsTo
  <2>. QED
    BY <1>1, <1>2, <1>3, <2>1, InnermostFacts
<1>5. /\ Front(open) \in Seq(Entry) /\ Len(Front(open)) = n - 1
      /\ \A i \in 1 .. n - 1 : Front(open)[i] = open[i]
  <2>1. open # <<>> /\ open \in Seq(Entry)
    BY <1>1, <1>2, InnermostFacts
  <2>. QED
    BY <1>1, <2>1, FrontFacts
<1>6. ValueDone(Front(open), path) /\ pos' \in Nat
  BY DEF ReadRCB, StreamInv, StreamTypeOK
<1>7. path \in Seq(Label) /\ \A j \in 1 .. Len(path) : path[j] = path[j]
  BY InnermostFacts
<1>8. n - 1 > 0 => open[n-1].sym # "LCB"
  BY <1>1, <1>3
<1>9. StreamInv' /\ ValueEnds(n - 1, Len(path))
  BY <1>3, <1>4, <1>5, <1>6, <1>7, <1>8, ValueEndsShape
<1>. QED
  BY <1>1, <1>2, <1>9

(* ']' completes the array; the array's own label goes with it. *)
LEMMA RBFacts ==
  ASSUME StreamInv, ReadRB
  PROVE  /\ StreamInv'
         /\ Len(open) > 0 /\ open[Len(open)].sym = "LB"
         /\ Len(path) > 0
         /\ ValueEnds(Len(open) - 1, Len(path) - 1)
<1>1. PICK n \in Nat : n = Len(open)
  BY InnermostFacts
<1>2. n > 0 /\ open[n].sym = "LB"
  BY <1>1, InnermostFacts DEF ReadRB, StreamInv, StreamShape, Innermost
<1>3. /\ n \in 1 .. n /\ n - 1 \in 0 .. Len(open)
      /\ open[n].depth = (IF n = 1 THEN 0 ELSE LabelsTo(n - 1))
      /\ open[n].depth \in Nat
      /\ n > 1 => open[n-1].sym # "LCB"
  BY <1>1, <1>2, InnermostFacts, SMTT(30)
<1>4. Len(path) = open[n].depth + 1
  BY <1>1, <1>2, <1>3, InnermostFacts, SMTT(30) DEF LabelsTo
<1>5. /\ Len(path) - 1 = IF n - 1 = 0 THEN 0 ELSE LabelsTo(n - 1)
      /\ Len(path) > 0 /\ Len(path) - 1 \in 0 .. Len(path)
  BY <1>2, <1>3, <1>4, SMTT(30)
<1>6. /\ Front(open) \in Seq(Entry) /\ Len(Front(open)) = n - 1
      /\ \A i \in 1 .. n - 1 : Front(open)[i] = open[i]
  <2>1. open # <<>> /\ open \in Seq(Entry)
    BY <1>1, <1>2, InnermostFacts
  <2>. QED
    BY <1>1, <2>1, FrontFacts
<1>7. /\ Front(path) \in Seq(Label) /\ Len(Front(path)) = Len(path) - 1
      /\ \A j \in 1 .. Len(path) - 1 : Front(path)[j] = path[j]
  <2>1. path # <<>>
    BY <1>5, EmptySeq
  <2>. QED
    BY <2>1, InnermostFacts, FrontFacts
<1>8. ValueDone(Front(open), Front(path)) /\ pos' \in Nat
  BY DEF ReadRB, StreamInv, StreamTypeOK
<1>9. n - 1 > 0 => open[n-1].sym # "LCB"
  BY <1>1, <1>3
<1>10. StreamInv' /\ ValueEnds(n - 1, Len(path) - 1)
  BY <1>3, <1>5, <1>6, <1>7, <1>8, <1>9, ValueEndsShape
<1>. QED
  BY <1>1, <1>2, <1>5, <1>10

(* A primitive is a value that opens nothing. *)
LEMMA PRIFacts ==
  ASSUME StreamInv, ReadPRI
  PROVE  StreamInv' /\ ValueEnds(Len(open), Len(path))
<1>1. PICK n \in Nat : n = Len(open)
  BY InnermostFacts
<1>2. n > 0 => open[n].sym # "LCB"
  BY <1>1, InnermostFacts
     DEF ReadPRI, ExpectsValue, StreamInv, StreamShape, Innermost
<1>3. /\ n \in 0 .. Len(open) /\ Len(path) \in 0 .. Len(path)
      /\ Len(path) = IF n = 0 THEN 0 ELSE LabelsTo(n)
      /\ open \in Seq(Entry) /\ path \in Seq(Label)
  BY <1>1, InnermostFacts
<1>4. ValueDone(open, path) /\ pos' \in Nat
  BY DEF ReadPRI, StreamInv, StreamTypeOK
<1>5. /\ \A i \in 1 .. n : open[i] = open[i]
      /\ \A j \in 1 .. Len(path) : path[j] = path[j]
  OBVIOUS
<1>6. StreamInv' /\ ValueEnds(n, Len(path))
  BY <1>1, <1>2, <1>3, <1>4, <1>5, ValueEndsShape
<1>. QED
  BY <1>1, <1>6

(* '{', '[' and a key open an entry at the end of the current path. *)
LEMMA OpenFacts ==
  ASSUME StreamInv, NEW s \in Symbol, NEW k \in Keys \union {ARRAY},
         pos' = pos + 1,
         open' = Enter(s),
         path' = IF s = "LCB" THEN path ELSE Append(path, [key |-> k, idx |-> 0]),
         expect' = IF s = "KY" THEN "value" ELSE "first",
         IF s = "KY" THEN expect \in {"first", "key"} /\ Innermost = "LCB"
                     ELSE ExpectsValue
  PROVE  /\ StreamInv'
         /\ open' \in Seq(Entry) /\ path' \in Seq(Label)
         /\ Len(open') = Len(open) + 1
         /\ \A i \in 1 .. Len(open) : open'[i] = open[i]
         /\ open'[Len(open) + 1] = [sym |-> s, from |-> pos + 1, depth |-> Len(path)]
         /\ s = "LCB" => path' = path
         /\ s # "LCB" => /\ Len(path') = Len(path) + 1
                         /\ \A j \in 1 .. Len(path) : path'[j] = path[j]
                         /\ path'[Len(path) + 1] = [key |-> k, idx |-> 0]
<1> DEFINE e == [sym |-> s, from |-> pos + 1, depth |-> Len(path)]
           l == [key |-> k, idx |-> 0]
<1>1. pos \in Nat /\ pos' \in Nat
  BY DEF StreamInv, StreamTypeOK
<1>2. e \in Entry /\ e.sym = s /\ e.depth = Len(path) /\ l \in Label
  BY <1>1, InnermostFacts DEF Entry, Label
<1>3. open' = Append(open, e)
  BY DEF Enter
<1>4. IF s = "KY" THEN open # <<>> /\ Innermost = "LCB"
                  ELSE open = <<>> \/ Innermost # "LCB"
  BY DEF ExpectsValue, StreamInv, StreamShape
<1> HIDE DEF e, l
<1>5. /\ open' \in Seq(Entry) /\ Len(open') = Len(open) + 1
      /\ \A i \in 1 .. Len(open) : open'[i] = open[i]
      /\ open'[Len(open) + 1] = e
  BY <1>2, <1>3, InnermostFacts, AppendProperties
<1>6. CASE s = "LCB"
  <2>1. path' = path /\ Len(path') = Len(path) + 0 /\ path' \in Seq(Label)
    BY <1>6, InnermostFacts
  <2>2. StreamInv'
    BY <1>1, <1>2, <1>3, <1>4, <1>6, <2>1, OpenedShape
  <2>. QED
    BY <1>5, <1>6, <2>1, <2>2 DEF e
<1>7. CASE s # "LCB"
  <2>1. path' = Append(path, l)
    BY <1>7 DEF l
  <2>2. /\ path' \in Seq(Label) /\ Len(path') = Len(path) + 1
        /\ \A j \in 1 .. Len(path) : path'[j] = path[j]
        /\ path'[Len(path) + 1] = l
    BY <1>2, <2>1, InnermostFacts, AppendProperties
  <2>3. StreamInv'
    BY <1>1, <1>2, <1>3, <1>4, <1>7, <2>2, OpenedShape
  <2>. QED
    BY <1>5, <1>7, <2>2, <2>3 DEF e, l
<1>. QED
  BY <1>6, <1>7

(* A comma changes neither nesting nor path. *)
LEMMA COMFacts ==
  ASSUME StreamInv, ReadCOM
  PROVE  StreamInv' /\ open' = open /\ path' = path
<1>1. PICK n \in Nat : n = Len(open)
  BY InnermostFacts
<1>2. n > 0 /\ open[n].sym # "KY" /\ Innermost = open[n].sym
  BY <1>1, InnermostFacts DEF ReadCOM, StreamInv, StreamShape, Innermost
<1>3. /\ n \in 0 .. Len(open) /\ open \in Seq(Entry) /\ path \in Seq(Label)
      /\ Len(path) = IF n = 0 THEN 0 ELSE LabelsTo(n)
  BY <1>1, InnermostFacts
<1>4. /\ open' = open /\ path' = path /\ pos' \in Nat
      /\ expect' = IF open[n].sym = "LCB" THEN "key" ELSE "value"
  BY <1>2 DEF ReadCOM, StreamInv, StreamTypeOK
<1>5. /\ open' \in Seq(Entry) /\ Len(open') = n /\ path' \in Seq(Label)
      /\ \A i \in 1 .. n : open'[i] = open[i]
      /\ Len(path') = IF n = 0 THEN 0 ELSE LabelsTo(n)
  BY <1>1, <1>3, <1>4
<1>6. StreamInv'
  BY <1>2, <1>3, <1>4, <1>5, ClosedShape
<1>. QED
  BY <1>4, <1>6

-----------------------------------------------------------------------------
(* Types of what the actions compute.                                      *)

LEMMA QueryFacts ==
  ASSUME qa \in Queries
  PROVE  /\ 0 \in States(qa) /\ 1 \in States(qa)
         /\ States(qa) \subseteq Int
         /\ INVALID \notin States(qa)
         /\ \A q \in States(qa), c \in Nat, l \in Keys \union {ARRAY} :
              Advance(qa, q, c, l) \in States(qa)
<1>1. IsQueryDFA(qa)
  BY QueriesAssumption
<1>2. qa.n \in Nat \ {0}
  BY <1>1 DEF IsQueryDFA
<1>3. ASSUME NEW q \in States(qa), NEW c \in Nat, NEW l \in Keys \union {ARRAY}
      PROVE  Advance(qa, q, c, l) \in States(qa)
  <2>1. 0 \in States(qa)
    BY <1>2 DEF States
  <2>2. \A x \in qa.names \union {ARRAY, ANY_KEY} : qa.next[q][x] \in States(qa)
    BY <1>1 DEF IsQueryDFA
  <2>3. dfaNextStateByStr(qa, q, l) \in States(qa)
    BY <2>2 DEF dfaNextStateByStr
  <2>. QED
    BY <2>1, <2>3 DEF Advance
<1>. QED
  BY <1>2, <1>3 DEF States, INVALID

LEMMA PushFacts ==
  ASSUME NEW S, NEW s \in Seq(S), NEW x \in S, Len(s) <= MaxStack
  PROVE  /\ Push(s, x) \in Seq(S) /\ Len(Push(s, x)) <= MaxStack
         /\ Len(s) # MaxStack =>
              /\ Len(Push(s, x)) = Len(s) + 1
              /\ \A i \in 1 .. Len(s) : Push(s, x)[i] = s[i]
              /\ Push(s, x)[Len(s) + 1] = x
<1>1. Len(s) \in Nat /\ MaxStack \in Nat
  BY LenProperties, MaxStackAssumption
<1>2. CASE Len(s) < MaxStack
  BY <1>1, <1>2, AppendProperties DEF Push
<1>3. CASE Len(s) = MaxStack
  BY <1>3 DEF Push
<1>. QED
  BY <1>1, <1>2, <1>3

LEMMA PopFacts ==
  ASSUME NEW S, NEW s \in Seq(S)
  PROVE  /\ Pop(s) \in Seq(S) /\ Len(Pop(s)) <= Len(s)
         /\ Len(s) > 0 => /\ Len(Pop(s)) = Len(s) - 1
                          /\ \A i \in 1 .. Len(s) - 1 : Pop(s)[i] = s[i]
<1>1. CASE s = <<>>
  BY <1>1, EmptySeq DEF Pop
<1>2. CASE s # <<>>
  BY <1>2, FrontFacts DEF Pop
<1>. QED
  BY <1>1, <1>2

LEMMA TopFacts ==
  ASSUME NEW s \in Seq(Element)
  PROVE  /\ queryStackTop(s) \in Element \union NoElement
         /\ Len(s) > 0 => /\ queryStackTop(s) = s[Len(s)]
                          /\ queryStackTop(s) \in Element
<1>1. CASE s = <<>>
  BY <1>1, EmptySeq DEF queryStackTop, TopOr, InvalidElement, NoElement
<1>2. CASE s # <<>>
  BY <1>2, FrontFacts DEF queryStackTop, TopOr
<1>. QED
  BY <1>1, <1>2

(* The engine's part of TypeOK, in the current query automaton. *)
LEMMA EngineFacts ==
  ASSUME TypeOK
  PROVE  /\ qa \in Queries /\ cur \in Element \union NoElement
         /\ Defined => cur \in Element
         /\ ss \in Seq(Symbol) /\ Len(ss) \in Nat /\ Len(ss) <= MaxStack
         /\ qs \in Seq(Element) /\ Len(qs) \in Nat /\ Len(qs) <= MaxStack
         /\ tl \in Seq(TupleType)
         /\ ct \in [Keys \union {ARRAY} -> SUBSET States(qa)]
         /\ lost \in BOOLEAN
         /\ pos \in Nat
<1>1. Defined => cur \in Element
  BY DEF TypeOK, Defined, NoElement
<1>. QED
  BY <1>1, LenProperties DEF TypeOK, StreamTypeOK

LEMMA ElementFields ==
  ASSUME NEW e \in Element
  PROVE  /\ e.query_state \in States(qa)
         /\ e.count \in Nat
         /\ e.matched_start \in Nat \union {INVALID}
  BY DEF Element

LEMMA NextElementType ==
  ASSUME TypeOK, Defined, NEW l \in Keys \union {ARRAY}
  PROVE  NextElement(l) \in Element
<1>1. cur.query_state \in States(qa) /\ cur.count \in Nat
  BY EngineFacts, ElementFields
<1>2. Advance(qa, cur.query_state, cur.count, l) \in States(qa)
  BY <1>1, EngineFacts, QueryFacts
<1>. QED
  BY <1>2 DEF NextElement, Element

(* Only the start of a match and the counter of an element ever change. *)
LEMMA ElementUpdate ==
  ASSUME NEW e \in Element, NEW m \in Nat \union {INVALID}
  PROVE  /\ [e EXCEPT !.matched_start = m] \in Element
         /\ [e EXCEPT !.matched_start = m].query_state = e.query_state
         /\ [e EXCEPT !.matched_start = m].count = e.count
         /\ increaseArrayCounter(e) \in Element
         /\ increaseArrayCounter(e).query_state = e.query_state
         /\ increaseArrayCounter(e).count = e.count + 1
  BY DEF Element, increaseArrayCounter

LEMMA NoElementUpdate ==
  ASSUME NEW e \in NoElement
  PROVE  increaseArrayCounter(e) \in NoElement
  BY DEF NoElement, increaseArrayCounter

(* The tuples of a value, and of a mark, have the type of the list. *)
LEMMA TupleFacts ==
  ASSUME NEW q \in States(qa), NEW a \in Nat, NEW b \in Nat
  PROVE  /\ ValueTuple(q, a, b) \in TupleType
         /\ \A text \in {"{", "}", ""} : Mark(q, text) \in TupleType
  BY DEF ValueTuple, Mark, Tuple, TupleType

LEMMA TupleSeqFacts ==
  ASSUME NEW s \in Seq(TupleType), NEW t \in TupleType
  PROVE  Append(s, t) \in Seq(TupleType) /\ <<t>> \in Seq(TupleType)
<1>1. Append(s, t) \in Seq(TupleType)
  BY AppendProperties
<1>2. <<t>> \in Seq(TupleType)
  OBVIOUS
<1>. QED
  BY <1>1, <1>2

LEMMA CompletedType ==
  ASSUME NEW e \in Element \union NoElement, pos' \in Nat
  PROVE  Completed(e) \in Seq(TupleType)
<1>1. CASE Completes(e)
  <2>1. e \in Element
    BY <1>1 DEF Completes, NoElement
  <2>2. e.query_state \in States(qa) /\ e.matched_start \in Nat
    BY <1>1, <2>1 DEF Completes, Element
  <2>3. ValueTuple(e.query_state, e.matched_start, pos') \in TupleType
    BY <2>2, TupleFacts
  <2>. QED
    BY <1>1, <2>3 DEF Completed
<1>2. CASE ~Completes(e)
  BY <1>2 DEF Completed
<1>. QED
  BY <1>1, <1>2

LEMMA ConstraintType ==
  ASSUME TypeOK, Defined, NEW l \in Keys \union {ARRAY}, addConstraintInfo(l)
  PROVE  ct' \in [Keys \union {ARRAY} -> SUBSET States(qa)]
<1>1. cur.query_state \in States(qa) /\ 0 \in States(qa)
  BY EngineFacts, ElementFields, QueryFacts
<1> DEFINE row == ct[l] \union {cur.query_state} \union
                    IF InSlice(qa.index[cur.query_state], cur.count) THEN {} ELSE {0}
<1>2. ct \in [Keys \union {ARRAY} -> SUBSET States(qa)]
  BY EngineFacts
<1>3. row \in SUBSET States(qa)
  BY <1>1, <1>2
<1>4. ct' = IF DataConstraintFlag THEN [ct EXCEPT ![l] = row] ELSE ct
  BY DEF addConstraintInfo
<1> HIDE DEF row
<1>5. [ct EXCEPT ![l] = row] \in [Keys \union {ARRAY} -> SUBSET States(qa)]
  BY <1>2, <1>3
<1>. QED
  BY <1>2, <1>4, <1>5

-----------------------------------------------------------------------------
(* Type correctness.  The shape of the text is needed with it: a '}' or a   *)
(* ']' removes an entry, and a label, that must be there.                   *)

EngineType ==
  /\ qa \in Queries
  /\ ss \in Seq(Symbol) /\ Len(ss) <= MaxStack
  /\ qs \in Seq(Element) /\ Len(qs) <= MaxStack
  /\ cur \in Element \union NoElement
  /\ tl \in Seq(TupleType)
  /\ ct \in [Keys \union {ARRAY} -> SUBSET States(qa)]
  /\ lost \in BOOLEAN

(* The element sets only depend on the query automaton, which is fixed. *)
LEMMA SameTypes ==
  ASSUME qa' = qa
  PROVE  /\ States(qa)' = States(qa) /\ Element' = Element
         /\ NoElement' = NoElement /\ TupleType' = TupleType
  BY DEF States, Element, NoElement, TupleType

LEMMA EngineTypePrimed ==
  ASSUME TypeOK, qa' = qa,
         ss' \in Seq(Symbol), Len(ss') <= MaxStack,
         qs' \in Seq(Element), Len(qs') <= MaxStack,
         cur' \in Element \union NoElement,
         tl' \in Seq(TupleType),
         ct' \in [Keys \union {ARRAY} -> SUBSET States(qa)],
         lost' \in BOOLEAN
  PROVE  EngineType'
  BY SameTypes, EngineFacts DEF EngineType

(* What a push and a pop leave of the two stacks. *)
LEMMA StackTypes ==
  ASSUME TypeOK
  PROVE  /\ \A s \in Symbol : Push(ss, s) \in Seq(Symbol) /\ Len(Push(ss, s)) <= MaxStack
         /\ \A e \in Element : Push(qs, e) \in Seq(Element) /\ Len(Push(qs, e)) <= MaxStack
         /\ Pop(ss) \in Seq(Symbol) /\ Len(Pop(ss)) <= MaxStack
         /\ Pop(Pop(ss)) \in Seq(Symbol) /\ Len(Pop(Pop(ss))) <= MaxStack
         /\ Pop(qs) \in Seq(Element) /\ Len(Pop(qs)) <= MaxStack
         /\ Pop(Pop(qs)) \in Seq(Element) /\ Len(Pop(Pop(qs))) <= MaxStack
         /\ queryStackTop(qs) \in Element \union NoElement
         /\ queryStackTop(Pop(qs)) \in Element \union NoElement
<1>1. MaxStack \in Nat
  BY MaxStackAssumption
<1>2. /\ Pop(ss) \in Seq(Symbol) /\ Len(Pop(ss)) <= Len(ss) /\ Len(Pop(ss)) \in Nat
      /\ Pop(qs) \in Seq(Element) /\ Len(Pop(qs)) <= Len(qs) /\ Len(Pop(qs)) \in Nat
  BY EngineFacts, PopFacts, LenProperties
<1>3. /\ Pop(Pop(ss)) \in Seq(Symbol) /\ Len(Pop(Pop(ss))) <= Len(Pop(ss))
      /\ Len(Pop(Pop(ss))) \in Nat
      /\ Pop(Pop(qs)) \in Seq(Element) /\ Len(Pop(Pop(qs))) <= Len(Pop(qs))
      /\ Len(Pop(Pop(qs))) \in Nat
  BY <1>2, PopFacts, LenProperties
<1>4. /\ \A s \in Symbol : Push(ss, s) \in Seq(Symbol) /\ Len(Push(ss, s)) <= MaxStack
      /\ \A e \in Element : Push(qs, e) \in Seq(Element) /\ Len(Push(qs, e)) <= MaxStack
  BY EngineFacts, PushFacts
<1>5. /\ queryStackTop(qs) \in Element \union NoElement
      /\ queryStackTop(Pop(qs)) \in Element \union NoElement
  BY <1>2, EngineFacts, TopFacts
<1>6. /\ Len(ss) \in Nat /\ Len(ss) <= MaxStack
      /\ Len(qs) \in Nat /\ Len(qs) <= MaxStack
  BY EngineFacts
<1>7. /\ Len(Pop(ss)) <= MaxStack /\ Len(Pop(Pop(ss))) <= MaxStack
      /\ Len(Pop(qs)) <= MaxStack /\ Len(Pop(Pop(qs))) <= MaxStack
  BY ONLY <1>1, <1>2, <1>3, <1>6
<1>. QED
  BY ONLY <1>2, <1>3, <1>4, <1>5, <1>7

LEMMA PushStep ==
  ASSUME TypeOK, Defined, NEW l \in Keys \union {ARRAY}, NEW sym \in Symbol,
         NEW e \in Element,
         qa' = qa, tl' \in Seq(TupleType),
         ss' = Push(ss, sym), qs' = Push(qs, e), cur' = NextElement(l),
         addConstraintInfo(l), Overflow(ss, qs)
  PROVE  EngineType'
<1>1. /\ ss' \in Seq(Symbol) /\ Len(ss') <= MaxStack
      /\ qs' \in Seq(Element) /\ Len(qs') <= MaxStack
  BY StackTypes
<1>2. cur' \in Element \union NoElement
  BY NextElementType
<1>3. ct' \in [Keys \union {ARRAY} -> SUBSET States(qa)]
  BY ConstraintType
<1>4. lost' \in BOOLEAN
  BY EngineFacts DEF Overflow
<1>. QED
  BY <1>1, <1>2, <1>3, <1>4, EngineTypePrimed

LEMMA TypeLCB ==
  ASSUME TypeOK, LCB
  PROVE  EngineType'
<1>1. /\ qa' = qa /\ qs' = qs /\ ct' = ct /\ ss' = Push(ss, "LCB")
      /\ lost' \in BOOLEAN /\ pos' \in Nat
  <2>1. /\ qa' = qa /\ qs' = qs /\ ct' = ct /\ ss' = Push(ss, "LCB")
        /\ pos' = pos + 1 /\ Overflow(ss, <<>>)
    BY Zenon DEF LCB, ReadLCB
  <2>. QED
    BY <2>1, EngineFacts DEF Overflow
<1>2. cur \in Element /\ cur.query_state \in States(qa)
  BY EngineFacts, ElementFields DEF LCB
<1>3. cur' \in Element
  <2>1. cur' = [cur EXCEPT !.matched_start = pos'] \/ cur' = cur
    BY DEF LCB
  <2>. QED
    BY <1>1, <1>2, <2>1, ElementUpdate
<1>4. tl' \in Seq(TupleType)
  <2>1. \/ tl' = Append(tl, Mark(cur.query_state, IF Matched(cur) = PREDICATE
                                                    THEN "{" ELSE ""))
        \/ tl' = tl
    BY Zenon DEF LCB
  <2>2. Mark(cur.query_state, IF Matched(cur) = PREDICATE THEN "{" ELSE "") \in TupleType
    BY <1>2, TupleFacts
  <2>3. tl \in Seq(TupleType)
    BY EngineFacts
  <2>. QED
    BY <2>1, <2>2, <2>3, TupleSeqFacts
<1>. QED
  BY <1>1, <1>3, <1>4, EngineFacts, StackTypes, EngineTypePrimed DEF Symbol

LEMMA TypeRCB ==
  ASSUME TypeOK, RCB
  PROVE  EngineType'
<1> DEFINE e == IF Completes(cur) THEN [cur EXCEPT !.matched_start = INVALID] ELSE cur
           counted == increaseArrayCounter(e)
           marks == ElementMark(e)
<1>1. qa' = qa /\ ct' = ct /\ lost' = lost /\ pos' \in Nat
  <2>1. qa' = qa /\ ct' = ct /\ lost' = lost /\ pos' = pos + 1
    BY Zenon DEF RCB, ReadRCB
  <2>. QED
    BY <2>1, EngineFacts
<1>2. cur \in Element
  BY EngineFacts DEF RCB
<1>3. e \in Element /\ counted \in Element
  BY <1>2, ElementUpdate
<1>4. marks \in Seq(TupleType)
  <2>1. e.query_state \in States(qa)
    BY <1>3, ElementFields
  <2>2. Mark(e.query_state, "}") \in TupleType
    BY <2>1, TupleFacts
  <2>3. marks = <<Mark(e.query_state, "}")>> \/ marks = <<>>
    BY DEF ElementMark
  <2>4. <<>> \in Seq(TupleType)
    OBVIOUS
  <2> HIDE DEF e, counted, marks
  <2>5. <<Mark(e.query_state, "}")>> \in Seq(TupleType)
    BY <2>2, <2>4, TupleSeqFacts
  <2>. QED
    BY <2>3, <2>4, <2>5
<1>5. /\ cur' = queryStackTop(qs) \/ cur' = counted \/ cur' = e
      /\ qs' = Pop(qs) \/ qs' = qs
      /\ ss' = Pop(Pop(ss)) \/ ss' = Pop(ss) \/ ss' = ss
      /\ tl' = tl \o Completed(cur) \o marks
  <2>1. /\ cur' = CASE syntaxStackSecondTop = "KY" -> queryStackTop(qs)
                     [] syntaxStackSecondTop = "LB" -> counted
                     [] OTHER                       -> e
        /\ qs' = IF syntaxStackSecondTop = "KY" THEN Pop(qs) ELSE qs
        /\ ss' = CASE syntaxStackSecondTop = "KY" -> Pop(Pop(ss))
                    [] syntaxStackSecondTop = "LB" \/ Len(ss) = 1 -> Pop(ss)
                    [] OTHER -> ss
        /\ tl' = tl \o Completed(cur) \o marks
    BY Zenon DEF RCB
  <2> HIDE DEF e, counted, marks
  <2>. QED
    BY <2>1
<1> HIDE DEF e, counted, marks
<1>6. tl' \in Seq(TupleType)
  <2>1. tl \in Seq(TupleType) /\ Completed(cur) \in Seq(TupleType)
    BY <1>1, <1>2, EngineFacts, CompletedType
  <2>2. tl \o Completed(cur) \in Seq(TupleType)
    BY <2>1, ConcatProperties
  <2>. QED
    BY <1>4, <1>5, <2>2, ConcatProperties
<1>7. cur' \in Element \union NoElement
  BY <1>3, <1>5, StackTypes
<1>8. /\ qs' \in Seq(Element) /\ Len(qs') <= MaxStack
      /\ ss' \in Seq(Symbol) /\ Len(ss') <= MaxStack
  BY <1>5, StackTypes, EngineFacts
<1>. QED
  BY <1>1, <1>6, <1>7, <1>8, EngineFacts, EngineTypePrimed

LEMMA TypeLB ==
  ASSUME TypeOK, LB
  PROVE  EngineType'
<1> DEFINE e == IF Matched(cur) = OUTPUT_CANDIDATE
                  THEN [cur EXCEPT !.matched_start = pos'] ELSE cur
<1>1. cur \in Element /\ cur.query_state \in States(qa) /\ pos' \in Nat
  <2>1. Defined /\ pos' = pos + 1
    BY DEF LB, ReadLB
  <2>. QED
    BY <2>1, EngineFacts, ElementFields
<1>2. e \in Element
  BY <1>1, ElementUpdate
<1>3. tl' \in Seq(TupleType)
  <2>1. tl' = Append(tl, Mark(cur.query_state, "")) \/ tl' = tl
    BY DEF LB
  <2>2. Mark(cur.query_state, "") \in TupleType
    BY <1>1, TupleFacts
  <2>3. tl \in Seq(TupleType)
    BY EngineFacts
  <2>. QED
    BY <2>1, <2>2, <2>3, TupleSeqFacts
<1>4. /\ qa' = qa /\ ss' = Push(ss, "LB") /\ qs' = Push(qs, e)
      /\ cur' = NextElement(ARRAY) /\ addConstraintInfo(ARRAY)
      /\ Overflow(ss, qs) /\ Defined
  BY DEF LB
<1> HIDE DEF e
<1>5. ARRAY \in Keys \union {ARRAY} /\ "LB" \in Symbol
  BY DEF Symbol
<1>. QED
  BY <1>2, <1>3, <1>4, <1>5, PushStep

LEMMA TypeKY ==
  ASSUME TypeOK, NEW k \in Keys, KY(k)
  PROVE  EngineType'
<1>1. cur \in Element /\ k \in Keys \union {ARRAY} /\ "KY" \in Symbol
  BY EngineFacts DEF KY, Symbol
<1>2. /\ qa' = qa /\ tl' = tl /\ ss' = Push(ss, "KY") /\ qs' = Push(qs, cur)
      /\ cur' = NextElement(k) /\ addConstraintInfo(k)
      /\ Overflow(ss, qs) /\ Defined
  BY DEF KY
<1>3. tl' \in Seq(TupleType)
  BY <1>2, EngineFacts
<1>. QED
  BY <1>1, <1>2, <1>3, PushStep

LEMMA TypeRB ==
  ASSUME TypeOK, RB
  PROVE  EngineType'
<1>1. /\ qa' = qa /\ ct' = ct /\ lost' = lost /\ pos' \in Nat
      /\ cur \in Element
  BY EngineFacts DEF RB, ReadRB
<1>2. /\ \/ cur' = queryStackTop(Pop(qs)) \/ cur' = cur
         \/ cur' = increaseArrayCounter(queryStackTop(qs))
         \/ cur' = queryStackTop(qs)
      /\ qs' = Pop(Pop(qs)) \/ qs' = Pop(qs) \/ qs' = qs
      /\ ss' = Pop(Pop(ss)) \/ ss' = Pop(ss) \/ ss' = ss
      /\ tl' = tl \o Completed(queryStackTop(qs)) \/ tl' = tl
  BY DEF RB
<1>3. tl' \in Seq(TupleType)
  <2>1. Completed(queryStackTop(qs)) \in Seq(TupleType)
    BY <1>1, StackTypes, CompletedType
  <2>. QED
    BY <1>2, <2>1, EngineFacts, ConcatProperties
<1>4. cur' \in Element \union NoElement
  <2>1. increaseArrayCounter(queryStackTop(qs)) \in Element \union NoElement
    BY StackTypes, ElementUpdate, NoElementUpdate DEF INVALID
  <2>. QED
    BY <1>1, <1>2, <2>1, StackTypes
<1>5. /\ qs' \in Seq(Element) /\ Len(qs') <= MaxStack
      /\ ss' \in Seq(Symbol) /\ Len(ss') <= MaxStack
  BY <1>2, StackTypes, EngineFacts
<1>. QED
  BY <1>1, <1>3, <1>4, <1>5, EngineFacts, EngineTypePrimed

LEMMA TypePRI ==
  ASSUME TypeOK, PRI
  PROVE  EngineType'
<1>1. /\ qa' = qa /\ ct' = ct /\ lost' = lost /\ pos' \in Nat
      /\ cur \in Element /\ cur.query_state \in States(qa)
  BY EngineFacts, ElementFields DEF PRI, ReadPRI
<1>2. /\ cur' = queryStackTop(qs) \/ cur' = increaseArrayCounter(cur) \/ cur' = cur
      /\ qs' = Pop(qs) \/ qs' = qs
      /\ ss' = Pop(ss) \/ ss' = ss
      /\ \/ tl' = Append(tl, ValueTuple(cur.query_state, pos', pos'))
         \/ tl' = tl
  BY DEF PRI
<1>3. tl' \in Seq(TupleType)
  <2>1. ValueTuple(cur.query_state, pos', pos') \in TupleType
    BY <1>1, TupleFacts
  <2>2. tl \in Seq(TupleType)
    BY EngineFacts
  <2>. QED
    BY <1>2, <2>1, <2>2, TupleSeqFacts
<1>4. cur' \in Element \union NoElement
  <2>1. increaseArrayCounter(cur) \in Element
    BY <1>1, ElementUpdate DEF INVALID
  <2>. QED
    BY <1>1, <1>2, <2>1, StackTypes
<1>5. /\ qs' \in Seq(Element) /\ Len(qs') <= MaxStack
      /\ ss' \in Seq(Symbol) /\ Len(ss') <= MaxStack
  BY <1>2, StackTypes, EngineFacts
<1>. QED
  BY <1>1, <1>3, <1>4, <1>5, EngineFacts, EngineTypePrimed

(* The text's side of every step. *)
LEMMA StreamStep ==
  ASSUME StreamInv, [Next]_vars
  PROVE  StreamInv'
<1>1. CASE LCB
  <2>1. "LCB" \in Symbol /\ ARRAY \in Keys \union {ARRAY}
    BY DEF Symbol
  <2>. QED
    BY <1>1, <2>1, OpenFacts DEF LCB, ReadLCB
<1>2. CASE RCB
  BY <1>2, RCBFacts DEF RCB
<1>3. CASE LB
  <2>1. "LB" \in Symbol /\ ARRAY \in Keys \union {ARRAY}
    BY DEF Symbol
  <2>. QED
    BY <1>3, <2>1, OpenFacts DEF LB, ReadLB
<1>4. CASE RB
  BY <1>4, RBFacts DEF RB
<1>5. CASE COM
  BY <1>5, COMFacts DEF COM
<1>6. ASSUME NEW k \in Keys, KY(k)
      PROVE  StreamInv'
  <2>1. "KY" \in Symbol /\ k \in Keys \union {ARRAY}
    BY DEF Symbol
  <2>. QED
    BY <1>6, <2>1, OpenFacts DEF KY, ReadKY
<1>7. CASE PRI
  BY <1>7, PRIFacts DEF PRI
<1>8. CASE UNCHANGED vars
  BY <1>8 DEF vars, streamVars, StreamInv, StreamTypeOK, StreamShape, Innermost, LabelsTo
<1>. QED
  BY <1>1, <1>2, <1>3, <1>4, <1>5, <1>6, <1>7, <1>8 DEF Next

LEMMA EngineStep ==
  ASSUME TypeOK, [Next]_vars
  PROVE  EngineType'
<1>1. CASE COM \/ UNCHANGED vars
  <2>1. UNCHANGED engineVars
    BY <1>1 DEF COM, vars
  <2>. QED
    BY <2>1, EngineFacts, EngineTypePrimed DEF engineVars
<1>. QED
  BY <1>1, TypeLCB, TypeRCB, TypeLB, TypeRB, TypeKY, TypePRI DEF Next

LEMMA InitType == Init => StreamInv /\ TypeOK
<1> SUFFICES ASSUME Init PROVE StreamInv /\ TypeOK
  OBVIOUS
<1>1. StreamInv
  BY DEF Init, StreamInit, StreamInv, StreamTypeOK, StreamShape
<1>2. StartElement \in Element
  BY QueryFacts DEF Init, StartElement, Element
<1>3. ss = <<>> /\ qs = <<>> /\ tl = <<>>
  BY DEF Init
<1>4. /\ ss \in Seq(Symbol) /\ Len(ss) <= MaxStack
      /\ qs \in Seq(Element) /\ Len(qs) <= MaxStack
      /\ tl \in Seq(TupleType)
  BY <1>3, MaxStackAssumption
<1>5. ct \in [Keys \union {ARRAY} -> SUBSET States(qa)]
  BY DEF Init
<1>6. EngineType
  BY <1>2, <1>4, <1>5 DEF Init, EngineType
<1>. QED
  BY <1>1, <1>6 DEF TypeOK, EngineType, StreamInv

(* Whatever the text, the queries and MAX_STACK: the stacks stay within their
   bound and hold states of the query automaton, and so do the tuples and the
   constraints. *)
THEOREM TypeCorrect == Spec => []TypeOK
<1>1. Init => StreamInv /\ TypeOK
  BY InitType
<1>2. StreamInv /\ TypeOK /\ [Next]_vars => (StreamInv /\ TypeOK)'
  BY StreamStep, EngineStep DEF TypeOK, EngineType, StreamInv
<1>. QED
  BY <1>1, <1>2, PTL DEF Spec

-----------------------------------------------------------------------------
(* The two stacks against the text, as long as no push was dropped.  They   *)
(* need each other: the symbols decide how much of the query stack is       *)
(* popped, and the nesting of the text decides what has to be left.         *)

Mirror ==
  /\ Len(ss) = Len(open)
  /\ \A i \in 1 .. Len(open) : ss[i] = open[i].sym

RunOfPath ==
  /\ Len(qs) = Len(path)
  /\ Run(0).query_state = 1 /\ Run(0).count = 0
  /\ \A j \in 1 .. Len(path) :
       /\ Run(j).query_state =
            Advance(qa, Run(j-1).query_state, Run(j-1).count, path[j].key)
       /\ Run(j).count = path[j].idx

Sync == ~lost => Mirror /\ RunOfPath

IInv == StreamInv /\ TypeOK /\ Sync

LEMMA MirrorForm ==
  ASSUME StreamInv, TypeOK
  PROVE  Mirror <=> ss = [i \in DOMAIN open |-> open[i].sym]
<1>1. PICK n \in Nat : n = Len(open)
  BY InnermostFacts
<1>2. /\ DOMAIN open = 1 .. n /\ DOMAIN ss = 1 .. Len(ss)
      /\ \A i \in 1 .. n : open[i].sym \in Symbol
  BY <1>1, InnermostFacts, EngineFacts, LenProperties
<1> DEFINE f == [i \in 1 .. n |-> open[i].sym]
<1>3. f \in Seq(Symbol) /\ Len(f) = n
  BY <1>2, SeqDef, LenProperties
<1>4. \A i \in 1 .. n : f[i] = open[i].sym
  OBVIOUS
<1>5. f = [i \in DOMAIN open |-> open[i].sym]
  BY <1>2
<1> HIDE DEF f
<1>6. Mirror <=> Len(ss) = Len(f) /\ \A i \in 1 .. n : ss[i] = f[i]
  BY <1>1, <1>3, <1>4 DEF Mirror
<1>7. Mirror <=> ss = f
  BY <1>3, <1>6, EngineFacts, SeqEqual
<1>. QED
  BY <1>5, <1>7

(* A container or a key is entered and neither stack is full. *)
LEMMA MirrorPushed ==
  ASSUME IInv, ~lost, NEW s \in Symbol, ss' = Push(ss, s), Len(ss) # MaxStack,
         Len(open') = Len(open) + 1,
         \A i \in 1 .. Len(open) : open'[i] = open[i],
         open'[Len(open) + 1].sym = s
  PROVE  Mirror'
<1>1. PICK n \in Nat : n = Len(open)
  BY InnermostFacts DEF IInv
<1>2. /\ Len(ss') = n + 1
      /\ \A i \in 1 .. n : ss'[i] = open[i].sym
      /\ ss'[n + 1] = s
  <2>1. ss \in Seq(Symbol) /\ Len(ss) <= MaxStack /\ s \in Symbol /\ Len(ss) # MaxStack
    BY EngineFacts DEF IInv
  <2>2. /\ Len(Push(ss, s)) = Len(ss) + 1
        /\ \A i \in 1 .. Len(ss) : Push(ss, s)[i] = ss[i]
        /\ Push(ss, s)[Len(ss) + 1] = s
    BY ONLY <2>1, PushFacts
  <2>. QED
    BY <1>1, <2>2 DEF IInv, Sync, Mirror
<1>. QED
  BY <1>1, <1>2 DEF Mirror

LEMMA RunExtended ==
  ASSUME IInv, ~lost, Defined, NEW e \in Element, NEW k \in Keys \union {ARRAY},
         qa' = qa, qs' = Push(qs, e), Len(qs) # MaxStack,
         e.query_state = cur.query_state, e.count = cur.count,
         cur' = NextElement(k),
         Len(path') = Len(path) + 1,
         \A j \in 1 .. Len(path) : path'[j] = path[j],
         path'[Len(path) + 1] = [key |-> k, idx |-> 0]
  PROVE  RunOfPath'
<1>1. PICK l \in Nat : l = Len(path)
  BY InnermostFacts DEF IInv
<1>2. RunOfPath /\ Len(qs) = l
  BY <1>1 DEF IInv, Sync, RunOfPath
<1>3. Len(qs') = l + 1 /\ qs'[l + 1] = e /\ \A j \in 1 .. l : qs'[j] = qs[j]
  <2>1. qs \in Seq(Element) /\ Len(qs) <= MaxStack /\ e \in Element /\ Len(qs) # MaxStack
    BY EngineFacts DEF IInv
  <2>2. /\ Len(Push(qs, e)) = Len(qs) + 1
        /\ \A i \in 1 .. Len(qs) : Push(qs, e)[i] = qs[i]
        /\ Push(qs, e)[Len(qs) + 1] = e
    BY ONLY <2>1, PushFacts
  <2>. QED
    BY <1>2, <2>2
<1>4. \A j \in 0 .. l : /\ Run(j)'.query_state = Run(j).query_state
                        /\ Run(j)'.count = Run(j).count
  <2> SUFFICES ASSUME NEW j \in 0 .. l
               PROVE  /\ Run(j)'.query_state = Run(j).query_state
                      /\ Run(j)'.count = Run(j).count
    OBVIOUS
  <2>1. CASE j < l
    BY <1>2, <1>3, <2>1 DEF Run
  <2>2. CASE j = l
    BY <1>2, <1>3, <2>2 DEF Run
  <2>. QED
    BY <2>1, <2>2
<1>5. Run(l + 1)' = NextElement(k) /\ Run(l) = cur
  BY <1>2, <1>3 DEF Run
<1>6. /\ Run(l + 1)'.query_state = Advance(qa, Run(l).query_state, Run(l).count, k)
      /\ Run(l + 1)'.count = 0
  BY <1>5 DEF NextElement
<1>7. ASSUME NEW j \in 1 .. l + 1
      PROVE  /\ Run(j)'.query_state =
                  Advance(qa, Run(j-1)'.query_state, Run(j-1)'.count, path'[j].key)
             /\ Run(j)'.count = path'[j].idx
  <2>1. j - 1 \in 0 .. l
    OBVIOUS
  <2>2. CASE j \in 1 .. l
    BY <1>1, <1>2, <1>4, <2>1, <2>2 DEF RunOfPath
  <2>3. CASE j = l + 1
    BY <1>1, <1>4, <1>6, <2>1, <2>3
  <2>. QED
    BY <2>2, <2>3
<1>8. Run(0)'.query_state = 1 /\ Run(0)'.count = 0
  BY <1>2, <1>4 DEF RunOfPath
<1>9. /\ Len(qs') = Len(path')
      /\ \A j \in 1 .. Len(path') :
           /\ Run(j)'.query_state =
                Advance(qa', Run(j-1)'.query_state, Run(j-1)'.count, path'[j].key)
           /\ Run(j)'.count = path'[j].idx
  BY <1>1, <1>3, <1>7
<1>. QED
  BY <1>8, <1>9 DEF RunOfPath

(* The run is cut back to the first l labels, the last of which may have
   counted an element. *)
LEMMA RunCut ==
  ASSUME IInv, ~lost, qa' = qa, NEW l \in 0 .. Len(path),
         Len(path') = l, Len(qs') = l,
         \A j \in 1 .. l : qs'[j] = qs[j],
         \A j \in 1 .. l - 1 : path'[j] = path[j],
         l > 0 => path'[l].key = path[l].key,
         cur'.query_state = Run(l).query_state,
         cur'.count = IF l = 0 THEN 0 ELSE path'[l].idx
  PROVE  RunOfPath'
<1>1. Len(path) \in Nat /\ l \in Nat
  BY InnermostFacts DEF IInv
<1>2. RunOfPath /\ Len(qs) = Len(path)
  BY DEF IInv, Sync, RunOfPath
<1>3. \A j \in 0 .. l : j < l => Run(j)' = Run(j)
  BY <1>1, <1>2 DEF Run
<1>4. Run(l)' = cur'
  BY <1>1 DEF Run
<1>5. ASSUME NEW j \in 1 .. l
      PROVE  /\ Run(j)'.query_state =
                  Advance(qa, Run(j-1)'.query_state, Run(j-1)'.count, path'[j].key)
             /\ Run(j)'.count = path'[j].idx
  <2>1. j - 1 \in 0 .. l /\ j - 1 < l /\ j \in 1 .. Len(path) /\ Run(j-1)' = Run(j-1)
    BY <1>1, <1>3
  <2>2. /\ Run(j).query_state =
             Advance(qa, Run(j-1).query_state, Run(j-1).count, path[j].key)
        /\ Run(j).count = path[j].idx
    BY <1>2, <2>1 DEF RunOfPath
  <2>3. CASE j < l
    <3>1. j \in 0 .. l /\ j \in 1 .. l - 1
      BY <2>3
    <3>. QED
      BY <1>3, <2>1, <2>2, <2>3, <3>1
  <2>4. CASE j = l
    BY <1>1, <1>4, <2>1, <2>2, <2>4
  <2>. QED
    BY <1>1, <2>3, <2>4
<1>6. Run(0)'.query_state = 1 /\ Run(0)'.count = 0
  <2>1. CASE l = 0
    BY <1>2, <1>4, <2>1 DEF RunOfPath
  <2>2. CASE l > 0
    BY <1>1, <1>2, <1>3, <2>2 DEF RunOfPath
  <2>. QED
    BY <1>1, <2>1, <2>2
<1>. QED
  BY <1>5, <1>6 DEF RunOfPath

(* The engine's side of a value that is complete: what was saved for its key is
   restored, or the element e of its array is counted, or the text ends with
   e. *)
EngineEnds(m, l, e) ==
  /\ e.query_state = Run(l).query_state /\ e.count = Run(l).count
  /\ m = 0 => Len(ss') = 0 /\ Len(qs') = 0 /\ cur' = e
  /\ m > 0 /\ open[m].sym = "KY" =>
       /\ Len(ss') = m - 1 /\ \A i \in 1 .. m - 1 : ss'[i] = ss[i]
       /\ Len(qs') = l - 1 /\ \A j \in 1 .. l - 1 : qs'[j] = qs[j]
       /\ cur' = qs[l]
  /\ m > 0 /\ open[m].sym = "LB" =>
       /\ Len(ss') = m /\ \A i \in 1 .. m : ss'[i] = ss[i]
       /\ Len(qs') = l /\ \A j \in 1 .. l : qs'[j] = qs[j]
       /\ cur'.query_state = e.query_state /\ cur'.count = e.count + 1

(* A value enclosed by the first m entries ends in the text and in the engine. *)
ValueIsOver(m) ==
  \E l \in 0 .. Len(path), e \in Element :
    /\ l = IF m = 0 THEN 0 ELSE LabelsTo(m)
    /\ ValueEnds(m, l)
    /\ EngineEnds(m, l, e)
    /\ qa' = qa

LEMMA ValueEndsSync ==
  ASSUME IInv, ~lost, NEW m \in 0 .. Len(open), ValueIsOver(m)
  PROVE  Mirror' /\ RunOfPath'
<1>0. PICK l \in 0 .. Len(path), e \in Element :
        /\ l = (IF m = 0 THEN 0 ELSE LabelsTo(m))
        /\ ValueEnds(m, l) /\ EngineEnds(m, l, e) /\ qa' = qa
  BY DEF ValueIsOver
<1>1. Len(path) \in Nat /\ l \in Nat /\ Len(open) \in Nat /\ m \in Nat
  BY <1>0, InnermostFacts DEF IInv
<1>2. /\ Mirror /\ RunOfPath /\ Len(qs) = Len(path)
      /\ \A i \in 1 .. m : ss[i] = open[i].sym
  BY <1>1 DEF IInv, Sync, Mirror, RunOfPath
<1>3. CASE m = 0
  <2>1. Len(open') = 0 /\ Len(path') = 0 /\ Len(ss') = 0 /\ Len(qs') = 0 /\ l = 0
    BY <1>0, <1>3 DEF ValueEnds, EngineEnds
  <2>2. cur'.query_state = Run(0).query_state /\ cur'.count = 0
    BY <1>0, <1>2, <1>3, <2>1 DEF RunOfPath, EngineEnds
  <2>3. RunOfPath'
    BY <1>0, <2>1, <2>2, RunCut
  <2>. QED
    BY <2>1, <2>3 DEF Mirror
<1>4. CASE m > 0 /\ open[m].sym = "KY"
  <2>1. /\ l > 0 /\ Len(open') = m - 1 /\ Len(path') = l - 1
        /\ \A i \in 1 .. m - 1 : open'[i] = open[i]
        /\ \A j \in 1 .. l - 1 : path'[j] = path[j]
    BY <1>0, <1>4 DEF ValueEnds
  <2>2. /\ Len(qs') = l - 1 /\ \A j \in 1 .. l - 1 : qs'[j] = qs[j]
        /\ cur' = Run(l - 1)
    BY <1>0, <1>1, <1>2, <1>4, <2>1 DEF Run, EngineEnds
  <2>3. l - 1 \in 0 .. Len(path)
    BY <1>1, <2>1
  <2>4. cur'.count = IF l - 1 = 0 THEN 0 ELSE path'[l - 1].idx
    <3>1. CASE l - 1 = 0
      BY <1>2, <2>2, <3>1 DEF RunOfPath
    <3>2. CASE l - 1 # 0
      <4>1. l - 1 \in 1 .. Len(path) /\ l - 1 \in 1 .. l - 1
        BY <1>1, <2>3, <3>2
      <4>. QED
        BY <1>2, <2>1, <2>2, <3>2, <4>1 DEF RunOfPath
    <3>. QED
      BY <3>1, <3>2
  <2>5. l - 1 > 0 => path'[l - 1].key = path[l - 1].key
    BY <1>1, <2>1
  <2>6. \A j \in 1 .. (l - 1) - 1 : path'[j] = path[j]
    BY <1>1, <2>1
  <2>7. RunOfPath'
    BY <1>0, <2>1, <2>2, <2>3, <2>4, <2>5, <2>6, RunCut
  <2>. QED
    BY <1>0, <1>1, <1>2, <1>4, <2>1, <2>7 DEF Mirror, EngineEnds
<1>5. CASE m > 0 /\ open[m].sym = "LB"
  <2>1. /\ l > 0 /\ Len(open') = m /\ Len(path') = l
        /\ \A i \in 1 .. m : open'[i] = open[i]
        /\ \A j \in 1 .. l - 1 : path'[j] = path[j]
        /\ path'[l].key = path[l].key /\ path'[l].idx = path[l].idx + 1
    BY <1>0, <1>5 DEF ValueEnds
  <2>2. l \in 1 .. Len(path) /\ Run(l).count = path[l].idx
    BY <1>1, <1>2, <2>1 DEF RunOfPath
  <2>3. /\ cur'.query_state = Run(l).query_state
        /\ cur'.count = IF l = 0 THEN 0 ELSE path'[l].idx
    BY <1>0, <1>1, <1>5, <2>1, <2>2 DEF EngineEnds
  <2>4. RunOfPath'
    BY <1>0, <1>5, <2>1, <2>3, RunCut DEF EngineEnds
  <2>. QED
    BY <1>0, <1>1, <1>2, <1>5, <2>1, <2>4 DEF Mirror, EngineEnds
<1>. QED
  BY <1>0, <1>1, <1>3, <1>4, <1>5 DEF ValueEnds

(* What the engine sees of the nesting in its own stacks. *)
LEMMA SyncFacts ==
  ASSUME IInv, ~lost
  PROVE  /\ Len(ss) = Len(open) /\ Len(qs) = Len(path)
         /\ Len(open) \in Nat /\ Len(path) \in Nat
         /\ \A i \in 1 .. Len(open) : ss[i] = open[i].sym
         /\ syntaxStackSecondTop =
              IF Len(open) > 1 THEN open[Len(open) - 1].sym ELSE "INVALID"
         /\ ss = <<>> <=> Len(open) = 0
         /\ Len(path) = IF Len(open) = 0 THEN 0 ELSE LabelsTo(Len(open))
<1>1. PICK n \in Nat : n = Len(open)
  BY InnermostFacts DEF IInv
<1>2. /\ Len(ss) = n /\ \A i \in 1 .. n : ss[i] = open[i].sym
      /\ Len(qs) = Len(path)
  BY <1>1 DEF IInv, Sync, Mirror, RunOfPath
<1>3. ss = <<>> <=> n = 0
  BY <1>2, EngineFacts, EmptySeq DEF IInv
<1>4. syntaxStackSecondTop = IF n > 1 THEN open[n - 1].sym ELSE "INVALID"
  BY <1>2 DEF syntaxStackSecondTop
<1>. QED
  BY <1>1, <1>2, <1>3, <1>4, InnermostFacts DEF IInv

(* Two pops in a row. *)
LEMMA PopPopFacts ==
  ASSUME NEW S, NEW s \in Seq(S), Len(s) > 1
  PROVE  /\ Pop(s) \in Seq(S) /\ Len(Pop(s)) = Len(s) - 1
         /\ \A i \in 1 .. Len(s) - 1 : Pop(s)[i] = s[i]
         /\ Len(Pop(Pop(s))) = Len(s) - 2
         /\ \A i \in 1 .. Len(s) - 2 : Pop(Pop(s))[i] = s[i]
<1> DEFINE t == Pop(s)
<1>1. Len(s) \in Nat
  BY LenProperties
<1>2. t \in Seq(S) /\ Len(t) = Len(s) - 1 /\ \A i \in 1 .. Len(s) - 1 : t[i] = s[i]
  BY PopFacts
<1> HIDE DEF t
<1>3. Len(Pop(t)) = Len(t) - 1 /\ \A i \in 1 .. Len(t) - 1 : Pop(t)[i] = t[i]
  BY <1>1, <1>2, PopFacts
<1>. QED
  BY <1>1, <1>2, <1>3 DEF t

LEMMA EndsRCB ==
  ASSUME IInv, ~lost, RCB
  PROVE  Len(open) - 1 \in 0 .. Len(open) /\ ValueIsOver(Len(open) - 1)
<1> DEFINE e == IF Completes(cur) THEN [cur EXCEPT !.matched_start = INVALID] ELSE cur
<1>1. PICK n \in Nat : n = Len(open)
  BY InnermostFacts DEF IInv
<1>2. PICK l \in Nat : l = Len(path)
  BY InnermostFacts DEF IInv
<1>3. n > 0 /\ open[n].sym = "LCB" /\ ValueEnds(n - 1, l)
  BY <1>1, <1>2, RCBFacts DEF IInv, RCB
<1>4. cur \in Element /\ e.query_state = cur.query_state /\ e.count = cur.count
  <2>1. cur \in Element
    BY EngineFacts DEF IInv, RCB
  <2>. QED
    BY <2>1, ElementUpdate
<1>5. Run(l) = cur
  BY <1>2, SyncFacts DEF Run
<1>6. l = IF n - 1 = 0 THEN 0 ELSE LabelsTo(n - 1)
  <2>1. /\ open[n].depth = (IF n = 1 THEN 0 ELSE LabelsTo(n - 1))
        /\ l = LabelsTo(n)
    BY <1>1, <1>2, <1>3, InnermostFacts DEF IInv
  <2>2. LabelsTo(n) = open[n].depth
    <3>1. open[n].depth \in Nat
      BY <1>1, <1>3, InnermostFacts DEF IInv
    <3>. QED
      BY <1>3, <3>1 DEF LabelsTo
  <2>. QED
    BY <2>1, <2>2
<1>7. /\ qa' = qa
      /\ cur' = CASE syntaxStackSecondTop = "KY" -> queryStackTop(qs)
                   [] syntaxStackSecondTop = "LB" -> increaseArrayCounter(e)
                   [] OTHER                       -> e
      /\ qs' = IF syntaxStackSecondTop = "KY" THEN Pop(qs) ELSE qs
      /\ ss' = CASE syntaxStackSecondTop = "KY" -> Pop(Pop(ss))
                  [] syntaxStackSecondTop = "LB" \/ Len(ss) = 1 -> Pop(ss)
                  [] OTHER -> ss
  BY Zenon DEF RCB
<1>8. increaseArrayCounter(e).query_state = e.query_state /\ increaseArrayCounter(e).count = e.count + 1
  <2>1. e \in Element
    BY <1>4, ElementUpdate
  <2> HIDE DEF e
  <2>. QED
    BY <2>1, ElementUpdate DEF INVALID
<1> HIDE DEF e
<1>9. /\ ss \in Seq(Symbol) /\ qs \in Seq(Element) /\ Len(ss) = n /\ Len(qs) = l
      /\ syntaxStackSecondTop = IF n > 1 THEN open[n - 1].sym ELSE "INVALID"
  BY <1>1, <1>2, EngineFacts, SyncFacts DEF IInv
<1>10. /\ Len(Pop(ss)) = n - 1 /\ \A i \in 1 .. n - 1 : Pop(ss)[i] = ss[i]
  BY <1>3, <1>9, PopFacts
<1>11. PICK m \in Nat : m = n - 1
  BY <1>3
<1>12. m = 0 => Len(ss') = 0 /\ Len(qs') = 0 /\ cur' = e
  BY <1>6, <1>7, <1>9, <1>10, <1>11
<1>13. m > 0 /\ open[m].sym = "KY" =>
         /\ Len(ss') = m - 1 /\ \A i \in 1 .. m - 1 : ss'[i] = ss[i]
         /\ Len(qs') = l - 1 /\ \A j \in 1 .. l - 1 : qs'[j] = qs[j]
         /\ cur' = qs[l]
  <2>1. SUFFICES ASSUME m > 0, open[m].sym = "KY"
                 PROVE  /\ Len(ss') = m - 1 /\ \A i \in 1 .. m - 1 : ss'[i] = ss[i]
                        /\ Len(qs') = l - 1 /\ \A j \in 1 .. l - 1 : qs'[j] = qs[j]
                        /\ cur' = qs[l]
    OBVIOUS
  <2>2. l > 0 /\ Len(qs) > 0 /\ Len(ss) > 1
    BY <1>3, <1>9, <1>11, <2>1 DEF ValueEnds
  <2>3. ss' = Pop(Pop(ss)) /\ qs' = Pop(qs) /\ cur' = queryStackTop(qs)
    BY <1>7, <1>9, <1>11, <2>1
  <2>4. Len(Pop(Pop(ss))) = n - 2 /\ \A i \in 1 .. n - 2 : Pop(Pop(ss))[i] = ss[i]
    BY <1>9, <2>2, PopPopFacts
  <2>5. Len(Pop(qs)) = l - 1 /\ \A j \in 1 .. l - 1 : Pop(qs)[j] = qs[j]
    BY <1>9, <2>2, PopFacts
  <2>6. queryStackTop(qs) = qs[l]
    BY <1>9, <2>2, TopFacts
  <2>. QED
    BY <1>11, <2>3, <2>4, <2>5, <2>6
<1>14. m > 0 /\ open[m].sym = "LB" =>
         /\ Len(ss') = m /\ \A i \in 1 .. m : ss'[i] = ss[i]
         /\ Len(qs') = l /\ \A j \in 1 .. l : qs'[j] = qs[j]
         /\ cur'.query_state = e.query_state /\ cur'.count = e.count + 1
  BY <1>7, <1>8, <1>9, <1>10, <1>11
<1>15. /\ m \in 0 .. Len(open) /\ l \in 0 .. Len(path)
       /\ l = (IF m = 0 THEN 0 ELSE LabelsTo(m)) /\ ValueEnds(m, l)
       /\ e.query_state = Run(l).query_state /\ e.count = Run(l).count
  BY <1>1, <1>2, <1>3, <1>4, <1>5, <1>6, <1>11
<1>16. EngineEnds(m, l, e)
  BY <1>12, <1>13, <1>14, <1>15 DEF EngineEnds
<1>17. qa' = qa /\ e \in Element
  BY <1>4, <1>7, ElementUpdate DEF e
<1>. QED
  BY <1>1, <1>11, <1>15, <1>16, <1>17 DEF ValueIsOver

LEMMA EndsRB ==
  ASSUME IInv, ~lost, RB
  PROVE  Len(open) - 1 \in 0 .. Len(open) /\ ValueIsOver(Len(open) - 1)
<1> DEFINE e == queryStackTop(qs)
<1> HIDE DEF e
<1>1. PICK n \in Nat : n = Len(open)
  BY InnermostFacts DEF IInv
<1>2. PICK k \in Nat : k = Len(path)
  BY InnermostFacts DEF IInv
<1>3. n > 0 /\ open[n].sym = "LB" /\ k > 0 /\ ValueEnds(n - 1, k - 1)
  BY <1>1, <1>2, RBFacts DEF IInv, RB
<1>4. PICK m \in Nat : m = n - 1
  BY <1>3
<1>5. PICK l \in Nat : l = k - 1
  BY <1>3
<1>6. /\ ss \in Seq(Symbol) /\ qs \in Seq(Element) /\ Len(ss) = n /\ Len(qs) = k
      /\ ss # <<>>
      /\ syntaxStackSecondTop = IF n > 1 THEN open[n - 1].sym ELSE "INVALID"
  BY <1>1, <1>2, <1>3, EngineFacts, SyncFacts DEF IInv
<1>7. e = Run(l) /\ e \in Element
  <2>1. e = qs[k] /\ e \in Element
    BY <1>3, <1>6, TopFacts DEF e
  <2>. QED
    BY <1>3, <1>5, <1>6, <2>1 DEF Run
<1>8. l = IF m = 0 THEN 0 ELSE LabelsTo(m)
  <2>1. /\ open[n].depth = (IF n = 1 THEN 0 ELSE LabelsTo(n - 1))
        /\ open[n].depth \in Nat
    <3>1. n \in 1 .. Len(open) /\ StreamInv
      BY <1>1, <1>3 DEF IInv
    <3>. QED
      BY <3>1, InnermostFacts
  <2>2. k = LabelsTo(n)
    BY <1>1, <1>2, <1>3, InnermostFacts DEF IInv
  <2>3. LabelsTo(n) = open[n].depth + 1
    BY <1>3, <2>1 DEF LabelsTo
  <2>. QED
    BY <1>4, <1>5, <2>1, <2>2, <2>3
<1>9. /\ qa' = qa
      /\ cur' = CASE syntaxStackSecondTop = "KY" -> queryStackTop(Pop(qs))
                   [] syntaxStackSecondTop = "LB" -> increaseArrayCounter(e)
                   [] Len(ss) = 1                 -> e
                   [] OTHER                       -> cur
      /\ qs' = CASE syntaxStackSecondTop = "KY" -> Pop(Pop(qs))
                  [] syntaxStackSecondTop = "LB" \/ Len(ss) = 1 -> Pop(qs)
                  [] OTHER -> qs
      /\ ss' = CASE syntaxStackSecondTop = "KY" -> Pop(Pop(ss))
                  [] syntaxStackSecondTop = "LB" \/ Len(ss) = 1 -> Pop(ss)
                  [] OTHER -> ss
  BY <1>6, Zenon DEF RB, e
<1>10. increaseArrayCounter(e).query_state = e.query_state /\ increaseArrayCounter(e).count = e.count + 1
  BY <1>7, ElementUpdate DEF INVALID
<1>11. /\ Len(Pop(ss)) = m /\ \A i \in 1 .. m : Pop(ss)[i] = ss[i]
       /\ Len(Pop(qs)) = l /\ \A j \in 1 .. l : Pop(qs)[j] = qs[j]
  BY <1>3, <1>4, <1>5, <1>6, PopFacts
<1>12. m = 0 => Len(ss') = 0 /\ Len(qs') = 0 /\ cur' = e
  BY <1>4, <1>6, <1>8, <1>9, <1>11
<1>13. m > 0 /\ open[m].sym = "KY" =>
         /\ Len(ss') = m - 1 /\ \A i \in 1 .. m - 1 : ss'[i] = ss[i]
         /\ Len(qs') = l - 1 /\ \A j \in 1 .. l - 1 : qs'[j] = qs[j]
         /\ cur' = qs[l]
  <2>1. SUFFICES ASSUME m > 0, open[m].sym = "KY"
                 PROVE  /\ Len(ss') = m - 1 /\ \A i \in 1 .. m - 1 : ss'[i] = ss[i]
                        /\ Len(qs') = l - 1 /\ \A j \in 1 .. l - 1 : qs'[j] = qs[j]
                        /\ cur' = qs[l]
    OBVIOUS
  <2>2. l > 0 /\ Len(qs) > 1 /\ Len(ss) > 1
    BY <1>3, <1>4, <1>5, <1>6, <2>1 DEF ValueEnds
  <2>3. ss' = Pop(Pop(ss)) /\ qs' = Pop(Pop(qs)) /\ cur' = queryStackTop(Pop(qs))
    BY <1>4, <1>6, <1>9, <2>1
  <2>4. Len(Pop(Pop(ss))) = n - 2 /\ \A i \in 1 .. n - 2 : Pop(Pop(ss))[i] = ss[i]
    BY <1>6, <2>2, PopPopFacts
  <2>5. /\ Len(Pop(Pop(qs))) = k - 2 /\ \A j \in 1 .. k - 2 : Pop(Pop(qs))[j] = qs[j]
        /\ Pop(qs) \in Seq(Element)
    BY <1>6, <2>2, PopPopFacts
  <2>6. queryStackTop(Pop(qs)) = Pop(qs)[l]
    BY <1>11, <2>2, <2>5, TopFacts
  <2>7. Pop(qs)[l] = qs[l]
    BY <1>11, <2>2
  <2>. QED
    BY <1>4, <1>5, <2>3, <2>4, <2>5, <2>6, <2>7
<1>14. m > 0 /\ open[m].sym = "LB" =>
         /\ Len(ss') = m /\ \A i \in 1 .. m : ss'[i] = ss[i]
         /\ Len(qs') = l /\ \A j \in 1 .. l : qs'[j] = qs[j]
         /\ cur'.query_state = e.query_state /\ cur'.count = e.count + 1
  BY <1>4, <1>6, <1>9, <1>10, <1>11
<1>15. /\ m \in 0 .. Len(open) /\ l \in 0 .. Len(path) /\ ValueEnds(m, l)
       /\ e.query_state = Run(l).query_state /\ e.count = Run(l).count
  BY <1>1, <1>2, <1>3, <1>4, <1>5, <1>7
<1>16. qa' = qa
  BY <1>9
<1>17. EngineEnds(m, l, e)
  BY <1>12, <1>13, <1>14, <1>15 DEF EngineEnds
<1>. QED
  BY <1>1, <1>4, <1>7, <1>8, <1>15, <1>16, <1>17 DEF ValueIsOver

LEMMA EndsPRI ==
  ASSUME IInv, ~lost, PRI
  PROVE  ValueIsOver(Len(open))
<1>1. PICK m \in Nat : m = Len(open)
  BY InnermostFacts DEF IInv
<1>2. PICK l \in Nat : l = Len(path)
  BY InnermostFacts DEF IInv
<1>3. ValueEnds(m, l)
  BY <1>1, <1>2, PRIFacts DEF IInv, PRI
<1>4. /\ ss \in Seq(Symbol) /\ qs \in Seq(Element) /\ Len(ss) = m /\ Len(qs) = l
      /\ (ss = <<>> <=> m = 0)
      /\ m > 0 => ss[m] = open[m].sym
      /\ l = IF m = 0 THEN 0 ELSE LabelsTo(m)
  BY <1>1, <1>2, EngineFacts, SyncFacts DEF IInv
<1>5. m > 0 => Last(ss) = open[m].sym
  <2>1. m > 0 => ss \in Seq(Symbol) /\ ss # <<>>
    BY <1>4
  <2>2. m > 0 => Last(ss) = ss[Len(ss)]
    BY <2>1, FrontFacts
  <2>. QED
    BY <1>4, <2>2
<1>6. cur \in Element /\ Run(l) = cur
  BY <1>4, EngineFacts DEF IInv, PRI, Run
<1>7. increaseArrayCounter(cur).query_state = cur.query_state
      /\ increaseArrayCounter(cur).count = cur.count + 1
  BY <1>6, ElementUpdate DEF INVALID
<1>8. qa' = qa
  BY DEF PRI
<1>9. m = 0 => ss' = ss /\ qs' = qs /\ cur' = cur
  BY <1>4 DEF PRI
<1>10. m > 0 =>
         /\ cur' = CASE Last(ss) = "KY" -> queryStackTop(qs)
                      [] Last(ss) = "LB" -> increaseArrayCounter(cur)
                      [] OTHER           -> cur
         /\ IF Last(ss) = "KY" THEN ss' = Pop(ss) /\ qs' = Pop(qs)
                               ELSE ss' = ss /\ qs' = qs
  <2>1. ss # <<>> =>
         /\ cur' = CASE Last(ss) = "KY" -> queryStackTop(qs)
                      [] Last(ss) = "LB" -> increaseArrayCounter(cur)
                      [] OTHER           -> cur
         /\ IF Last(ss) = "KY" THEN ss' = Pop(ss) /\ qs' = Pop(qs)
                               ELSE ss' = ss /\ qs' = qs
    BY Zenon DEF PRI
  <2>. QED
    BY <1>4, <2>1
<1>11. m = 0 => Len(ss') = 0 /\ Len(qs') = 0 /\ cur' = cur
  BY <1>4, <1>9
<1>12. m > 0 /\ open[m].sym = "KY" =>
         /\ Len(ss') = m - 1 /\ \A i \in 1 .. m - 1 : ss'[i] = ss[i]
         /\ Len(qs') = l - 1 /\ \A j \in 1 .. l - 1 : qs'[j] = qs[j]
         /\ cur' = qs[l]
  <2>1. SUFFICES ASSUME m > 0, open[m].sym = "KY"
                 PROVE  /\ Len(ss') = m - 1 /\ \A i \in 1 .. m - 1 : ss'[i] = ss[i]
                        /\ Len(qs') = l - 1 /\ \A j \in 1 .. l - 1 : qs'[j] = qs[j]
                        /\ cur' = qs[l]
    OBVIOUS
  <2>2. Len(qs) > 0 /\ Len(ss) > 0
    BY <1>3, <1>4, <2>1 DEF ValueEnds
  <2>3. ss' = Pop(ss) /\ qs' = Pop(qs) /\ cur' = queryStackTop(qs)
    BY <1>5, <1>10, <2>1
  <2>4. Len(Pop(ss)) = m - 1 /\ \A i \in 1 .. m - 1 : Pop(ss)[i] = ss[i]
    BY <1>4, <2>2, PopFacts
  <2>5. Len(Pop(qs)) = l - 1 /\ \A j \in 1 .. l - 1 : Pop(qs)[j] = qs[j]
    BY <1>4, <2>2, PopFacts
  <2>6. queryStackTop(qs) = qs[l]
    BY <1>4, <2>2, TopFacts
  <2>. QED
    BY <2>3, <2>4, <2>5, <2>6
<1>13. m > 0 /\ open[m].sym = "LB" =>
         /\ Len(ss') = m /\ \A i \in 1 .. m : ss'[i] = ss[i]
         /\ Len(qs') = l /\ \A j \in 1 .. l : qs'[j] = qs[j]
         /\ cur'.query_state = cur.query_state /\ cur'.count = cur.count + 1
  BY <1>4, <1>5, <1>7, <1>10
<1>14. /\ m \in 0 .. Len(open) /\ l \in 0 .. Len(path)
       /\ l = (IF m = 0 THEN 0 ELSE LabelsTo(m))
       /\ cur.query_state = Run(l).query_state /\ cur.count = Run(l).count
  BY <1>1, <1>2, <1>4, <1>6
<1>15. EngineEnds(m, l, cur)
  BY <1>11, <1>12, <1>13, <1>14 DEF EngineEnds
<1>. QED
  BY <1>1, <1>3, <1>6, <1>8, <1>14, <1>15 DEF ValueIsOver

LEMMA SyncLCB ==
  ASSUME IInv, ~lost', LCB
  PROVE  ~lost /\ Mirror' /\ RunOfPath'
<1>1. /\ ss' = Push(ss, "LCB") /\ Overflow(ss, <<>>) /\ qa' = qa /\ qs' = qs
      /\ ReadLCB
  BY Zenon DEF LCB
<1>2. ~lost /\ Len(ss) # MaxStack /\ "LCB" \in Symbol /\ ARRAY \in Keys \union {ARRAY}
  BY <1>1 DEF Overflow, Symbol
<1>3. /\ Len(open') = Len(open) + 1
      /\ \A i \in 1 .. Len(open) : open'[i] = open[i]
      /\ open'[Len(open) + 1] = [sym |-> "LCB", from |-> pos + 1, depth |-> Len(path)]
      /\ path' = path
  BY <1>1, <1>2, OpenFacts DEF IInv, ReadLCB
<1>4. Mirror'
  BY <1>1, <1>2, <1>3, MirrorPushed
<1>5. cur \in Element /\ cur'.query_state = cur.query_state /\ cur'.count = cur.count
  <2>1. cur \in Element /\ pos \in Nat
    BY EngineFacts DEF IInv, LCB
  <2>2. cur' = (IF Matched(cur) = OUTPUT_CANDIDATE
                  THEN [cur EXCEPT !.matched_start = pos'] ELSE cur)
    BY Zenon DEF LCB
  <2>. QED
    BY <1>1, <2>1, <2>2, ElementUpdate DEF ReadLCB
<1>6. PICK l \in Nat : l = Len(path) /\ Len(qs) = l /\ l \in 0 .. Len(path)
  BY <1>2, SyncFacts
<1>7. Run(l) = cur
  BY <1>6 DEF Run
<1>8. cur.count = IF l = 0 THEN 0 ELSE path[l].idx
  <2>1. l > 0 => l \in 1 .. Len(path)
    BY <1>6
  <2>. QED
    BY <1>2, <1>6, <1>7, <2>1 DEF IInv, Sync, RunOfPath
<1>9. RunOfPath'
  BY <1>1, <1>2, <1>3, <1>5, <1>6, <1>7, <1>8, RunCut
<1>. QED
  BY <1>2, <1>4, <1>9

LEMMA SyncLB ==
  ASSUME IInv, ~lost', LB
  PROVE  ~lost /\ Mirror' /\ RunOfPath'
<1> DEFINE e == IF Matched(cur) = OUTPUT_CANDIDATE
                  THEN [cur EXCEPT !.matched_start = pos'] ELSE cur
<1>1. /\ ss' = Push(ss, "LB") /\ Overflow(ss, qs) /\ qa' = qa /\ qs' = Push(qs, e)
      /\ cur' = NextElement(ARRAY) /\ ReadLB /\ Defined
  BY Zenon DEF LB
<1>2. e \in Element /\ e.query_state = cur.query_state /\ e.count = cur.count
  <2>1. cur \in Element /\ pos' \in Nat
    BY <1>1, EngineFacts DEF IInv, ReadLB
  <2>. QED
    BY <2>1, ElementUpdate
<1> HIDE DEF e
<1>3. /\ ~lost /\ Len(ss) # MaxStack /\ Len(qs) # MaxStack
      /\ "LB" \in Symbol /\ ARRAY \in Keys \union {ARRAY}
  BY <1>1 DEF Overflow, Symbol
<1>4. /\ Len(open') = Len(open) + 1
      /\ \A i \in 1 .. Len(open) : open'[i] = open[i]
      /\ open'[Len(open) + 1] = [sym |-> "LB", from |-> pos + 1, depth |-> Len(path)]
      /\ Len(path') = Len(path) + 1
      /\ \A j \in 1 .. Len(path) : path'[j] = path[j]
      /\ path'[Len(path) + 1] = [key |-> ARRAY, idx |-> 0]
  BY <1>1, <1>3, OpenFacts DEF IInv, ReadLB
<1>5. Mirror'
  BY <1>1, <1>3, <1>4, MirrorPushed
<1>6. RunOfPath'
  BY <1>1, <1>2, <1>3, <1>4, RunExtended
<1>. QED
  BY <1>3, <1>5, <1>6

LEMMA SyncKY ==
  ASSUME IInv, ~lost', NEW k \in Keys, KY(k)
  PROVE  ~lost /\ Mirror' /\ RunOfPath'
<1>1. /\ ss' = Push(ss, "KY") /\ Overflow(ss, qs) /\ qa' = qa /\ qs' = Push(qs, cur)
      /\ cur' = NextElement(k) /\ ReadKY(k) /\ Defined
  BY Zenon DEF KY
<1>2. cur \in Element
  BY <1>1, EngineFacts DEF IInv
<1>3. /\ ~lost /\ Len(ss) # MaxStack /\ Len(qs) # MaxStack
      /\ "KY" \in Symbol /\ k \in Keys \union {ARRAY}
  BY <1>1 DEF Overflow, Symbol
<1>4. /\ Len(open') = Len(open) + 1
      /\ \A i \in 1 .. Len(open) : open'[i] = open[i]
      /\ open'[Len(open) + 1] = [sym |-> "KY", from |-> pos + 1, depth |-> Len(path)]
      /\ Len(path') = Len(path) + 1
      /\ \A j \in 1 .. Len(path) : path'[j] = path[j]
      /\ path'[Len(path) + 1] = [key |-> k, idx |-> 0]
  BY <1>1, <1>3, OpenFacts DEF IInv, ReadKY
<1>5. Mirror'
  BY <1>1, <1>3, <1>4, MirrorPushed
<1>6. RunOfPath'
  BY <1>1, <1>2, <1>3, <1>4, RunExtended
<1>. QED
  BY <1>3, <1>5, <1>6

LEMMA SyncStep ==
  ASSUME IInv, [Next]_vars
  PROVE  Sync'
<1> SUFFICES ASSUME ~lost' PROVE Mirror' /\ RunOfPath'
  BY DEF Sync
<1>1. CASE RCB
  BY <1>1, EndsRCB, ValueEndsSync DEF RCB
<1>2. CASE RB
  BY <1>2, EndsRB, ValueEndsSync DEF RB
<1>3. CASE PRI
  <2>1. Len(open) \in 0 .. Len(open)
    BY InnermostFacts DEF IInv
  <2>. QED
    BY <1>3, <2>1, EndsPRI, ValueEndsSync DEF PRI
<1>4. CASE COM \/ UNCHANGED vars
  <2>1. UNCHANGED <<open, path>> /\ UNCHANGED engineVars
    BY <1>4, COMFacts DEF IInv, COM, vars, streamVars
  <2>. QED
    BY <2>1 DEF IInv, Sync, Mirror, RunOfPath, Run, engineVars
<1>. QED
  BY <1>1, <1>2, <1>3, <1>4, SyncLCB, SyncLB, SyncKY DEF Next

LEMMA Inductive == Spec => []IInv
<1>1. Init => IInv
  <2> SUFFICES ASSUME Init PROVE IInv
    OBVIOUS
  <2>1. Mirror /\ RunOfPath
    BY DEF Init, StreamInit, Mirror, RunOfPath, Run, StartElement
  <2>. QED
    BY <2>1, InitType DEF IInv, Sync
<1>2. IInv /\ [Next]_vars => IInv'
  BY StreamStep, EngineStep, SyncStep DEF IInv, TypeOK, EngineType, StreamInv
<1>. QED
  BY <1>1, <1>2, PTL DEF Spec

(* The look at the second symbol of the syntax stack is a look at the text:
   without a dropped push the stack is the nesting of the text. *)
THEOREM SyntaxCorrect == Spec => []SyntaxMirrorsNesting
<1>1. IInv => SyntaxMirrorsNesting
  BY MirrorForm DEF IInv, Sync, SyntaxMirrorsNesting
<1>. QED
  BY <1>1, Inductive, PTL

(* Whatever was saved for a key or an array is restored at its end: without a
   dropped push the query stack is the run of the query automaton along the
   path, and the counters are the indices of the text. *)
THEOREM RunCorrect == Spec => []RunFollowsPath
<1>1. IInv => RunFollowsPath
  BY DEF IInv, Sync, RunOfPath, RunFollowsPath
<1>. QED
  BY <1>1, Inductive, PTL

(* Fewer labels than entries lead to an entry. *)
DepthBound == \A i \in 1 .. Len(open) : open[i].depth < i

LEMMA DepthOpened ==
  ASSUME StreamInv, DepthBound,
         Len(open') = Len(open) + 1,
         \A i \in 1 .. Len(open) : open'[i] = open[i],
         open'[Len(open) + 1].depth = Len(path)
  PROVE  DepthBound'
<1>1. PICK n \in Nat : n = Len(open)
  BY InnermostFacts
<1>2. Len(path) < n + 1
  <2>1. CASE n = 0
    BY <1>1, <2>1, InnermostFacts
  <2>2. CASE n > 0
    <3>1. n \in 1 .. n /\ open[n].depth < n /\ open[n].depth \in Nat
          /\ Len(path) = LabelsTo(n)
      BY <1>1, <2>2, InnermostFacts DEF DepthBound
    <3>. QED
      BY <3>1 DEF LabelsTo
  <2>. QED
    BY <2>1, <2>2
<1>3. ASSUME NEW i \in 1 .. n + 1 PROVE open'[i].depth < i
  BY <1>1, <1>2 DEF DepthBound
<1>. QED
  BY <1>1, <1>3 DEF DepthBound

LEMMA DepthClosed ==
  ASSUME StreamInv, DepthBound, NEW m \in 0 .. Len(open), NEW l, ValueEnds(m, l)
  PROVE  DepthBound'
<1>1. Len(open) \in Nat /\ m \in Nat
  BY InnermostFacts
<1>2. PICK k \in 0 .. Len(open) :
        Len(open') = k /\ \A i \in 1 .. k : open'[i] = open[i]
  <2>1. CASE m = 0
    <3>1. Len(open') = 0
      BY <2>1 DEF ValueEnds
    <3>. QED
      BY <1>1, <3>1
  <2>2. CASE m > 0 /\ open[m].sym = "KY"
    <3>1. Len(open') = m - 1 /\ \A i \in 1 .. m - 1 : open'[i] = open[i]
      BY <2>2 DEF ValueEnds
    <3>2. m - 1 \in 0 .. Len(open)
      BY <1>1, <2>2
    <3>. QED
      BY <3>1, <3>2
  <2>3. CASE m > 0 /\ open[m].sym = "LB"
    BY <2>3 DEF ValueEnds
  <2>. QED
    BY <1>1, <2>1, <2>2, <2>3 DEF ValueEnds
<1>3. ASSUME NEW i \in 1 .. k PROVE open'[i].depth < i
  BY <1>1, <1>2 DEF DepthBound
<1>. QED
  BY <1>2, <1>3 DEF DepthBound

LEMMA DepthStep ==
  ASSUME StreamInv, DepthBound, [Next]_vars
  PROVE  DepthBound'
<1>0. /\ Len(open) \in Nat
      /\ "LCB" \in Symbol /\ "LB" \in Symbol /\ "KY" \in Symbol
      /\ ARRAY \in Keys \union {ARRAY}
  BY InnermostFacts DEF Symbol
<1>1. CASE LCB
  <2>1. /\ Len(open') = Len(open) + 1
        /\ \A i \in 1 .. Len(open) : open'[i] = open[i]
        /\ open'[Len(open) + 1] = [sym |-> "LCB", from |-> pos + 1, depth |-> Len(path)]
    BY <1>0, <1>1, OpenFacts DEF LCB, ReadLCB
  <2>. QED
    BY <2>1, DepthOpened
<1>2. CASE LB
  <2>1. /\ Len(open') = Len(open) + 1
        /\ \A i \in 1 .. Len(open) : open'[i] = open[i]
        /\ open'[Len(open) + 1] = [sym |-> "LB", from |-> pos + 1, depth |-> Len(path)]
    BY <1>0, <1>2, OpenFacts DEF LB, ReadLB
  <2>. QED
    BY <2>1, DepthOpened
<1>3. ASSUME NEW k \in Keys, KY(k) PROVE DepthBound'
  <2>1. /\ Len(open') = Len(open) + 1
        /\ \A i \in 1 .. Len(open) : open'[i] = open[i]
        /\ open'[Len(open) + 1] = [sym |-> "KY", from |-> pos + 1, depth |-> Len(path)]
    BY <1>0, <1>3, OpenFacts DEF KY, ReadKY
  <2>. QED
    BY <2>1, DepthOpened
<1>4. CASE RCB
  <2>1. Len(open) - 1 \in 0 .. Len(open) /\ ValueEnds(Len(open) - 1, Len(path))
    <3>1. ReadRCB
      BY <1>4, Zenon DEF RCB
    <3>. QED
      BY <1>0, <3>1, RCBFacts
  <2>. QED
    BY <2>1, DepthClosed
<1>5. CASE RB
  <2>1. Len(open) - 1 \in 0 .. Len(open) /\ ValueEnds(Len(open) - 1, Len(path) - 1)
    BY <1>0, <1>5, RBFacts DEF RB
  <2>. QED
    BY <2>1, DepthClosed
<1>6. CASE PRI
  <2>1. Len(open) \in 0 .. Len(open) /\ ValueEnds(Len(open), Len(path))
    BY <1>0, <1>6, PRIFacts DEF PRI
  <2>. QED
    BY <2>1, DepthClosed
<1>7. CASE COM \/ UNCHANGED vars
  <2>1. open' = open
    BY <1>7, COMFacts DEF COM, vars, streamVars
  <2>. QED
    BY <2>1 DEF DepthBound
<1>. QED
  BY <1>1, <1>2, <1>3, <1>4, <1>5, <1>6, <1>7 DEF Next

(* A push is dropped only in a text with MAX_STACK entries open: the path is
   never longer than the nesting is deep, so the query stack is never the
   first to be full. *)
THEOREM LossCorrect == Spec => LossNeedsDepth
<1>1. ASSUME IInv, DepthBound, [Next]_vars, ~lost, lost'
      PROVE  Len(open) >= MaxStack
  <2>1. Len(ss) = MaxStack \/ Len(qs) = MaxStack
    <3>1. Overflow(ss, <<>>) \/ Overflow(ss, qs) \/ lost' = lost
      BY <1>1 DEF Next, LCB, RCB, LB, RB, COM, KY, PRI, engineVars, vars
    <3>. QED
      BY <1>1, <3>1, MaxStackAssumption DEF Overflow
  <2>2. Len(ss) = Len(open) /\ Len(qs) = Len(path) /\ Len(open) \in Nat
    BY <1>1, SyncFacts
  <2>3. Len(path) <= Len(open)
    <3>1. CASE Len(open) = 0
      BY <2>2, <3>1, <1>1, InnermostFacts DEF IInv
    <3>2. CASE Len(open) > 0
      <4>1. /\ Len(open) \in 1 .. Len(open) /\ Len(path) = LabelsTo(Len(open))
            /\ open[Len(open)].depth \in Nat
        BY <1>1, <2>2, <3>2, InnermostFacts DEF IInv
      <4>2. open[Len(open)].depth < Len(open)
        BY <1>1, <4>1 DEF DepthBound
      <4>. QED
        BY <2>2, <4>1, <4>2 DEF LabelsTo
    <3>. QED
      BY <2>2, <3>1, <3>2
  <2>. QED
    BY <2>1, <2>2, <2>3, MaxStackAssumption
<1>2. Spec => []DepthBound
  <2>1. Init => DepthBound
    BY DEF Init, StreamInit, DepthBound
  <2>2. IInv /\ DepthBound /\ [Next]_vars => DepthBound'
    BY DepthStep DEF IInv
  <2>. QED
    BY <2>1, <2>2, Inductive, PTL DEF Spec
<1>3. IInv /\ DepthBound /\ [Next]_vars => [~lost /\ lost' => Len(open) >= MaxStack]_vars
  BY <1>1
<1>. QED
  BY <1>2, <1>3, Inductive, PTL DEF Spec, LossNeedsDepth

-----------------------------------------------------------------------------
(* The nesting and the run, step by step.                                  *)

(* The labels to an entry only get more from the outside to the inside; only an
   object that is innermost is as deep as the path is long. *)
LEMMA LabelsGrow ==
  ASSUME StreamInv, NEW k \in 1 .. Len(open)
  PROVE  \A i \in 1 .. k :
           /\ open[i].depth <= LabelsTo(k) /\ LabelsTo(i) <= LabelsTo(k)
           /\ open[i].depth = LabelsTo(k) => i = k /\ open[i].sym = "LCB"
<1>1. PICK n \in Nat : n = Len(open)
  BY InnermostFacts
<1>2. \A i \in 1 .. n : /\ open[i].depth \in Nat /\ open[i].sym \in Symbol
                        /\ LabelsTo(i) \in Nat
                        /\ open[i].depth = (IF i = 1 THEN 0 ELSE LabelsTo(i - 1))
                        /\ open[i].sym # "KY" /\ i > 1 => open[i-1].sym # "LCB"
                        /\ LabelsTo(i) = open[i].depth +
                             (IF open[i].sym = "LCB" THEN 0 ELSE 1)
  BY <1>1, InnermostFacts DEF LabelsTo
<1> DEFINE Grown(m) == \A i \in 1 .. m :
             /\ open[i].depth <= LabelsTo(m) /\ LabelsTo(i) <= LabelsTo(m)
             /\ open[i].depth = LabelsTo(m) => i = m /\ open[i].sym = "LCB"
           P == {m \in 0 .. n : m > 0 => Grown(m)}
<1>3. 0 \in P
  OBVIOUS
<1>4. ASSUME NEW m \in Nat, m < n, m \in P PROVE m + 1 \in P
  <2>1. m + 1 \in 1 .. n /\ m + 1 \in 0 .. n
    BY <1>4
  <2>2. ASSUME NEW i \in 1 .. m + 1
        PROVE  /\ open[i].depth <= LabelsTo(m + 1) /\ LabelsTo(i) <= LabelsTo(m + 1)
               /\ open[i].depth = LabelsTo(m + 1) => i = m + 1 /\ open[i].sym = "LCB"
    <3>1. CASE i = m + 1
      <4>1. PICK h \in 1 .. n : h = m + 1 /\ h = i
        BY <2>1, <3>1
      <4>2. /\ open[h].depth \in Nat /\ open[h].sym \in Symbol /\ LabelsTo(h) \in Nat
            /\ LabelsTo(h) = open[h].depth + (IF open[h].sym = "LCB" THEN 0 ELSE 1)
        BY <1>2
      <4>3. open[h].depth <= LabelsTo(h)
            /\ (open[h].depth = LabelsTo(h) => open[h].sym = "LCB")
        BY <4>2
      <4>. QED
        BY <4>1, <4>2, <4>3
    <3>2. CASE i \in 1 .. m
      <4>1. /\ m > 0 /\ m \in 1 .. n /\ i \in 1 .. n
            /\ open[i].depth <= LabelsTo(m) /\ LabelsTo(i) <= LabelsTo(m)
            /\ open[i].depth = LabelsTo(m) => i = m /\ open[i].sym = "LCB"
        BY <1>4, <3>2
      <4>2. PICK o \in Nat : o = m + 1
        BY <4>1
      <4>3. /\ o \in 1 .. n /\ o > 1 /\ o # 1 /\ o - 1 = m
            /\ LabelsTo(m) \in Nat /\ open[i].depth \in Nat /\ LabelsTo(i) \in Nat
        BY <1>2, <2>1, <4>1, <4>2
      <4>4. /\ open[o].depth = LabelsTo(m)
            /\ open[o].sym # "KY" => open[m].sym # "LCB"
            /\ LabelsTo(o) = open[o].depth + (IF open[o].sym = "LCB" THEN 0 ELSE 1)
        BY <1>2, <4>3
      <4>5. LabelsTo(o) = LabelsTo(m) \/ LabelsTo(o) = LabelsTo(m) + 1
        BY <4>3, <4>4
      <4>6. open[m].sym = "LCB" => LabelsTo(o) = LabelsTo(m) + 1
        BY <4>4
      <4>7. /\ open[i].depth <= LabelsTo(o) /\ LabelsTo(i) <= LabelsTo(o)
            /\ open[i].depth # LabelsTo(o)
        BY <4>1, <4>3, <4>5, <4>6
      <4>. QED
        BY <4>2, <4>7
    <3>. QED
      BY <2>1, <3>1, <3>2
  <2>. QED
    BY <2>1, <2>2
<1>5. 0 .. n \subseteq P
  <2> HIDE DEF P
  <2>. QED
    BY <1>3, <1>4, BoundedInduction
<1>6. k \in P /\ k > 0
  BY <1>1, <1>5
<1>. QED
  BY <1>6

(* Where the next value may begin, every open entry lies above it. *)
LEMMA EntriesAbove ==
  ASSUME StreamInv, open = <<>> \/ Innermost # "LCB"
  PROVE  \A i \in 1 .. Len(open) : open[i].depth < Len(path)
<1>1. PICK n \in Nat : n = Len(open)
  BY InnermostFacts
<1>2. SUFFICES ASSUME NEW i \in 1 .. n PROVE open[i].depth < Len(path)
  BY <1>1
<1>3. n \in 1 .. Len(open) /\ n > 0 /\ open[n].sym # "LCB" /\ Len(path) = LabelsTo(n)
      /\ i \in 1 .. Len(open)
  BY <1>1, InnermostFacts DEF Innermost
<1>4. open[i].depth \in Nat /\ LabelsTo(n) \in Nat
  BY <1>3, InnermostFacts
<1>5. /\ open[i].depth <= LabelsTo(n)
      /\ open[i].depth = LabelsTo(n) => i = n /\ open[i].sym = "LCB"
  BY <1>3, LabelsGrow
<1>. QED
  BY <1>3, <1>4, <1>5

(* An ended value leaves a shorter text, and the run above it as it was. *)
LEMMA RunKept ==
  ASSUME IInv, ~lost, NEW m \in 0 .. Len(open), ValueIsOver(m)
  PROVE  \E n \in 0 .. Len(open), l \in 0 .. Len(path) :
           /\ Len(open') = n /\ \A i \in 1 .. n : open'[i] = open[i]
           /\ Len(path') = l /\ \A j \in 1 .. l : path'[j].key = path[j].key
           /\ l = IF n = 0 THEN 0 ELSE LabelsTo(n)
           /\ \A j \in 0 .. l : j < l => Run(j)' = Run(j)
           /\ n > 0 /\ open[n].sym = "LCB" => Run(l)' = Run(l)
           /\ n = 0 \/ n = m \/ n = m - 1
           /\ \A i \in n + 1 .. m : open[i].sym # "LCB"
<1>1. PICK k \in 0 .. Len(path), e \in Element :
        /\ k = (IF m = 0 THEN 0 ELSE LabelsTo(m))
        /\ ValueEnds(m, k) /\ EngineEnds(m, k, e)
  BY DEF ValueIsOver
<1>2. /\ Len(open) \in Nat /\ Len(path) \in Nat /\ m \in Nat /\ k \in Nat
      /\ Len(qs) = Len(path)
  BY SyncFacts
<1>3. CASE m = 0
  <2>1. Len(open') = 0 /\ Len(path') = 0
    BY <1>1, <1>3 DEF ValueEnds
  <2>2. 0 \in 0 .. Len(open) /\ 0 \in 0 .. Len(path)
    BY <1>2
  <2>. QED
    BY <1>3, <2>1, <2>2
<1>4. CASE m > 0 /\ open[m].sym = "KY"
  <2>1. /\ m > 1 /\ k > 0 /\ Len(open') = m - 1 /\ Len(path') = k - 1
        /\ \A i \in 1 .. m - 1 : open'[i] = open[i]
        /\ \A j \in 1 .. k - 1 : path'[j] = path[j]
    BY <1>1, <1>4 DEF ValueEnds
  <2>2. Len(qs') = k - 1 /\ (\A j \in 1 .. k - 1 : qs'[j] = qs[j]) /\ cur' = qs[k]
    BY <1>1, <1>4 DEF EngineEnds
  <2>3. /\ m \in 1 .. Len(open) /\ m - 1 \in 1 .. Len(open)
        /\ m - 1 \in 0 .. Len(open) /\ k - 1 \in 0 .. Len(path)
    BY <1>2, <2>1
  <2>4. k - 1 = LabelsTo(m - 1)
    <3>1. /\ LabelsTo(m) = open[m].depth + 1
          /\ open[m].depth \in Nat
          /\ open[m].depth = LabelsTo(m - 1)
      BY <1>4, <2>1, <2>3, InnermostFacts DEF IInv, LabelsTo
    <3>. QED
      BY <1>1, <2>1, <3>1
  <2>5. \A j \in 0 .. k - 1 : Run(j)' = Run(j)
    <3> SUFFICES ASSUME NEW j \in 0 .. k - 1 PROVE Run(j)' = Run(j)
      OBVIOUS
    <3>1. CASE j < k - 1
      BY <1>2, <2>1, <2>2, <3>1 DEF Run
    <3>2. CASE j = k - 1
      BY <1>2, <2>1, <2>2, <3>2 DEF Run
    <3>. QED
      BY <2>1, <3>1, <3>2
  <2>6. m - 1 # 0 /\ (\A i \in (m - 1) + 1 .. m : open[i].sym # "LCB")
        /\ k - 1 \in 0 .. k - 1
    BY <1>4, <2>1
  <2>. QED
    BY <2>1, <2>3, <2>4, <2>5, <2>6
<1>5. CASE m > 0 /\ open[m].sym = "LB"
  <2>1. /\ k > 0 /\ Len(open') = m /\ Len(path') = k
        /\ \A i \in 1 .. m : open'[i] = open[i]
        /\ \A j \in 1 .. k - 1 : path'[j] = path[j]
        /\ path'[k].key = path[k].key
    BY <1>1, <1>5 DEF ValueEnds
  <2>2. Len(qs') = k /\ \A j \in 1 .. k : qs'[j] = qs[j]
    BY <1>1, <1>5 DEF EngineEnds
  <2>3. \A j \in 1 .. k : path'[j].key = path[j].key
    BY <1>2, <2>1
  <2>4. \A j \in 0 .. k : j < k => Run(j)' = Run(j)
    BY <1>2, <2>1, <2>2 DEF Run
  <2>5. \A i \in m + 1 .. m : open[i].sym # "LCB"
    BY <1>2
  <2>. QED
    BY <1>1, <1>5, <2>1, <2>3, <2>4, <2>5
<1>. QED
  BY <1>1, <1>2, <1>3, <1>4, <1>5 DEF ValueEnds
-----------------------------------------------------------------------------
(* The start of a match.                                                   *)

Started(i) ==
  open[i].sym # "KY" /\ Matched(Run(open[i].depth)) = OUTPUT_CANDIDATE
    => Run(open[i].depth).matched_start = open[i].from

StartsKept == \A i \in 1 .. Len(open) : Started(i)

(* An entry whose element is not touched has what it had. *)
LEMMA StartedStill ==
  ASSUME qa' = qa, NEW i, Started(i), open'[i] = open[i],
         open[i].sym # "KY" => Run(open[i].depth)' = Run(open[i].depth)
  PROVE  Started(i)'
BY DEF Started, Matched

LEMMA StartsKeptAtEnd ==
  ASSUME IInv, ~lost, StartsKept, NEW m \in 0 .. Len(open), ValueIsOver(m)
  PROVE  StartsKept'
<1>1. PICK n \in 0 .. Len(open), l \in 0 .. Len(path) :
        /\ Len(open') = n /\ \A i \in 1 .. n : open'[i] = open[i]
        /\ l = (IF n = 0 THEN 0 ELSE LabelsTo(n))
        /\ \A j \in 0 .. l : j < l => Run(j)' = Run(j)
        /\ n > 0 /\ open[n].sym = "LCB" => Run(l)' = Run(l)
  BY RunKept
<1>2. qa' = qa
  BY DEF ValueIsOver
<1>3. ASSUME NEW i \in 1 .. n PROVE Started(i)'
  <2>1. /\ n \in 1 .. Len(open) /\ n > 0 /\ i \in 1 .. Len(open)
        /\ l = LabelsTo(n) /\ l \in Nat /\ open[i].depth \in Nat
    BY <1>1, <1>3, InnermostFacts DEF IInv
  <2>2. /\ open[i].depth <= l
        /\ open[i].depth = l => i = n /\ open[i].sym = "LCB"
    BY <2>1, LabelsGrow DEF IInv
  <2>3. PICK d \in 0 .. l : d = open[i].depth
    BY <2>1, <2>2
  <2>4. Run(d)' = Run(d)
    BY <1>1, <2>1, <2>2, <2>3
  <2>5. Started(i) /\ open'[i] = open[i]
    BY <1>1, <2>1 DEF StartsKept
  <2>. QED
    BY <1>2, <2>3, <2>4, <2>5 DEF Started, Matched
<1>. QED
  BY <1>1, <1>3 DEF StartsKept

(* An entry is opened at the end of the path, and the run down to it stays,
   but for the start of a match in the innermost element. *)
LEMMA StartsKeptAtBegin ==
  ASSUME IInv, ~lost, StartsKept, qa' = qa,
         NEW n \in Nat, n = Len(open), NEW l \in Nat, l = Len(path),
         Len(open') = n + 1,
         \A i \in 1 .. n : open'[i] = open[i],
         \A j \in 0 .. l : j < l => Run(j)' = Run(j),
         open = <<>> \/ Innermost # "LCB" \/ Run(l)' = Run(l),
         Started(n + 1)'
  PROVE  StartsKept'
<1>1. ASSUME NEW i \in 1 .. n PROVE Started(i)'
  <2>1. /\ n \in 1 .. n /\ l = LabelsTo(n)
        /\ open[i].depth \in Nat
    BY InnermostFacts DEF IInv
  <2>2. PICK d \in Nat : d = open[i].depth
    BY <2>1
  <2>3. Run(d)' = Run(d)
    <3>1. CASE open = <<>> \/ Innermost # "LCB"
      <4>1. d < l
        BY <2>2, <3>1, EntriesAbove DEF IInv
      <4>. QED
        BY <4>1
    <3>2. CASE Run(l)' = Run(l)
      <4>1. d <= l
        BY <2>1, <2>2, LabelsGrow DEF IInv
      <4>2. d < l \/ d = l
        BY <4>1
      <4>3. CASE d < l
        BY <4>3
      <4>4. CASE d = l
        BY <3>2, <4>4
      <4>. QED
        BY <4>2, <4>3, <4>4
    <3>. QED
      BY <3>1, <3>2
  <2>4. Started(i) /\ open'[i] = open[i]
    BY DEF StartsKept
  <2>. QED
    BY <2>2, <2>3, <2>4 DEF Started, Matched
<1>2. ASSUME NEW i \in 1 .. n + 1 PROVE Started(i)'
  BY <1>1
<1>. QED
  BY <1>2 DEF StartsKept
(* A push puts the element on top of the run that leads to it. *)
LEMMA RunPushed ==
  ASSUME IInv, ~lost, NEW l \in Nat, l = Len(path),
         NEW e \in Element, qs' = Push(qs, e), Len(qs) # MaxStack
  PROVE  /\ \A j \in 0 .. l : j < l => Run(j)' = Run(j)
         /\ Run(l)' = e /\ Run(l + 1)' = cur'
         /\ Run(l) = cur
<1>1. /\ qs \in Seq(Element) /\ Len(qs) <= MaxStack /\ e \in Element
      /\ Len(qs) # MaxStack
  BY EngineFacts DEF IInv
<1>2. /\ Len(Push(qs, e)) = Len(qs) + 1
      /\ \A i \in 1 .. Len(qs) : Push(qs, e)[i] = qs[i]
      /\ Push(qs, e)[Len(qs) + 1] = e
  BY ONLY <1>1, PushFacts
<1>3. Len(qs) = l
  BY SyncFacts
<1>4. Len(qs') = l + 1 /\ (\A i \in 1 .. l : qs'[i] = qs[i]) /\ qs'[l + 1] = e
  BY <1>2, <1>3
<1>. QED
  BY <1>3, <1>4 DEF Run

LEMMA StartsLCB ==
  ASSUME IInv, ~lost, StartsKept, LCB
  PROVE  StartsKept'
<1>1. /\ qa' = qa /\ qs' = qs /\ ReadLCB
      /\ cur' = (IF Matched(cur) = OUTPUT_CANDIDATE
                   THEN [cur EXCEPT !.matched_start = pos'] ELSE cur)
  BY Zenon DEF LCB
<1>2. PICK n \in Nat : n = Len(open)
  BY SyncFacts
<1>3. PICK l \in Nat : l = Len(path) /\ l = Len(qs)
  BY SyncFacts
<1>4. /\ Len(open') = n + 1
      /\ \A i \in 1 .. n : open'[i] = open[i]
      /\ open'[n + 1] = [sym |-> "LCB", from |-> pos + 1, depth |-> l]
  <2>1. "LCB" \in Symbol /\ ARRAY \in Keys \union {ARRAY}
    BY DEF Symbol
  <2>. QED
    BY <1>1, <1>2, <1>3, <2>1, OpenFacts DEF IInv, ReadLCB
<1>5. /\ \A j \in 0 .. l : j < l => Run(j)' = Run(j)
      /\ Run(l)' = cur'
  BY <1>1, <1>3 DEF Run
<1>6. open = <<>> \/ Innermost # "LCB"
  BY <1>1 DEF ReadLCB, ExpectsValue, IInv, StreamInv, StreamShape
<1>7. Started(n + 1)'
  <2>1. cur \in Element /\ pos \in Nat /\ pos' = pos + 1
    BY <1>1, EngineFacts DEF IInv, LCB, ReadLCB
  <2>2. /\ cur'.query_state = cur.query_state /\ cur'.count = cur.count
        /\ Matched(cur) = OUTPUT_CANDIDATE => cur'.matched_start = pos + 1
    BY <1>1, <2>1, ElementUpdate DEF Element
  <2>3. Matched(cur)' = Matched(cur)
    BY <1>1, <2>2 DEF Matched
  <2>. QED
    BY <1>4, <1>5, <2>2, <2>3 DEF Started
<1>. QED
  BY <1>1, <1>2, <1>3, <1>4, <1>5, <1>6, <1>7, StartsKeptAtBegin

LEMMA StartsLB ==
  ASSUME IInv, ~lost', StartsKept, LB
  PROVE  StartsKept'
<1> DEFINE e == IF Matched(cur) = OUTPUT_CANDIDATE
                  THEN [cur EXCEPT !.matched_start = pos'] ELSE cur
<1>1. /\ qa' = qa /\ qs' = Push(qs, e) /\ ReadLB /\ Overflow(ss, qs)
  BY Zenon DEF LB
<1>2. ~lost /\ Len(qs) # MaxStack
  BY <1>1 DEF Overflow
<1>3. PICK n \in Nat : n = Len(open)
  BY <1>2, SyncFacts
<1>4. PICK l \in Nat : l = Len(path)
  BY <1>2, SyncFacts
<1>5. /\ Len(open') = n + 1
      /\ \A i \in 1 .. n : open'[i] = open[i]
      /\ open'[n + 1] = [sym |-> "LB", from |-> pos + 1, depth |-> l]
  <2>1. "LB" \in Symbol /\ ARRAY \in Keys \union {ARRAY}
    BY DEF Symbol
  <2>. QED
    BY <1>1, <1>3, <1>4, <2>1, OpenFacts DEF IInv, ReadLB
<1>6. /\ e \in Element /\ e.query_state = cur.query_state /\ e.count = cur.count
      /\ Matched(cur) = OUTPUT_CANDIDATE => e.matched_start = pos + 1
  <2>1. cur \in Element /\ pos \in Nat /\ pos' = pos + 1
    BY <1>1, EngineFacts DEF IInv, LB, ReadLB
  <2>. QED
    BY <2>1, ElementUpdate DEF Element
<1>7. open = <<>> \/ Innermost # "LCB"
  BY <1>1 DEF ReadLB, ExpectsValue, IInv, StreamInv, StreamShape
<1> HIDE DEF e
<1>8. /\ \A j \in 0 .. l : j < l => Run(j)' = Run(j)
      /\ Run(l)' = e
  BY <1>1, <1>2, <1>4, <1>6, RunPushed
<1>9. Started(n + 1)'
  <2>1. Matched(Run(l))' = Matched(cur)
    BY <1>1, <1>6, <1>8 DEF Matched
  <2>. QED
    BY <1>5, <1>6, <1>8, <2>1 DEF Started
<1>. QED
  BY <1>1, <1>2, <1>3, <1>4, <1>5, <1>7, <1>8, <1>9, StartsKeptAtBegin

LEMMA StartsKY ==
  ASSUME IInv, ~lost', StartsKept, NEW k \in Keys, KY(k)
  PROVE  StartsKept'
<1>1. /\ qa' = qa /\ qs' = Push(qs, cur) /\ ReadKY(k) /\ Overflow(ss, qs)
  BY Zenon DEF KY
<1>2. ~lost /\ Len(qs) # MaxStack
  BY <1>1 DEF Overflow
<1>3. PICK n \in Nat : n = Len(open)
  BY <1>2, SyncFacts
<1>4. PICK l \in Nat : l = Len(path)
  BY <1>2, SyncFacts
<1>5. /\ Len(open') = n + 1
      /\ \A i \in 1 .. n : open'[i] = open[i]
      /\ open'[n + 1] = [sym |-> "KY", from |-> pos + 1, depth |-> l]
  <2>1. "KY" \in Symbol /\ k \in Keys \union {ARRAY}
    BY DEF Symbol
  <2>. QED
    BY <1>1, <1>3, <1>4, <2>1, OpenFacts DEF IInv, ReadKY
<1>6. cur \in Element
  BY EngineFacts DEF IInv, KY
<1>7. /\ \A j \in 0 .. l : j < l => Run(j)' = Run(j)
      /\ Run(l)' = Run(l)
  BY <1>1, <1>2, <1>4, <1>6, RunPushed
<1>8. Started(n + 1)'
  BY <1>5 DEF Started
<1>. QED
  BY <1>1, <1>2, <1>3, <1>4, <1>5, <1>7, <1>8, StartsKeptAtBegin
(* What holds for every text that was not too deep is kept by a step if the
   steps that end a value, and those that open an entry, keep it. *)
LEMMA StartsStep ==
  ASSUME IInv, ~lost', ~lost => StartsKept, [Next]_vars
  PROVE  StartsKept'
<1>1. CASE RCB \/ RB \/ PRI
  <2>1. ~lost /\ \E m \in 0 .. Len(open) : ValueIsOver(m)
    <3>1. ~lost
      BY <1>1 DEF RCB, RB, PRI
    <3>2. Len(open) \in 0 .. Len(open)
      BY InnermostFacts DEF IInv
    <3>. QED
      BY <1>1, <3>1, <3>2, EndsRCB, EndsRB, EndsPRI
  <2>. QED
    BY <2>1, StartsKeptAtEnd
<1>2. CASE LCB
  <2>1. ~lost
    BY <1>2 DEF LCB, Overflow
  <2>. QED
    BY <1>2, <2>1, StartsLCB
<1>3. CASE LB
  <2>1. ~lost
    BY <1>3 DEF LB, Overflow
  <2>. QED
    BY <1>3, <2>1, StartsLB
<1>4. ASSUME NEW k \in Keys, KY(k) PROVE StartsKept'
  <2>1. ~lost
    BY <1>4 DEF KY, Overflow
  <2>. QED
    BY <1>4, <2>1, StartsKY
<1>5. CASE COM \/ UNCHANGED vars
  <2>1. UNCHANGED <<open, path>> /\ UNCHANGED engineVars
    BY <1>5, COMFacts DEF IInv, COM, vars, streamVars
  <2>. QED
    BY <2>1 DEF StartsKept, Started, Matched, Run, engineVars
<1>. QED
  BY <1>1, <1>2, <1>3, <1>4, <1>5 DEF Next

(* A container that is an answer keeps the place where it began until it is
   closed: however often its element is saved and restored, and whatever is
   matched inside it, no other match takes its start. *)
THEOREM StartsCorrect == Spec => []MatchKeepsStart
<1>1. Init => StartsKept
  BY DEF Init, StreamInit, StartsKept
<1>2. IInv /\ (~lost => StartsKept) /\ [Next]_vars => (~lost => StartsKept)'
  BY StartsStep
<1>3. IInv /\ (~lost => StartsKept) => MatchKeepsStart
  <2>1. IInv => DOMAIN open = 1 .. Len(open)
    BY InnermostFacts, LenProperties DEF IInv
  <2>. QED
    BY <2>1 DEF StartsKept, Started, MatchKeepsStart
<1>. QED
  BY <1>1, <1>2, <1>3, Inductive, PTL DEF Spec

-----------------------------------------------------------------------------
(* The constraint table.                                                   *)

CoveredAt(j) ==
  /\ Run(j-1).query_state \in ct[path[j].key]
  /\ ~InSlice(qa.index[Run(j-1).query_state], Run(j-1).count)
       => 0 \in ct[path[j].key]

Covered == \A j \in 1 .. Len(path) : CoveredAt(j)

LEMMA CoveredAtEnd ==
  ASSUME IInv, ~lost, Covered, NEW m \in 0 .. Len(open), ValueIsOver(m), ct' = ct
  PROVE  Covered'
<1>1. PICK n \in 0 .. Len(open), l \in 0 .. Len(path) :
        /\ Len(path') = l /\ \A j \in 1 .. l : path'[j].key = path[j].key
        /\ \A j \in 0 .. l : j < l => Run(j)' = Run(j)
  BY RunKept
<1>2. qa' = qa /\ l \in Nat /\ Len(path) \in Nat
  BY SyncFacts DEF ValueIsOver
<1>3. ASSUME NEW j \in 1 .. l PROVE CoveredAt(j)'
  <2>1. PICK i \in 0 .. l : i = j - 1 /\ i < l
    BY <1>2
  <2>2. Run(i)' = Run(i) /\ path'[j].key = path[j].key /\ j \in 1 .. Len(path)
    BY <1>1, <1>2, <2>1
  <2>3. CoveredAt(j)
    BY <2>2 DEF Covered
  <2>. QED
    BY <1>2, <2>1, <2>2, <2>3 DEF CoveredAt
<1>. QED
  BY <1>1, <1>3 DEF Covered

(* A label is read in the innermost element, which is pushed with it. *)
LEMMA CoveredAtLabel ==
  ASSUME IInv, ~lost, Covered, DataConstraintFlag, Defined, qa' = qa,
         NEW k \in Keys \union {ARRAY}, addConstraintInfo(k),
         NEW e \in Element, e.query_state = cur.query_state, e.count = cur.count,
         qs' = Push(qs, e), Len(qs) # MaxStack,
         Len(path') = Len(path) + 1,
         \A j \in 1 .. Len(path) : path'[j] = path[j],
         path'[Len(path) + 1].key = k
  PROVE  Covered'
<1>1. PICK l \in Nat : l = Len(path)
  BY SyncFacts
<1>2. /\ \A j \in 0 .. l : j < l => Run(j)' = Run(j)
      /\ Run(l)' = e
  BY <1>1, RunPushed
<1>3. /\ \A x \in Keys \union {ARRAY} : ct[x] \subseteq ct'[x]
      /\ cur.query_state \in ct'[k]
      /\ ~InSlice(qa.index[cur.query_state], cur.count) => 0 \in ct'[k]
  BY EngineFacts DEF IInv, addConstraintInfo
<1>4. ASSUME NEW j \in 1 .. l + 1 PROVE CoveredAt(j)'
  <2>1. PICK i \in 0 .. l : i = j - 1
    OBVIOUS
  <2>2. CASE j \in 1 .. l
    <3>1. Run(i)' = Run(i) /\ path'[j] = path[j] /\ CoveredAt(j)
      BY <1>1, <1>2, <2>1, <2>2 DEF Covered
    <3>2. path[j].key \in Keys \union {ARRAY}
      <4>1. path \in Seq(Label) /\ j \in 1 .. Len(path)
        BY <1>1, <2>2, InnermostFacts DEF IInv
      <4>2. path[j] \in Label
        BY <4>1, ElementOfSeq
      <4>. QED
        BY <4>2 DEF Label
    <3>. QED
      BY <1>3, <2>1, <3>1, <3>2 DEF CoveredAt
  <2>3. CASE j = l + 1
    <3>1. i = l /\ Run(i)' = e /\ path'[j].key = k
      BY <1>1, <1>2, <2>1, <2>3
    <3>. QED
      BY <1>3, <2>1, <3>1 DEF CoveredAt
  <2>. QED
    BY <2>2, <2>3
<1>. QED
  BY <1>1, <1>4 DEF Covered

LEMMA CoveredStep ==
  ASSUME IInv, ~lost', DataConstraintFlag, ~lost => Covered, [Next]_vars
  PROVE  Covered'
<1>1. CASE RCB \/ RB \/ PRI
  <2>1. ~lost /\ ct' = ct /\ \E m \in 0 .. Len(open) : ValueIsOver(m)
    <3>1. ~lost /\ ct' = ct
      BY <1>1 DEF RCB, RB, PRI
    <3>2. Len(open) \in 0 .. Len(open)
      BY InnermostFacts DEF IInv
    <3>. QED
      BY <1>1, <3>1, <3>2, EndsRCB, EndsRB, EndsPRI
  <2>. QED
    BY <2>1, CoveredAtEnd
<1>2. CASE LCB
  <2>1. /\ ~lost /\ ct' = ct /\ qa' = qa /\ qs' = qs /\ path' = path
    BY <1>2, Zenon DEF LCB, Overflow, ReadLCB
  <2>2. Len(qs) = Len(path) /\ Len(path) \in Nat
    BY <2>1, SyncFacts
  <2>3. ASSUME NEW j \in 1 .. Len(path) PROVE CoveredAt(j)'
    <3>1. CoveredAt(j) /\ j - 1 < Len(qs)
      BY <2>1, <2>2 DEF Covered
    <3>. QED
      BY <2>1, <3>1 DEF CoveredAt, Run
  <2>. QED
    BY <2>1, <2>3 DEF Covered
<1>3. CASE LB
  <2> DEFINE e == IF Matched(cur) = OUTPUT_CANDIDATE
                    THEN [cur EXCEPT !.matched_start = pos'] ELSE cur
  <2>1. /\ qa' = qa /\ qs' = Push(qs, e) /\ ReadLB /\ Overflow(ss, qs)
        /\ Defined /\ addConstraintInfo(ARRAY)
    BY <1>3, Zenon DEF LB
  <2>2. ~lost /\ Len(qs) # MaxStack
    BY <2>1 DEF Overflow
  <2>3. /\ Len(path') = Len(path) + 1
        /\ \A j \in 1 .. Len(path) : path'[j] = path[j]
        /\ path'[Len(path) + 1].key = ARRAY
    <3>1. "LB" \in Symbol /\ ARRAY \in Keys \union {ARRAY}
      BY DEF Symbol
    <3>. QED
      BY <2>1, <3>1, OpenFacts DEF IInv, ReadLB
  <2>4. e \in Element /\ e.query_state = cur.query_state /\ e.count = cur.count
    <3>1. cur \in Element /\ pos' \in Nat
      BY <2>1, EngineFacts DEF IInv, ReadLB
    <3>. QED
      BY <3>1, ElementUpdate
  <2> HIDE DEF e
  <2>. QED
    BY <2>1, <2>2, <2>3, <2>4, CoveredAtLabel
<1>4. ASSUME NEW k \in Keys, KY(k) PROVE Covered'
  <2>1. /\ qa' = qa /\ qs' = Push(qs, cur) /\ ReadKY(k) /\ Overflow(ss, qs)
        /\ Defined /\ addConstraintInfo(k) /\ k \in Keys \union {ARRAY}
    BY <1>4, Zenon DEF KY
  <2>2. ~lost /\ Len(qs) # MaxStack /\ cur \in Element
    BY <2>1, EngineFacts DEF Overflow, IInv
  <2>3. /\ Len(path') = Len(path) + 1
        /\ \A j \in 1 .. Len(path) : path'[j] = path[j]
        /\ path'[Len(path) + 1].key = k
    <3>1. "KY" \in Symbol
      BY DEF Symbol
    <3>. QED
      BY <2>1, <3>1, OpenFacts DEF IInv, ReadKY
  <2>. QED
    BY <2>1, <2>2, <2>3, CoveredAtLabel
<1>5. CASE COM \/ UNCHANGED vars
  <2>1. UNCHANGED <<open, path>> /\ UNCHANGED engineVars
    BY <1>5, COMFacts DEF IInv, COM, vars, streamVars
  <2>. QED
    BY <2>1 DEF Covered, CoveredAt, Run, engineVars
<1>. QED
  BY <1>1, <1>2, <1>3, <1>4, <1>5 DEF Next

(* The constraint table has the state of every label on the way to the current
   position, and the dead state wherever a label lay outside a slice: what a
   worker rules out by the table was not read. *)
THEOREM ConstraintsCorrect == Spec => []ConstraintsCoverRun
<1>1. Init => Covered
  BY DEF Init, StreamInit, Covered
<1>2. IInv /\ (DataConstraintFlag /\ ~lost => Covered) /\ [Next]_vars
        => (DataConstraintFlag /\ ~lost => Covered)'
  BY CoveredStep
<1>3. (DataConstraintFlag /\ ~lost => Covered) => ConstraintsCoverRun
  BY DEF Covered, CoveredAt, ConstraintsCoverRun
<1>. QED
  BY <1>1, <1>2, <1>3, Inductive, PTL DEF Spec
-----------------------------------------------------------------------------
(* The marks of a predicate.                                               *)

(* The texts of the marks and of the other tuples. *)
Opening == "{"
Closing == "}"
Plain   == ""
Value   == "value"

LEMMA MarkTexts ==
  /\ Opening # Closing /\ Opening # Plain /\ Opening # Value
  /\ Closing # Plain /\ Closing # Value
BY Zenon DEF Opening, Closing, Plain, Value

LEMMA MarkTuples ==
  ASSUME NEW q \in States(qa)
  PROVE  \A text \in {Opening, Closing, Plain} :
           /\ Mark(q, text) \in TupleType
           /\ Mark(q, text).state = q /\ Mark(q, text).text = text
<1>1. \A text \in {Opening, Closing, Plain} : Mark(q, text) \in TupleType
  BY TupleFacts, Zenon DEF Opening, Closing, Plain
<1>. QED
  BY <1>1 DEF Mark, Tuple

MarksOf(s, text, q) == {i \in DOMAIN s : s[i].text = text /\ s[i].state = q}

LEMMA MarksFinite ==
  ASSUME NEW s \in Seq(TupleType), NEW text, NEW q
  PROVE  /\ IsFiniteSet(MarksOf(s, text, q))
         /\ Cardinality(MarksOf(s, text, q)) \in Nat
<1>1. Len(s) \in Nat /\ DOMAIN s = 1 .. Len(s)
  BY LenProperties
<1>2. IsFiniteSet(1 .. Len(s))
  BY <1>1, FS_Interval
<1>3. MarksOf(s, text, q) \in SUBSET (1 .. Len(s))
  BY <1>1 DEF MarksOf
<1>4. IsFiniteSet(MarksOf(s, text, q))
  BY <1>2, <1>3, FS_Subset
<1>. QED
  BY <1>4, FS_CardinalityType

LEMMA MarkAppended ==
  ASSUME NEW s \in Seq(TupleType), NEW t \in TupleType, NEW text, NEW q
  PROVE  Cardinality(MarksOf(Append(s, t), text, q)) =
           Cardinality(MarksOf(s, text, q)) +
             (IF t.text = text /\ t.state = q THEN 1 ELSE 0)
<1>1. PICK n \in Nat : n = Len(s)
  BY LenProperties
<1>2. DOMAIN s = 1 .. n
  BY <1>1, LenProperties
<1> DEFINE a == Append(s, t)
           old == MarksOf(s, text, q)
<1>3. /\ a \in Seq(TupleType) /\ Len(a) = n + 1
      /\ \A i \in 1 .. n : a[i] = s[i]
      /\ a[n + 1] = t
  BY <1>1, AppendProperties
<1>4. DOMAIN a = 1 .. n + 1
  BY <1>3, LenProperties
<1> HIDE DEF a
<1>5. MarksOf(a, text, q) = IF t.text = text /\ t.state = q THEN old \union {n + 1} ELSE old
  BY <1>2, <1>3, <1>4 DEF MarksOf
<1>6. n + 1 \notin old
  BY <1>2 DEF MarksOf
<1>7. IsFiniteSet(old) /\ Cardinality(old) \in Nat
  BY MarksFinite
<1> HIDE DEF old
<1>8. Cardinality(old \union {n + 1}) = Cardinality(old) + 1
  BY <1>6, <1>7, FS_AddElement
<1>. QED
  BY <1>5, <1>7, <1>8 DEF a, old

(* The tuple of a value is no mark. *)
LEMMA CompletedNoMark ==
  ASSUME NEW s \in Seq(TupleType), NEW e \in Element \union NoElement, pos' \in Nat,
         NEW text, text # Value, NEW q
  PROVE  /\ s \o Completed(e) \in Seq(TupleType)
         /\ Cardinality(MarksOf(s \o Completed(e), text, q)) =
              Cardinality(MarksOf(s, text, q))
<1>1. CASE Completes(e)
  <2> DEFINE t == ValueTuple(e.query_state, e.matched_start, pos')
  <2>1. e \in Element
    BY <1>1 DEF Completes, NoElement
  <2>2. e.query_state \in States(qa) /\ e.matched_start \in Nat
    BY <1>1, <2>1 DEF Completes, Element
  <2>3. t \in TupleType /\ t.text = Value
    BY <2>2, TupleFacts DEF ValueTuple, Tuple, Value
  <2>4. Completed(e) = <<t>>
    BY <1>1 DEF Completed
  <2> HIDE DEF t
  <2>5. s \o Completed(e) = Append(s, t)
    BY <2>3, <2>4, AppendIsConcat
  <2>6. Append(s, t) \in Seq(TupleType)
    BY <2>3, AppendProperties
  <2>7. Cardinality(MarksOf(Append(s, t), text, q)) =
          Cardinality(MarksOf(s, text, q)) +
            (IF t.text = text /\ t.state = q THEN 1 ELSE 0)
    BY <2>3, MarkAppended
  <2>8. ~(t.text = text)
    BY <2>3
  <2>9. Cardinality(MarksOf(s, text, q)) \in Nat
    BY MarksFinite
  <2>10. Cardinality(MarksOf(Append(s, t), text, q)) = Cardinality(MarksOf(s, text, q))
    BY ONLY <2>7, <2>8, <2>9
  <2>. QED
    BY <2>5, <2>6, <2>10
<1>2. CASE ~Completes(e)
  <2>1. s \o Completed(e) = s
    BY <1>2, ConcatEmptySeq DEF Completed
  <2>. QED
    BY <2>1
<1>. QED
  BY <1>1, <1>2

(* The labels of keys are keys. *)
LabelsFit ==
  \A i \in 1 .. Len(open) : open[i].sym = "KY" => path[LabelsTo(i)].key # ARRAY

LEMMA NoKeyToPredicate ==
  ASSUME qa \in Queries, NEW q \in States(qa), NEW c, NEW k, k # ARRAY
  PROVE  qa.accept[Advance(qa, q, c, k)] # PREDICATE
<1>1. PredicatesAreElements(qa) /\ qa.accept[0] = NO_MATCH
  BY QueriesAssumption DEF IsQueryDFA
<1>2. qa.accept[dfaNextStateByStr(qa, q, k)] # PREDICATE
  BY <1>1 DEF PredicatesAreElements, dfaNextStateByStr
<1>. QED
  BY <1>1, <1>2 DEF Advance, PREDICATE, NO_MATCH

(* An object that is open in a predicate's state is an element of an array. *)
LEMMA ObjectIsElement ==
  ASSUME IInv, ~lost, LabelsFit, NEW n \in Nat, n = Len(open), n > 0,
         open[n].sym = "LCB", qa.accept[cur.query_state] = PREDICATE
  PROVE  n > 1 /\ open[n - 1].sym = "LB"
<1>1. PICK l \in Nat : l = Len(path) /\ Len(qs) = l
  BY SyncFacts
<1>2. /\ RunOfPath /\ Run(l) = cur /\ qa \in Queries
  BY <1>1, EngineFacts DEF IInv, Sync, Run
<1>3. /\ n \in 1 .. Len(open)
      /\ l = LabelsTo(n) /\ open[n].depth = l
      /\ open[n].depth = (IF n = 1 THEN 0 ELSE LabelsTo(n - 1))
      /\ n > 1 => open[n - 1].sym # "LCB"
  <2>1. n \in 1 .. Len(open) /\ Len(open) # 0 /\ StreamInv
    BY DEF IInv
  <2>2. open[n].depth \in Nat /\ LabelsTo(n) = Len(path)
    BY <2>1, InnermostFacts
  <2>3. LabelsTo(n) = open[n].depth
    BY <2>2 DEF LabelsTo
  <2>4. /\ open[n].depth = (IF n = 1 THEN 0 ELSE LabelsTo(n - 1))
        /\ n > 1 => open[n - 1].sym # "LCB"
    BY <2>1, InnermostFacts
  <2>. QED
    BY <1>1, <2>1, <2>2, <2>3, <2>4
<1>4. CASE n = 1
  <2>1. cur.query_state = 1
    BY <1>2, <1>3, <1>4 DEF RunOfPath
  <2>2. qa.accept[1] # PREDICATE
    BY <1>2, QueriesAssumption DEF IsQueryDFA, PredicatesAreElements
  <2>. QED
    BY <2>1, <2>2
<1>5. CASE n > 1 /\ open[n - 1].sym = "KY"
  <2>1. PICK m \in Nat : m = n - 1 /\ m \in 1 .. Len(open)
    BY <1>3, <1>5
  <2>2. /\ open[m].depth \in Nat /\ LabelsTo(m) = open[m].depth + 1
        /\ l = LabelsTo(m) /\ path[l].key # ARRAY
    <3>1. open[m].depth \in Nat /\ open[m].sym = "KY"
      BY <1>5, <2>1, InnermostFacts DEF IInv
    <3>2. l = LabelsTo(m) /\ path[LabelsTo(m)].key # ARRAY
      BY <1>3, <1>5, <2>1, <3>1 DEF LabelsFit
    <3>. QED
      BY <3>1, <3>2 DEF LabelsTo
  <2>3. l \in 1 .. Len(path) /\ l - 1 < Len(qs) /\ l \in 1 .. Len(qs)
    BY <1>1, <2>2
  <2>4. cur.query_state = Advance(qa, Run(l-1).query_state, Run(l-1).count, path[l].key)
    BY <1>2, <2>3 DEF RunOfPath
  <2>5. Run(l-1) = qs[l] /\ qs \in Seq(Element)
    BY <2>3, EngineFacts DEF Run, IInv
  <2>6. qs[l] \in Element
    BY <2>3, <2>5, ElementOfSeq
  <2>7. Run(l-1).query_state \in States(qa)
    BY <2>5, <2>6, ElementFields
  <2>8. qa.accept[cur.query_state] # PREDICATE
    BY <1>2, <2>2, <2>4, <2>7, NoKeyToPredicate
  <2>. QED
    BY <2>8
<1>6. CASE n > 1 /\ open[n - 1].sym # "KY"
  <2>1. n - 1 \in 1 .. Len(open)
    BY <1>3, <1>6
  <2>2. open[n - 1].sym \in Symbol
    BY <2>1, InnermostFacts DEF IInv
  <2>. QED
    BY <1>3, <1>6, <2>2 DEF Symbol
<1>. QED
  BY <1>4, <1>5, <1>6
LEMMA ObjectsFinite ==
  ASSUME StreamInv, NEW q
  PROVE  IsFiniteSet(OpenObjects(q)) /\ Cardinality(OpenObjects(q)) \in Nat
<1>1. Len(open) \in Nat /\ DOMAIN open = 1 .. Len(open)
  BY InnermostFacts, LenProperties
<1>2. IsFiniteSet(1 .. Len(open))
  BY <1>1, FS_Interval
<1>3. OpenObjects(q) \in SUBSET (1 .. Len(open))
  BY <1>1 DEF OpenObjects
<1>. QED
  BY <1>2, <1>3, FS_Subset, FS_CardinalityType

(* The end of a value closes the objects inside it and no other. *)
LEMMA ObjectsAtEnd ==
  ASSUME IInv, ~lost, LabelsFit, NEW m \in 0 .. Len(open), ValueIsOver(m),
         StreamInv', NEW q
  PROVE  LabelsFit' /\ OpenObjects(q)' = {i \in OpenObjects(q) : i <= m}
<1>1. PICK n \in 0 .. Len(open), l \in 0 .. Len(path) :
        /\ Len(open') = n /\ \A i \in 1 .. n : open'[i] = open[i]
        /\ Len(path') = l /\ \A j \in 1 .. l : path'[j].key = path[j].key
        /\ l = (IF n = 0 THEN 0 ELSE LabelsTo(n))
        /\ \A j \in 0 .. l : j < l => Run(j)' = Run(j)
        /\ n > 0 /\ open[n].sym = "LCB" => Run(l)' = Run(l)
        /\ n = 0 \/ n = m \/ n = m - 1
        /\ \A i \in n + 1 .. m : open[i].sym # "LCB"
  BY RunKept
<1>2. /\ n \in Nat /\ m \in Nat /\ n <= m /\ m <= Len(open) /\ Len(open) \in Nat
      /\ l \in Nat
  BY <1>1, SyncFacts
<1>3. DOMAIN open = 1 .. Len(open) /\ DOMAIN open' = 1 .. n
  BY <1>1, InnermostFacts, LenProperties DEF IInv, StreamInv, StreamTypeOK
<1>4. ASSUME NEW i \in 1 .. n
      PROVE  /\ open[i].depth \in 0 .. l
             /\ open[i].depth < l \/ (n > 0 /\ open[n].sym = "LCB")
             /\ open[i].sym = "KY" => LabelsTo(i) \in 1 .. l
  <2>1. /\ n \in 1 .. Len(open) /\ n > 0 /\ i \in 1 .. Len(open) /\ l = LabelsTo(n)
    BY <1>1, <1>2
  <2>2. open[i].depth \in Nat /\ LabelsTo(i) \in Nat
    BY <2>1, InnermostFacts DEF IInv
  <2>3. /\ open[i].depth <= l /\ LabelsTo(i) <= l
        /\ open[i].depth = l => i = n /\ open[i].sym = "LCB"
    BY <2>1, LabelsGrow DEF IInv
  <2>4. open[i].sym = "KY" => LabelsTo(i) > 0
    BY <2>2 DEF LabelsTo
  <2>. QED
    BY <1>2, <2>1, <2>2, <2>3, <2>4
<1>5. LabelsFit'
  <2>1. ASSUME NEW i \in 1 .. n, open'[i].sym = "KY"
        PROVE  path'[LabelsTo(i)'].key # ARRAY
    <3>1. open[i].sym = "KY" /\ LabelsTo(i)' = LabelsTo(i) /\ i \in 1 .. Len(open)
      BY <1>1, <1>2, <2>1 DEF LabelsTo
    <3>2. path'[LabelsTo(i)].key = path[LabelsTo(i)].key
      BY <1>1, <1>4, <3>1
    <3>. QED
      BY <3>1, <3>2 DEF LabelsFit
  <2>. QED
    BY <1>1, <2>1 DEF LabelsFit
<1>6. ASSUME NEW i \in 1 .. n
      PROVE  i \in OpenObjects(q)' <=> i \in OpenObjects(q)
  <2>1. PICK d \in 0 .. l : d = open[i].depth
    BY <1>4
  <2>2. Run(d)' = Run(d) /\ open'[i] = open[i] /\ i \in 1 .. Len(open)
    <3>1. d < l \/ (d = l /\ n > 0 /\ open[n].sym = "LCB")
      BY <1>2, <1>4, <2>1
    <3>2. CASE d < l
      BY <1>1, <1>2, <3>2
    <3>3. CASE d = l /\ n > 0 /\ open[n].sym = "LCB"
      BY <1>1, <1>2, <3>3
    <3>. QED
      BY <3>1, <3>2, <3>3
  <2>. QED
    BY <1>3, <2>1, <2>2 DEF OpenObjects
<1>7. OpenObjects(q)' \subseteq 1 .. n /\ OpenObjects(q) \subseteq 1 .. Len(open)
  BY <1>3 DEF OpenObjects
<1>8. \A i \in n + 1 .. m : i \notin OpenObjects(q)
  BY <1>1 DEF OpenObjects
<1>9. OpenObjects(q)' = {i \in OpenObjects(q) : i <= m}
  <2>1. ASSUME NEW i \in OpenObjects(q)' PROVE i \in OpenObjects(q) /\ i <= m
    BY <1>2, <1>6, <1>7, <2>1
  <2>2. ASSUME NEW i \in OpenObjects(q), i <= m PROVE i \in OpenObjects(q)'
    <3>1. i \in 1 .. n
      BY <1>2, <1>7, <1>8, <2>2
    <3>. QED
      BY <1>6, <2>2, <3>1
  <2>. QED
    BY <2>1, <2>2
<1>. QED
  BY <1>5, <1>9

(* The entry e is opened at the end of a path of l labels, the states of the run
   down to it stay. *)
Opened(e, n, l) ==
  /\ n = Len(open) /\ l = Len(path) /\ e.depth = l
  /\ Len(open') = n + 1
  /\ \A i \in 1 .. n : open'[i] = open[i]
  /\ open'[n + 1] = e
  /\ \A j \in 1 .. l : path'[j] = path[j]
  /\ e.sym = "KY" => path'[l + 1].key # ARRAY
  /\ \A j \in 0 .. l : Run(j)'.query_state = Run(j).query_state

(* It adds itself, when it is an object in state q. *)
LEMMA ObjectsAtBegin ==
  ASSUME IInv, ~lost, StreamInv', LabelsFit, NEW q,
         NEW n \in Nat, NEW l \in Nat, NEW e \in Entry, Opened(e, n, l)
  PROVE  /\ LabelsFit'
         /\ OpenObjects(q)' = OpenObjects(q) \union
              (IF e.sym = "LCB" /\ Run(l).query_state = q THEN {n + 1} ELSE {})
         /\ n + 1 \notin OpenObjects(q)
<1>0. /\ n = Len(open) /\ l = Len(path) /\ e.depth = l
      /\ Len(open') = n + 1
      /\ \A i \in 1 .. n : open'[i] = open[i]
      /\ open'[n + 1] = e
      /\ \A j \in 1 .. l : path'[j] = path[j]
      /\ e.sym = "KY" => path'[l + 1].key # ARRAY
      /\ \A j \in 0 .. l : Run(j)'.query_state = Run(j).query_state
  BY DEF Opened
<1>1. DOMAIN open = 1 .. n /\ DOMAIN open' = 1 .. n + 1
  BY <1>0, InnermostFacts, LenProperties DEF IInv, StreamInv, StreamTypeOK
<1>2. ASSUME NEW i \in 1 .. n
      PROVE  /\ open[i].depth \in 0 .. l
             /\ open[i].sym = "KY" => LabelsTo(i) \in 1 .. l
  <2>1. /\ n \in 1 .. Len(open) /\ i \in 1 .. Len(open) /\ l = LabelsTo(n)
        /\ open[i].depth \in Nat /\ LabelsTo(i) \in Nat
    BY <1>0, <1>2, InnermostFacts DEF IInv
  <2>2. open[i].depth <= l /\ LabelsTo(i) <= l
    BY <2>1, LabelsGrow DEF IInv
  <2>3. open[i].sym = "KY" => LabelsTo(i) > 0
    BY <2>1 DEF LabelsTo
  <2>. QED
    BY <2>1, <2>2, <2>3
<1>3. LabelsFit'
  <2>1. ASSUME NEW i \in 1 .. n + 1, open'[i].sym = "KY"
        PROVE  path'[LabelsTo(i)'].key # ARRAY
    <3>1. CASE i \in 1 .. n
      <4>1. open[i].sym = "KY" /\ LabelsTo(i)' = LabelsTo(i) /\ i \in 1 .. Len(open)
        BY <1>0, <2>1, <3>1 DEF LabelsTo
      <4>2. path'[LabelsTo(i)] = path[LabelsTo(i)]
        BY <1>0, <1>2, <3>1, <4>1
      <4>. QED
        BY <4>1, <4>2 DEF LabelsFit
    <3>2. CASE i = n + 1
      <4>1. LabelsTo(i)' = l + 1
        BY <1>0, <2>1, <3>2 DEF LabelsTo
      <4>. QED
        BY <1>0, <2>1, <3>2, <4>1
    <3>. QED
      BY <3>1, <3>2
  <2>. QED
    BY <1>0, <2>1 DEF LabelsFit
<1>4. ASSUME NEW i \in 1 .. n
      PROVE  i \in OpenObjects(q)' <=> i \in OpenObjects(q)
  <2>1. PICK d \in 0 .. l : d = open[i].depth
    BY <1>2
  <2>. QED
    BY <1>0, <1>1, <2>1 DEF OpenObjects
<1>5. n + 1 \in OpenObjects(q)' <=> e.sym = "LCB" /\ Run(l).query_state = q
  <2>1. l \in 0 .. l /\ n + 1 \in 1 .. n + 1
    OBVIOUS
  <2>. QED
    BY <1>0, <1>1, <2>1 DEF OpenObjects
<1>6. OpenObjects(q)' \subseteq 1 .. n + 1 /\ OpenObjects(q) \subseteq 1 .. n
  BY <1>1 DEF OpenObjects
<1> DEFINE new == OpenObjects(q)'
           old == OpenObjects(q)
<1> HIDE DEF new, old
<1>7. new = old \union (IF e.sym = "LCB" /\ Run(l).query_state = q THEN {n + 1} ELSE {})
      /\ n + 1 \notin old
  <2>1. /\ \A i \in 1 .. n : i \in new <=> i \in old
        /\ n + 1 \in new <=> e.sym = "LCB" /\ Run(l).query_state = q
        /\ new \subseteq 1 .. n + 1 /\ old \subseteq 1 .. n
    BY <1>4, <1>5, <1>6 DEF new, old
  <2>2. n + 1 \notin 1 .. n /\ 1 .. n + 1 = (1 .. n) \union {n + 1}
    OBVIOUS
  <2>. QED
    BY <2>1, <2>2
<1>. QED
  BY <1>3, <1>7 DEF new, old
Balance(q) ==
  Cardinality(MarksOf(tl, Opening, q)) =
    Cardinality(MarksOf(tl, Closing, q)) + Cardinality(OpenObjects(q))

Balanced == LabelsFit /\ \A q \in States(qa) : qa.accept[q] = PREDICATE => Balance(q)

(* Nothing is opened or closed in a predicate's state, and nothing is marked. *)
LEMMA BalanceStays ==
  ASSUME Balanced, qa' = qa, LabelsFit',
         \A q : OpenObjects(q)' = OpenObjects(q),
         \A q : /\ Cardinality(MarksOf(tl', Opening, q)) = Cardinality(MarksOf(tl, Opening, q))
               /\ Cardinality(MarksOf(tl', Closing, q)) = Cardinality(MarksOf(tl, Closing, q))
  PROVE  Balanced'
<1>1. States(qa)' = States(qa)
  BY SameTypes
<1>2. ASSUME NEW q \in States(qa), qa.accept[q] = PREDICATE PROVE Balance(q)'
  BY <1>2 DEF Balanced, Balance
<1>. QED
  BY <1>1, <1>2 DEF Balanced

LEMMA ObjectEntered ==
  ASSUME IInv, ~lost', Balanced, LCB, StreamInv'
  PROVE  Balanced'
<1> DEFINE type == Matched(cur)
           text == IF type = PREDICATE THEN Opening ELSE Plain
           t == Mark(cur.query_state, text)
<1>1. /\ qa' = qa /\ qs' = qs /\ ReadLCB /\ Overflow(ss, <<>>) /\ Defined
      /\ cur' = (IF type = OUTPUT_CANDIDATE
                   THEN [cur EXCEPT !.matched_start = pos'] ELSE cur)
      /\ tl' = IF type \in {PREDICATE, CONDITION} THEN Append(tl, t) ELSE tl
  BY Zenon DEF LCB, Opening, Plain
<1> HIDE DEF t
<1>2. ~lost
  BY <1>1 DEF Overflow
<1>3. PICK n \in Nat : n = Len(open)
  BY <1>2, SyncFacts
<1>4. PICK l \in Nat : l = Len(path) /\ l = Len(qs)
  BY <1>2, SyncFacts
<1>5. PICK e \in Entry : e = [sym |-> "LCB", from |-> pos + 1, depth |-> l]
  <2>1. pos + 1 \in Nat /\ "LCB" \in Symbol
    BY EngineFacts DEF IInv, Symbol
  <2>2. [sym |-> "LCB", from |-> pos + 1, depth |-> l] \in Entry
    BY <2>1 DEF Entry
  <2>. QED
    BY <2>2
<1>6. /\ Len(open') = n + 1
      /\ \A i \in 1 .. n : open'[i] = open[i]
      /\ open'[n + 1] = e
      /\ path' = path
  <2>1. "LCB" \in Symbol /\ ARRAY \in Keys \union {ARRAY}
    BY DEF Symbol
  <2>. QED
    BY <1>1, <1>3, <1>4, <1>5, <2>1, OpenFacts DEF IInv, ReadLCB
<1>7. /\ cur \in Element /\ cur.query_state \in States(qa)
      /\ cur'.query_state = cur.query_state
  <2>1. cur \in Element /\ pos' \in Nat
    BY <1>1, EngineFacts DEF IInv, ReadLCB
  <2>. QED
    BY <1>1, <2>1, ElementUpdate, ElementFields
<1>8. /\ \A j \in 0 .. l : Run(j)'.query_state = Run(j).query_state
      /\ Run(l) = cur
  BY <1>1, <1>4, <1>7 DEF Run
<1>9. ASSUME NEW q
      PROVE  /\ LabelsFit'
             /\ OpenObjects(q)' = OpenObjects(q) \union
                  (IF cur.query_state = q THEN {n + 1} ELSE {})
             /\ n + 1 \notin OpenObjects(q)
  <2>1. Opened(e, n, l) /\ e.sym = "LCB" /\ LabelsFit
    BY <1>3, <1>4, <1>5, <1>6, <1>8 DEF Opened, Balanced
  <2>2. /\ LabelsFit'
        /\ OpenObjects(q)' = OpenObjects(q) \union
             (IF e.sym = "LCB" /\ Run(l).query_state = q THEN {n + 1} ELSE {})
        /\ n + 1 \notin OpenObjects(q)
    BY <1>2, <2>1, ObjectsAtBegin
  <2>. QED
    BY <1>8, <2>1, <2>2
<1>10. ASSUME NEW q \in States(qa), qa.accept[q] = PREDICATE PROVE Balance(q)'
  <2>1. tl \in Seq(TupleType) /\ Balance(q)
    BY <1>10, EngineFacts DEF IInv, Balanced
  <2>2. PICK a \in Nat : a = Cardinality(MarksOf(tl, Opening, q))
    BY <2>1, MarksFinite
  <2>3. PICK b \in Nat : b = Cardinality(MarksOf(tl, Closing, q))
    BY <2>1, MarksFinite
  <2>4. PICK c \in Nat : c = Cardinality(OpenObjects(q)) /\ IsFiniteSet(OpenObjects(q))
    BY ObjectsFinite DEF IInv
  <2>5. a = b + c
    BY <2>1, <2>2, <2>3, <2>4 DEF Balance
  <2>6. t \in TupleType /\ t.state = cur.query_state /\ t.text = text
    BY <1>7, MarkTuples DEF t
  <2>7. CASE cur.query_state = q
    <3>1. type = PREDICATE
      BY <1>10, <2>7 DEF Matched, MatchedType, PREDICATE, OUTPUT_CANDIDATE
    <3>2. tl' = Append(tl, t) /\ t.text = Opening /\ t.state = q
      BY <1>1, <2>6, <2>7, <3>1
    <3>3. /\ Cardinality(MarksOf(Append(tl, t), Opening, q)) = a + 1
          /\ Cardinality(MarksOf(Append(tl, t), Closing, q)) = b + 0
      BY <2>1, <2>2, <2>3, <2>6, <3>2, MarkAppended, MarkTexts
    <3>4. Cardinality(OpenObjects(q) \union {n + 1}) = c + 1
      BY <1>9, <2>4, FS_AddElement
    <3>5. OpenObjects(q)' = OpenObjects(q) \union {n + 1}
      BY <1>9, <2>7
    <3>6. /\ Cardinality(MarksOf(tl', Opening, q)) = a + 1
          /\ Cardinality(MarksOf(tl', Closing, q)) = b
          /\ Cardinality(OpenObjects(q)') = c + 1
      BY <3>2, <3>3, <3>4, <3>5
    <3>. QED
      BY <2>5, <3>6 DEF Balance
  <2>8. CASE cur.query_state # q
    <3>1. /\ Cardinality(MarksOf(Append(tl, t), Opening, q)) = a + 0
          /\ Cardinality(MarksOf(Append(tl, t), Closing, q)) = b + 0
      BY <2>1, <2>2, <2>3, <2>6, <2>8, MarkAppended
    <3>2. OpenObjects(q)' = OpenObjects(q)
      BY <1>9, <2>8
    <3>3. /\ Cardinality(MarksOf(tl', Opening, q)) = a
          /\ Cardinality(MarksOf(tl', Closing, q)) = b
          /\ Cardinality(OpenObjects(q)') = c
      BY <1>1, <2>2, <2>3, <2>4, <3>1, <3>2
    <3>. QED
      BY <2>5, <3>3 DEF Balance
  <2>. QED
    BY <2>7, <2>8
<1>11. LabelsFit'
  BY <1>9
<1>. QED
  BY <1>1, <1>10, <1>11, SameTypes DEF Balanced

(* The mark of an object's end: of an element of an array, in a predicate's
   state, and nothing otherwise. *)
LEMMA EndMark ==
  ASSUME NEW e \in Element, NEW q, q = e.query_state
  PROVE  ElementMark(e) = IF syntaxStackSecondTop = "LB" /\ qa.accept[q] = PREDICATE
                            THEN <<Mark(q, Closing)>> ELSE <<>>
<1>1. increaseArrayCounter(e).query_state = e.query_state
  BY ElementUpdate DEF INVALID
<1>2. Matched(increaseArrayCounter(e)) = PREDICATE <=> qa.accept[q] = PREDICATE
  BY <1>1 DEF Matched, MatchedType, PREDICATE, OUTPUT_CANDIDATE, NO_MATCH
<1>. QED
  BY <1>2, Zenon DEF ElementMark, Closing

LEMMA ObjectLeft ==
  ASSUME IInv, ~lost, Balanced, RCB, StreamInv'
  PROVE  Balanced'
<1> DEFINE e == IF Completes(cur) THEN [cur EXCEPT !.matched_start = INVALID] ELSE cur
           marks == ElementMark(e)
           s == tl \o Completed(cur)
           t == Mark(cur.query_state, Closing)
<1>1. /\ qa' = qa /\ ReadRCB /\ Defined
      /\ tl' = s \o marks
  BY Zenon DEF RCB
<1>2. PICK n \in Nat : n = Len(open) /\ n > 0 /\ open[n].sym = "LCB"
  BY <1>1, RCBFacts, SyncFacts DEF IInv
<1>3. PICK l \in Nat : l = Len(path) /\ l = Len(qs)
  BY SyncFacts
<1>4. open[n].depth = l /\ Run(l) = cur
  <2>1. n \in 1 .. Len(open) /\ open[n].depth \in Nat /\ Len(path) = LabelsTo(n)
    BY <1>2, InnermostFacts DEF IInv
  <2>2. Len(path) = open[n].depth
    BY ONLY <1>2, <2>1 DEF LabelsTo
  <2>3. Run(l) = cur
    BY ONLY <1>3 DEF Run
  <2>. QED
    BY <1>3, <2>2, <2>3
<1>5. /\ cur \in Element /\ cur.query_state \in States(qa)
      /\ e \in Element /\ e.query_state = cur.query_state
  <2>1. cur \in Element
    BY <1>1, EngineFacts DEF IInv
  <2>. QED
    BY <2>1, ElementFields, ElementUpdate
<1>6. pos' \in Nat /\ tl \in Seq(TupleType)
  BY <1>1, EngineFacts DEF IInv, ReadRCB
<1>7. /\ s \in Seq(TupleType)
      /\ \A q : /\ Cardinality(MarksOf(s, Opening, q)) = Cardinality(MarksOf(tl, Opening, q))
                /\ Cardinality(MarksOf(s, Closing, q)) = Cardinality(MarksOf(tl, Closing, q))
  BY <1>5, <1>6, CompletedNoMark, MarkTexts
<1>8. t \in TupleType /\ t.state = cur.query_state /\ t.text = Closing
  BY <1>5, MarkTuples
<1>9. /\ marks = <<t>> \/ marks = <<>>
      /\ qa.accept[cur.query_state] = PREDICATE => marks = <<t>>
  <2>1. marks = IF syntaxStackSecondTop = "LB" /\ qa.accept[cur.query_state] = PREDICATE
                  THEN <<t>> ELSE <<>>
    BY <1>5, EndMark
  <2>2. qa.accept[cur.query_state] = PREDICATE => syntaxStackSecondTop = "LB"
    BY <1>2, ObjectIsElement, SyncFacts DEF Balanced
  <2>. QED
    BY <2>1, <2>2
<1> HIDE DEF e, marks, s, t
<1>10. /\ tl' = Append(s, t) \/ tl' = s
       /\ qa.accept[cur.query_state] = PREDICATE => tl' = Append(s, t)
  <2>1. s \o <<t>> = Append(s, t) /\ s \o <<>> = s
    BY <1>7, <1>8, AppendIsConcat, ConcatEmptySeq
  <2>. QED
    BY <1>1, <1>9, <2>1
<1>11. ASSUME NEW q
       PROVE  /\ LabelsFit'
              /\ OpenObjects(q)' = OpenObjects(q) \ {n}
              /\ n \in OpenObjects(q) <=> cur.query_state = q
  <2>1. PICK m \in 0 .. Len(open) : m = n - 1 /\ ValueIsOver(m)
    BY <1>2, EndsRCB
  <2>2. LabelsFit' /\ OpenObjects(q)' = {i \in OpenObjects(q) : i <= m}
    BY <2>1, ObjectsAtEnd DEF Balanced
  <2>3. DOMAIN open = 1 .. n
    BY <1>2, InnermostFacts, LenProperties DEF IInv
  <2>4. OpenObjects(q) \subseteq 1 .. n /\ (n \in OpenObjects(q) <=> cur.query_state = q)
    BY <1>2, <1>4, <2>3 DEF OpenObjects
  <2>5. {i \in OpenObjects(q) : i <= m} = OpenObjects(q) \ {n}
    BY <2>1, <2>4
  <2>. QED
    BY <2>2, <2>4, <2>5
<1>12. ASSUME NEW q \in States(qa), qa.accept[q] = PREDICATE PROVE Balance(q)'
  <2>1. PICK a \in Nat : a = Cardinality(MarksOf(tl, Opening, q))
    BY <1>6, MarksFinite
  <2>2. PICK b \in Nat : b = Cardinality(MarksOf(tl, Closing, q))
    BY <1>6, MarksFinite
  <2>3. PICK c \in Nat : c = Cardinality(OpenObjects(q)) /\ IsFiniteSet(OpenObjects(q))
    BY ObjectsFinite DEF IInv
  <2>4. a = b + c
    BY <1>12, <2>1, <2>2, <2>3 DEF Balanced, Balance
  <2>5. /\ Cardinality(MarksOf(s, Opening, q)) = a
        /\ Cardinality(MarksOf(s, Closing, q)) = b
    BY <1>7, <2>1, <2>2
  <2>6. CASE cur.query_state = q
    <3>1. tl' = Append(s, t) /\ t.text = Closing /\ t.state = q
      BY <1>8, <1>10, <1>12, <2>6
    <3>2. /\ Cardinality(MarksOf(Append(s, t), Opening, q)) = a + 0
          /\ Cardinality(MarksOf(Append(s, t), Closing, q)) = b + 1
      BY <1>7, <1>8, <2>5, <3>1, MarkAppended, MarkTexts
    <3>3. OpenObjects(q)' = OpenObjects(q) \ {n} /\ n \in OpenObjects(q)
      BY <1>11, <2>6
    <3>4. Cardinality(OpenObjects(q) \ {n}) = c - 1
      BY <2>3, <3>3, FS_RemoveElement
    <3>5. /\ Cardinality(MarksOf(tl', Opening, q)) = a
          /\ Cardinality(MarksOf(tl', Closing, q)) = b + 1
          /\ Cardinality(OpenObjects(q)') = c - 1
      BY <3>1, <3>2, <3>3, <3>4
    <3>. QED
      BY <2>4, <3>5 DEF Balance
  <2>7. CASE cur.query_state # q
    <3>1. /\ Cardinality(MarksOf(Append(s, t), Opening, q)) = a + 0
          /\ Cardinality(MarksOf(Append(s, t), Closing, q)) = b + 0
      BY <1>7, <1>8, <2>5, <2>7, MarkAppended
    <3>2. OpenObjects(q)' = OpenObjects(q)
      BY <1>11, <2>7
    <3>3. /\ Cardinality(MarksOf(tl', Opening, q)) = a
          /\ Cardinality(MarksOf(tl', Closing, q)) = b
          /\ Cardinality(OpenObjects(q)') = c
      <4>1. a + 0 = a /\ b + 0 = b
        OBVIOUS
      <4>. QED
        BY <1>10, <2>3, <2>5, <3>1, <3>2, <4>1
    <3>. QED
      BY <2>4, <3>3 DEF Balance
  <2>. QED
    BY <2>6, <2>7
<1>. QED
  BY <1>1, <1>11, <1>12, SameTypes DEF Balanced

(* Every object that is open stays open when a value ends that is none. *)
LEMMA ObjectsStay ==
  ASSUME IInv, ~lost, LabelsFit, NEW m \in 0 .. Len(open), ValueIsOver(m),
         \A i \in m + 1 .. Len(open) : open[i].sym # "LCB",
         StreamInv', NEW q
  PROVE  LabelsFit' /\ OpenObjects(q)' = OpenObjects(q)
<1>1. LabelsFit' /\ OpenObjects(q)' = {i \in OpenObjects(q) : i <= m}
  BY ObjectsAtEnd
<1>2. DOMAIN open = 1 .. Len(open) /\ Len(open) \in Nat /\ m \in Nat
  BY InnermostFacts, LenProperties DEF IInv
<1>3. \A i \in OpenObjects(q) : i \in 1 .. Len(open) /\ open[i].sym = "LCB"
  BY <1>2 DEF OpenObjects
<1>4. {i \in OpenObjects(q) : i <= m} = OpenObjects(q)
  BY <1>2, <1>3
<1>. QED
  BY <1>1, <1>4

LEMMA ArrayLeft ==
  ASSUME IInv, ~lost, Balanced, RB, StreamInv'
  PROVE  Balanced'
<1> DEFINE top == queryStackTop(qs)
           s == tl \o Completed(top)
<1>1. /\ qa' = qa /\ ReadRB /\ (tl' = s \/ tl' = tl)
  BY Zenon DEF RB
<1>2. /\ pos' \in Nat /\ tl \in Seq(TupleType) /\ top \in Element \union NoElement
  BY <1>1, EngineFacts, StackTypes DEF IInv, ReadRB
<1>3. \A q : /\ Cardinality(MarksOf(s, Opening, q)) = Cardinality(MarksOf(tl, Opening, q))
             /\ Cardinality(MarksOf(s, Closing, q)) = Cardinality(MarksOf(tl, Closing, q))
  BY <1>2, CompletedNoMark, MarkTexts
<1> HIDE DEF s, top
<1>4. ASSUME NEW q PROVE LabelsFit' /\ OpenObjects(q)' = OpenObjects(q)
  <2>1. PICK n \in Nat : n = Len(open) /\ n > 0 /\ open[n].sym = "LB"
    BY <1>1, RBFacts, SyncFacts DEF IInv
  <2>2. PICK m \in 0 .. Len(open) : m = n - 1 /\ ValueIsOver(m)
    BY <2>1, EndsRB
  <2>3. \A i \in m + 1 .. Len(open) : open[i].sym # "LCB"
    BY <2>1, <2>2
  <2>. QED
    BY <2>2, <2>3, ObjectsStay DEF Balanced
<1>. QED
  BY <1>1, <1>3, <1>4, BalanceStays

LEMMA PrimitiveRead ==
  ASSUME IInv, ~lost, Balanced, PRI, StreamInv'
  PROVE  Balanced'
<1> DEFINE t == ValueTuple(cur.query_state, pos', pos')
<1>1. /\ qa' = qa /\ ReadPRI /\ Defined /\ (tl' = Append(tl, t) \/ tl' = tl)
  BY Zenon DEF PRI
<1>2. pos' \in Nat /\ tl \in Seq(TupleType) /\ cur.query_state \in States(qa)
  BY <1>1, EngineFacts, ElementFields DEF IInv, ReadPRI
<1>3. t \in TupleType /\ t.text = Value
  BY <1>2, TupleFacts DEF ValueTuple, Tuple, Value
<1> HIDE DEF t
<1>4. ASSUME NEW text, text # Value, NEW q
      PROVE  Cardinality(MarksOf(Append(tl, t), text, q)) = Cardinality(MarksOf(tl, text, q))
  <2>1. Cardinality(MarksOf(Append(tl, t), text, q)) =
          Cardinality(MarksOf(tl, text, q)) +
            (IF t.text = text /\ t.state = q THEN 1 ELSE 0)
    BY <1>2, <1>3, MarkAppended
  <2>2. Cardinality(MarksOf(tl, text, q)) \in Nat
    BY <1>2, MarksFinite
  <2>3. ~(t.text = text)
    BY <1>3, <1>4
  <2>. QED
    BY ONLY <2>1, <2>2, <2>3
<1>5. \A q : /\ Cardinality(MarksOf(tl', Opening, q)) = Cardinality(MarksOf(tl, Opening, q))
             /\ Cardinality(MarksOf(tl', Closing, q)) = Cardinality(MarksOf(tl, Closing, q))
  BY <1>1, <1>4, MarkTexts
<1>6. ASSUME NEW q PROVE LabelsFit' /\ OpenObjects(q)' = OpenObjects(q)
  <2>1. PICK m \in 0 .. Len(open) : m = Len(open) /\ ValueIsOver(m)
    BY EndsPRI, SyncFacts
  <2>2. \A i \in m + 1 .. Len(open) : open[i].sym # "LCB"
    BY <2>1
  <2>. QED
    BY <2>1, <2>2, ObjectsStay DEF Balanced
<1>. QED
  BY <1>1, <1>5, <1>6, BalanceStays

(* A key or an array that is opened is no object. *)
LEMMA LabelEntered ==
  ASSUME IInv, ~lost, Balanced, StreamInv', qa' = qa,
         NEW s \in Symbol, s # "LCB", NEW k \in Keys \union {ARRAY},
         s = "KY" => k # ARRAY,
         Len(open') = Len(open) + 1,
         \A i \in 1 .. Len(open) : open'[i] = open[i],
         open'[Len(open) + 1] = [sym |-> s, from |-> pos + 1, depth |-> Len(path)],
         \A j \in 1 .. Len(path) : path'[j] = path[j],
         path'[Len(path) + 1].key = k,
         NEW x \in Element, x.query_state = cur.query_state,
         qs' = Push(qs, x), Len(qs) # MaxStack,
         \A q : /\ Cardinality(MarksOf(tl', Opening, q)) = Cardinality(MarksOf(tl, Opening, q))
                /\ Cardinality(MarksOf(tl', Closing, q)) = Cardinality(MarksOf(tl, Closing, q))
  PROVE  Balanced'
<1>1. PICK n \in Nat : n = Len(open)
  BY SyncFacts
<1>2. PICK l \in Nat : l = Len(path)
  BY SyncFacts
<1>3. /\ \A j \in 0 .. l : j < l => Run(j)' = Run(j)
      /\ Run(l)' = x /\ Run(l) = cur
  BY <1>2, RunPushed
<1>4. \A j \in 0 .. l : Run(j)'.query_state = Run(j).query_state
  <2>1. ASSUME NEW j \in 0 .. l PROVE Run(j)'.query_state = Run(j).query_state
    <3>1. j < l \/ j = l
      OBVIOUS
    <3>2. CASE j < l
      BY <1>3, <3>2
    <3>3. CASE j = l
      BY <1>3, <3>3
    <3>. QED
      BY <3>1, <3>2, <3>3
  <2>. QED
    BY <2>1
<1>5. PICK e \in Entry : e = [sym |-> s, from |-> pos + 1, depth |-> l]
  <2>1. pos + 1 \in Nat
    BY EngineFacts DEF IInv
  <2>2. [sym |-> s, from |-> pos + 1, depth |-> l] \in Entry
    BY <2>1 DEF Entry
  <2>. QED
    BY <2>2
<1>6. Opened(e, n, l) /\ e.sym # "LCB"
  BY <1>1, <1>2, <1>4, <1>5 DEF Opened
<1>7. ASSUME NEW q PROVE LabelsFit' /\ OpenObjects(q)' = OpenObjects(q)
  <2>1. /\ LabelsFit'
        /\ OpenObjects(q)' = OpenObjects(q) \union
             (IF e.sym = "LCB" /\ Run(l).query_state = q THEN {n + 1} ELSE {})
    BY <1>6, ObjectsAtBegin DEF Balanced
  <2>. QED
    BY <1>6, <2>1
<1>. QED
  BY <1>7, BalanceStays

LEMMA ArrayEntered ==
  ASSUME IInv, ~lost', Balanced, LB, StreamInv'
  PROVE  Balanced'
<1> DEFINE e == IF Matched(cur) = OUTPUT_CANDIDATE
                  THEN [cur EXCEPT !.matched_start = pos'] ELSE cur
           t == Mark(cur.query_state, Plain)
<1>1. /\ qa' = qa /\ qs' = Push(qs, e) /\ ReadLB /\ Overflow(ss, qs) /\ Defined
      /\ tl' = Append(tl, t) \/ tl' = tl
  BY Zenon DEF LB, Plain
<1>2. ~lost /\ Len(qs) # MaxStack
  BY <1>1 DEF Overflow
<1>3. /\ "LB" \in Symbol /\ "LB" # "LCB" /\ ARRAY \in Keys \union {ARRAY}
      /\ Len(open') = Len(open) + 1
      /\ \A i \in 1 .. Len(open) : open'[i] = open[i]
      /\ open'[Len(open) + 1] = [sym |-> "LB", from |-> pos + 1, depth |-> Len(path)]
      /\ \A j \in 1 .. Len(path) : path'[j] = path[j]
      /\ path'[Len(path) + 1].key = ARRAY
  <2>1. "LB" \in Symbol /\ ARRAY \in Keys \union {ARRAY}
    BY DEF Symbol
  <2>. QED
    BY <1>1, <2>1, OpenFacts DEF IInv, ReadLB
<1>4. e \in Element /\ e.query_state = cur.query_state /\ cur.query_state \in States(qa)
  <2>1. cur \in Element /\ pos' \in Nat
    BY <1>1, EngineFacts DEF IInv, ReadLB
  <2>. QED
    BY <2>1, ElementUpdate, ElementFields
<1>5. t \in TupleType /\ t.text = Plain /\ tl \in Seq(TupleType)
  BY <1>4, MarkTuples, EngineFacts DEF IInv
<1> HIDE DEF t, e
<1>6. ASSUME NEW text, text # Plain, NEW q
      PROVE  Cardinality(MarksOf(Append(tl, t), text, q)) = Cardinality(MarksOf(tl, text, q))
  <2>1. Cardinality(MarksOf(Append(tl, t), text, q)) =
          Cardinality(MarksOf(tl, text, q)) +
            (IF t.text = text /\ t.state = q THEN 1 ELSE 0)
    BY <1>5, MarkAppended
  <2>2. Cardinality(MarksOf(tl, text, q)) \in Nat
    BY <1>5, MarksFinite
  <2>3. ~(t.text = text)
    BY <1>5, <1>6
  <2>. QED
    BY ONLY <2>1, <2>2, <2>3
<1>7. \A q : /\ Cardinality(MarksOf(tl', Opening, q)) = Cardinality(MarksOf(tl, Opening, q))
             /\ Cardinality(MarksOf(tl', Closing, q)) = Cardinality(MarksOf(tl, Closing, q))
  BY <1>1, <1>6, MarkTexts
<1>. QED
  BY <1>1, <1>2, <1>3, <1>4, <1>7, LabelEntered

LEMMA KeyEntered ==
  ASSUME IInv, ~lost', Balanced, NEW k \in Keys, KY(k), StreamInv'
  PROVE  Balanced'
<1>1. /\ qa' = qa /\ qs' = Push(qs, cur) /\ ReadKY(k) /\ Overflow(ss, qs) /\ Defined
      /\ tl' = tl
  BY Zenon DEF KY
<1>2. ~lost /\ Len(qs) # MaxStack /\ cur \in Element
  BY <1>1, EngineFacts DEF Overflow, IInv
<1>3. /\ "KY" \in Symbol /\ "KY" # "LCB" /\ k \in Keys \union {ARRAY} /\ k # ARRAY
      /\ Len(open') = Len(open) + 1
      /\ \A i \in 1 .. Len(open) : open'[i] = open[i]
      /\ open'[Len(open) + 1] = [sym |-> "KY", from |-> pos + 1, depth |-> Len(path)]
      /\ \A j \in 1 .. Len(path) : path'[j] = path[j]
      /\ path'[Len(path) + 1].key = k
  <2>1. "KY" \in Symbol /\ k \in Keys \union {ARRAY} /\ k # ARRAY
    BY KeysAssumption DEF Symbol
  <2>. QED
    BY <1>1, <2>1, OpenFacts DEF IInv, ReadKY
<1>. QED
  BY <1>1, <1>2, <1>3, LabelEntered

LEMMA BalancedStep ==
  ASSUME IInv, ~lost', ~lost => Balanced, [Next]_vars
  PROVE  Balanced'
<1>1. ~lost /\ Balanced
  <2>1. (\E x, y : Overflow(x, y)) \/ lost' = lost
    BY Zenon DEF Next, LCB, RCB, LB, RB, COM, KY, PRI, engineVars, vars
  <2>2. ~lost
    BY <2>1, Zenon DEF Overflow
  <2>. QED
    BY <2>2
<1>2. StreamInv'
  BY StreamStep DEF IInv
<1>3. CASE COM \/ UNCHANGED vars
  <2>1. UNCHANGED <<open, path>> /\ UNCHANGED engineVars
    BY <1>3, COMFacts DEF IInv, COM, vars, streamVars
  <2>2. LabelsFit' /\ \A q : OpenObjects(q)' = OpenObjects(q)
    BY <1>1, <2>1 DEF Balanced, LabelsFit, LabelsTo, OpenObjects, Run, engineVars
  <2>3. qa' = qa /\ tl' = tl
    BY <2>1 DEF engineVars
  <2>. QED
    BY <1>1, <2>2, <2>3, BalanceStays
<1>. QED
  BY <1>1, <1>2, <1>3, ObjectEntered, ObjectLeft, ArrayEntered, ArrayLeft,
     KeyEntered, PrimitiveRead DEF Next

(* The marks of a predicate's state nest like its elements: at every token as
   many are opened as are closed or still open in the text, so the filter that
   pairs them belongs every condition to the element it stands in. *)
THEOREM MarksCorrect == Spec => []PredicateMarksBalance
<1>1. Init => Balanced
  <2> SUFFICES ASSUME Init PROVE Balanced
    OBVIOUS
  <2>1. tl = <<>> /\ open = <<>>
    BY DEF Init, StreamInit
  <2>2. ASSUME NEW q PROVE Balance(q)
    <3>1. /\ MarksOf(tl, Opening, q) = {} /\ MarksOf(tl, Closing, q) = {}
          /\ OpenObjects(q) = {}
      BY <2>1 DEF MarksOf, OpenObjects
    <3>. QED
      BY <3>1, FS_EmptySet DEF Balance
  <2>3. LabelsFit
    BY <2>1 DEF LabelsFit
  <2>. QED
    BY <2>2, <2>3 DEF Balanced
<1>2. IInv /\ (~lost => Balanced) /\ [Next]_vars => (~lost => Balanced)'
  BY BalancedStep
<1>3. (~lost => Balanced) => PredicateMarksBalance
  <2>1. \A q : Marks("{", q) = MarksOf(tl, Opening, q) /\ Marks("}", q) = MarksOf(tl, Closing, q)
    BY Zenon DEF Marks, MarksOf, Opening, Closing
  <2>. QED
    BY <2>1, Zenon DEF Balanced, Balance, PredicateMarksBalance
<1>. QED
  BY <1>1, <1>2, <1>3, Inductive, PTL DEF Spec
-----------------------------------------------------------------------------
(* What steps can be read along a path.                                    *)

Rows(s, p) == [0 .. Len(p) -> BOOLEAN]

(* The row of no step, and a row from the one above it. *)
LEMMA RowsAreRows ==
  ASSUME NEW s, NEW p, Len(p) \in Nat
  PROVE  /\ [j \in 0 .. Len(p) |-> j = 0] \in Rows(s, p)
         /\ [i \in 1 .. Len(s) |-> [x \in Rows(s, p) |-> Onward(s[i], p, x)]]
              \in [1 .. Len(s) -> [Rows(s, p) -> Rows(s, p)]]
BY DEF Rows, Onward

LEMMA ReachesRows ==
  ASSUME NEW s, Len(s) \in Nat, NEW p, Len(p) \in Nat
  PROVE  /\ Reaches(s, p) \in [0 .. Len(s) -> Rows(s, p)]
         /\ Reaches(s, p)[0] = [j \in 0 .. Len(p) |-> j = 0]
         /\ \A i \in 1 .. Len(s) :
              Reaches(s, p)[i] = Onward(s[i], p, Reaches(s, p)[i-1])
<1> DEFINE V == Rows(s, p)
           a == [j \in 0 .. Len(p) |-> j = 0]
           g == [i \in 1 .. Len(s) |-> [x \in V |-> Onward(s[i], p, x)]]
<1>1. PICK f : IsRecursion(f, Len(s), V, a, g)
  <2>1. a \in V /\ g \in [1 .. Len(s) -> [V -> V]]
    BY RowsAreRows
  <2> HIDE DEF a, V, g
  <2>. QED
    BY <2>1, RecursionExists
<1>2. /\ f \in [0 .. Len(s) -> V] /\ f[0] = a
      /\ \A i \in 1 .. Len(s) : f[i] = Onward(s[i], p, f[i-1])
  <2>1. f \in [0 .. Len(s) -> V] /\ f[0] = a /\ \A i \in 1 .. Len(s) : f[i] = g[i][f[i-1]]
    BY <1>1 DEF IsRecursion
  <2>2. ASSUME NEW i \in 1 .. Len(s) PROVE f[i] = Onward(s[i], p, f[i-1])
    <3> HIDE DEF V
    <3>1. f[i-1] \in V
      BY <2>1
    <3>. QED
      BY <2>1, <3>1
  <2>. QED
    BY <2>1, <2>2
<1>3. ASSUME NEW i \in 0 .. Len(s)
      PROVE  f[i] = IF i = 0 THEN a ELSE Onward(s[i], p, f[i-1])
  BY <1>2
<1>4. f = [i \in 0 .. Len(s) |-> IF i = 0 THEN a ELSE Onward(s[i], p, f[i-1])]
  <2> HIDE DEF V, a
  <2>. QED
    BY <1>2, <1>3
<1>5. Reaches(s, p) = [i \in 0 .. Len(s) |->
                          IF i = 0 THEN a ELSE Onward(s[i], p, Reaches(s, p)[i-1])]
  BY <1>4 DEF Reaches
<1> DEFINE R == Reaches(s, p)
<1>6. R = [i \in 0 .. Len(s) |-> IF i = 0 THEN a ELSE Onward(s[i], p, R[i-1])]
  BY <1>5
<1> HIDE DEF R, a, V
<1>7. /\ R[0] = a
      /\ \A i \in 1 .. Len(s) : R[i] = Onward(s[i], p, R[i-1])
  <2>1. ASSUME NEW i \in 0 .. Len(s)
        PROVE  R[i] = IF i = 0 THEN a ELSE Onward(s[i], p, R[i-1])
    BY <1>6
  <2>. QED
    BY <2>1
<1>8. R \in [0 .. Len(s) -> V]
  <2>1. \A i \in 1 .. Len(s) : R[i] \in V
    BY <1>7 DEF Onward, Rows, V
  <2>2. R[0] \in V
    BY <1>7, RowsAreRows DEF a, V
  <2>3. \A i \in 0 .. Len(s) : R[i] \in V
    BY <2>1, <2>2
  <2>. QED
    BY <1>6, <2>3
<1>. QED
  BY <1>7, <1>8 DEF R, a, V

(* Fits tests the key and, where there is one, the slice. *)
SliceHolds(s, i, c) ==
  i > 0 => /\ s[i].axis = "slice" => s[i].lo <= c /\ c < s[i].hi
           /\ s[i].axis = "index" => c = s[i].at

LEMMA FitsParts ==
  ASSUME NEW s, NEW i \in Nat \ {0}, s[i].axis \in Axes, NEW l
  PROVE  Fits(s[i], l) <=> FitsKey(s[i], l.key) /\ SliceHolds(s, i, l.idx)
<1>1. i > 0
  OBVIOUS
<1>2. CASE s[i].axis \in {"child", "desc"}
  BY <1>1, <1>2 DEF Fits, FitsKey, SliceHolds
<1>3. CASE s[i].axis \in {"wild", "deep"}
  BY <1>1, <1>3 DEF Fits, FitsKey, SliceHolds
<1>4. CASE s[i].axis \in {"all", "filter"}
  BY <1>1, <1>4 DEF Fits, FitsKey, SliceHolds
<1>5. CASE s[i].axis = "index"
  BY <1>1, <1>5 DEF Fits, FitsKey, SliceHolds
<1>6. CASE s[i].axis = "slice"
  BY <1>1, <1>6 DEF Fits, FitsKey, SliceHolds
<1>. QED
  BY <1>2, <1>3, <1>4, <1>5, <1>6 DEF Axes

(* The rows, entry by entry. *)
LEMMA ReachesEntries ==
  ASSUME NEW s, Len(s) \in Nat, \A i \in 1 .. Len(s) : s[i].axis \in Axes,
         NEW p, Len(p) \in Nat
  PROVE  /\ \A j \in 0 .. Len(p) : Reaches(s, p)[0][j] <=> j = 0
         /\ \A i \in 1 .. Len(s) : ~Reaches(s, p)[i][0]
         /\ \A i \in 1 .. Len(s), j \in 1 .. Len(p) :
              Reaches(s, p)[i][j] <=>
                /\ FitsKey(s[i], p[j].key) /\ SliceHolds(s, i, p[j].idx)
                /\ \/ Reaches(s, p)[i-1][j-1]
                   \/ SkipsLevels(s[i]) /\ \E k \in 0 .. j - 2 : Reaches(s, p)[i-1][k]
<1> DEFINE R == Reaches(s, p)
<1>1. /\ R[0] = [j \in 0 .. Len(p) |-> j = 0]
      /\ \A i \in 1 .. Len(s) : R[i] = Onward(s[i], p, R[i-1])
  BY ReachesRows
<1> HIDE DEF R
<1>2. ASSUME NEW i \in 1 .. Len(s), NEW j \in 0 .. Len(p)
      PROVE  R[i][j] <=>
                /\ j > 0
                /\ Fits(s[i], p[j])
                /\ \/ R[i-1][j-1]
                   \/ s[i].axis \in {"desc", "deep"} /\ \E m \in 0 .. j - 2 : R[i-1][m]
  BY <1>1 DEF Onward
<1>3. ASSUME NEW i \in 1 .. Len(s), NEW j \in 1 .. Len(p)
      PROVE  R[i][j] <=>
                /\ FitsKey(s[i], p[j].key) /\ SliceHolds(s, i, p[j].idx)
                /\ \/ R[i-1][j-1]
                   \/ SkipsLevels(s[i]) /\ \E k \in 0 .. j - 2 : R[i-1][k]
  <2>1. Fits(s[i], p[j]) <=> FitsKey(s[i], p[j].key) /\ SliceHolds(s, i, p[j].idx)
    BY FitsParts
  <2>2. j \in 0 .. Len(p) /\ j > 0
    OBVIOUS
  <2>. QED
    BY <1>2, <2>1, <2>2 DEF SkipsLevels
<1>4. ASSUME NEW i \in 1 .. Len(s) PROVE ~R[i][0]
  BY <1>2
<1>5. \A j \in 0 .. Len(p) : R[0][j] <=> j = 0
  BY <1>1
<1>. QED
  BY <1>3, <1>4, <1>5 DEF R
-----------------------------------------------------------------------------
(* What a table that means the steps does along a path.                    *)

(* The array counter after j labels. *)
CountAt(p, j) == IF j = 0 THEN 0 ELSE p[j].idx

(* The position at has what can be read of the steps along j labels of p. *)
StandsAt(s, p, at, j) ==
  /\ at.now \subseteq 0 .. Len(s) /\ at.deep \subseteq 1 .. Len(s)
  /\ \A i \in 0 .. Len(s) :
       Reaches(s, p)[i][j] <=> i \in at.now /\ SliceHolds(s, i, CountAt(p, j))
  /\ \A i \in 1 .. Len(s) :
       i \in at.deep <=>
         SkipsLevels(s[i]) /\ \E k \in 0 .. j - 1 : Reaches(s, p)[i-1][k]

(* The slice of a state is the one its steps have. *)
LEMMA SliceIsSteps ==
  ASSUME NEW t, NEW q \in States(t), t.index[q] \in [lower : Int, upper : Int],
         NEW s, NEW at, TestsSlice(t, s, q, at), NEW c
  PROVE  /\ \A i \in at.now : SliceHolds(s, i, c) <=> InSlice(t.index[q], c)
         /\ ~InSlice(t.index[q], c) => at.deep = {}
<1>1. CASE NoSliceAt(t, q)
  <2>1. InSlice(t.index[q], c)
    BY <1>1 DEF NoSliceAt, InSlice
  <2>2. \A i \in at.now : SliceHolds(s, i, c)
    BY <1>1 DEF TestsSlice, SliceHolds
  <2>. QED
    BY <2>1, <2>2
<1>2. CASE ~NoSliceAt(t, q)
  <2>1. at.deep = {} /\ \A i \in at.now :
          i > 0 /\ s[i].axis = "slice" /\ t.index[q] = [lower |-> s[i].lo, upper |-> s[i].hi]
    BY <1>2 DEF TestsSlice
  <2>2. ~(t.index[q].lower = 0 /\ t.index[q].upper = 0)
    BY <1>2 DEF NoSliceAt
  <2>3. ASSUME NEW i \in at.now
        PROVE  SliceHolds(s, i, c) <=> InSlice(t.index[q], c)
    <3>1. i > 0 /\ s[i].axis = "slice"
          /\ t.index[q] = [lower |-> s[i].lo, upper |-> s[i].hi]
      BY <2>1
    <3>2. s[i].lo = t.index[q].lower /\ s[i].hi = t.index[q].upper
      BY <3>1
    <3>. QED
      BY <2>2, <3>1, <3>2 DEF SliceHolds, InSlice
  <2>. QED
    BY <2>1, <2>3
<1>. QED
  BY <1>1, <1>2

(* One more label. *)
LEMMA NextPosition ==
  ASSUME NEW t, NEW s, NEW labels, NEW P, IsReading(t, s, labels, P),
         NEW p, Len(p) \in Nat, NEW j \in Nat, j < Len(p), p[j+1].key \in labels,
         NEW q \in States(t), t.index[q] \in [lower : Int, upper : Int],
         NEW at, <<q, at>> \in P, StandsAt(s, p, at, j)
  PROVE  \E new : /\ <<Advance(t, q, CountAt(p, j), p[j+1].key), new>> \in P
                  /\ StandsAt(s, p, new, j + 1)
<1> DEFINE R == Reaches(s, p)
           c == CountAt(p, j)
           n == Len(s)
<1>1. n \in Nat /\ \A i \in 1 .. n : s[i].axis \in Axes
  BY DEF IsReading
<1>2. PICK l \in 1 .. Len(p) : l = j + 1 /\ l - 1 = j /\ l - 2 = j - 1 /\ l # 0
  OBVIOUS
<1>3. /\ \A i \in at.now : SliceHolds(s, i, c) <=> InSlice(t.index[q], c)
      /\ ~InSlice(t.index[q], c) => at.deep = {}
      /\ <<dfaNextStateByStr(t, q, p[l].key), ReadLabel(s, at, p[l].key)>> \in P
      /\ <<0, Nowhere>> \in P
  <2>1. /\ TestsSlice(t, s, q, at) /\ <<0, Nowhere>> \in P
        /\ <<dfaNextStateByStr(t, q, p[l].key), ReadLabel(s, at, p[l].key)>> \in P
    BY <1>2 DEF IsReading
  <2>. QED
    BY <2>1, SliceIsSteps
<1>4. /\ at.now \subseteq 0 .. n /\ at.deep \subseteq 1 .. n
      /\ \A i \in 0 .. n : R[i][j] <=> i \in at.now /\ SliceHolds(s, i, c)
      /\ \A i \in 1 .. n : i \in at.deep <=>
           SkipsLevels(s[i]) /\ \E k \in 0 .. j - 1 : R[i-1][k]
  BY DEF StandsAt
<1>5. /\ ~R[0][l]
      /\ \A i \in 1 .. n :
           R[i][l] <=> /\ FitsKey(s[i], p[l].key) /\ SliceHolds(s, i, p[l].idx)
                       /\ \/ R[i-1][j]
                          \/ SkipsLevels(s[i]) /\ \E k \in 0 .. j - 1 : R[i-1][k]
  BY <1>1, <1>2, ReachesEntries
<1>6. CountAt(p, l) = p[l].idx
  BY <1>2 DEF CountAt
<1> HIDE DEF R, c, n
<1>7. \A i \in 1 .. n : R[i][l] <=> /\ FitsKey(s[i], p[l].key) /\ SliceHolds(s, i, p[l].idx)
                                    /\ R[i-1][j] \/ i \in at.deep
  BY <1>4, <1>5
<1>8. \A i \in 1 .. n : (\E k \in 0 .. l - 1 : R[i-1][k]) <=>
                          R[i-1][j] \/ \E k \in 0 .. j - 1 : R[i-1][k]
  <2>1. \A k : k \in 0 .. l - 1 <=> k = j \/ k \in 0 .. j - 1
    BY <1>2
  <2>. QED
    BY <2>1
<1>9. CASE InSlice(t.index[q], c)
  <2> DEFINE new == ReadLabel(s, at, p[l].key)
  <2>1. \A i \in 1 .. n : R[i-1][j] <=> i - 1 \in at.now
    <3>1. \A i \in 1 .. n : i - 1 \in 0 .. n
      BY <1>1 DEF n
    <3>. QED
      BY <1>3, <1>4, <1>9, <3>1
  <2>2. /\ new.deep = at.deep \union {i \in 1 .. n : i - 1 \in at.now /\ SkipsLevels(s[i])}
        /\ new.now = {i \in 1 .. n : /\ FitsKey(s[i], p[l].key)
                                     /\ i - 1 \in at.now \/ i \in at.deep}
    BY DEF ReadLabel, Waiting, n
  <2> HIDE DEF new
  <2>3. new.now \subseteq 0 .. n /\ new.deep \subseteq 1 .. n /\ 0 \notin new.now
    BY <1>1, <1>4, <2>2
  <2>4. \A i \in 1 .. n : R[i][l] <=> i \in new.now /\ SliceHolds(s, i, p[l].idx)
    BY <1>7, <2>1, <2>2
  <2>5. \A i \in 1 .. n : i \in new.deep <=>
          SkipsLevels(s[i]) /\ \E k \in 0 .. l - 1 : R[i-1][k]
    BY <1>4, <1>8, <2>1, <2>2
  <2>6. \A i \in 0 .. n : R[i][l] <=> i \in new.now /\ SliceHolds(s, i, p[l].idx)
    <3>1. \A i \in 0 .. n : i = 0 \/ i \in 1 .. n
      BY <1>1 DEF n
    <3>. QED
      BY <1>5, <2>3, <2>4, <3>1
  <2>7. StandsAt(s, p, new, l)
    BY <1>6, <2>3, <2>5, <2>6 DEF StandsAt, R, n
  <2>8. Advance(t, q, c, p[l].key) = dfaNextStateByStr(t, q, p[l].key)
    BY <1>9 DEF Advance
  <2>. QED
    BY <1>2, <1>3, <2>7, <2>8 DEF c, new
<1>10. CASE ~InSlice(t.index[q], c)
  <2>1. at.deep = {} /\ \A i \in at.now : ~SliceHolds(s, i, c)
    BY <1>3, <1>10
  <2>2. \A i \in 0 .. n : ~R[i][j]
    BY <1>4, <2>1
  <2>3. \A i \in 1 .. n : i - 1 \in 0 .. n
    BY <1>1 DEF n
  <2>4. \A i \in 1 .. n : ~R[i][l]
    BY <1>7, <2>1, <2>2, <2>3
  <2>5. \A i \in 1 .. n : ~(SkipsLevels(s[i]) /\ \E k \in 0 .. l - 1 : R[i-1][k])
    BY <1>4, <1>8, <2>1, <2>2, <2>3
  <2>6. \A i \in 0 .. n : ~R[i][l]
    <3>1. \A i \in 0 .. n : i = 0 \/ i \in 1 .. n
      BY <1>1 DEF n
    <3>. QED
      BY <1>5, <2>4, <3>1
  <2>7. Nowhere.now = {} /\ Nowhere.deep = {}
    BY DEF Nowhere
  <2>8. StandsAt(s, p, Nowhere, l)
    BY <1>6, <2>5, <2>6, <2>7 DEF StandsAt, R, n
  <2>9. Advance(t, q, c, p[l].key) = 0
    BY <1>10 DEF Advance
  <2>. QED
    BY <1>2, <1>3, <2>8, <2>9 DEF c
<1>. QED
  BY <1>9, <1>10

(* The state the labels of a path lead to matches when the steps select it. *)
LEMMA RunMeansSteps ==
  ASSUME NEW t, NEW s, NEW labels, MeansSteps(t, s, labels),
         \A q \in States(t) : t.index[q] \in [lower : Int, upper : Int],
         NEW p, NEW m \in Nat, Len(p) = m, \A j \in 1 .. m : p[j].key \in labels,
         NEW r, r[0] = 1, \A j \in 0 .. m : r[j] \in States(t),
         \A j \in 1 .. m : r[j] = Advance(t, r[j-1], CountAt(p, j - 1), p[j].key)
  PROVE  MatchedType(t, r[m], CountAt(p, m)) = OUTPUT_CANDIDATE <=> Selects(s, p)
<1>1. PICK P : IsReading(t, s, labels, P)
  BY DEF MeansSteps
<1>2. /\ Len(s) \in Nat /\ \A i \in 1 .. Len(s) : s[i].axis \in Axes
      /\ <<1, AtRoot>> \in P
  BY <1>1 DEF IsReading
<1> DEFINE S == {j \in 0 .. m : \E at : <<r[j], at>> \in P /\ StandsAt(s, p, at, j)}
<1>3. 0 \in S
  <2>1. /\ Reaches(s, p)[0][0] /\ \A i \in 1 .. Len(s) : ~Reaches(s, p)[i][0]
    BY <1>2, ReachesEntries
  <2>2. AtRoot.now = {0} /\ AtRoot.deep = {}
    BY DEF AtRoot
  <2>3. SliceHolds(s, 0, CountAt(p, 0))
    BY DEF SliceHolds
  <2>4. ASSUME NEW i \in 0 .. Len(s)
        PROVE  Reaches(s, p)[i][0] <=> i \in AtRoot.now /\ SliceHolds(s, i, CountAt(p, 0))
    <3>1. i = 0 \/ i \in 1 .. Len(s)
      BY <1>2
    <3>2. CASE i = 0
      BY <2>1, <2>2, <2>3, <3>2
    <3>3. CASE i \in 1 .. Len(s)
      BY <2>1, <2>2, <3>3
    <3>. QED
      BY <3>1, <3>2, <3>3
  <2>5. StandsAt(s, p, AtRoot, 0)
    BY <1>2, <2>2, <2>4 DEF StandsAt
  <2>. QED
    BY <1>2, <2>5
<1>4. ASSUME NEW j \in Nat, j < m, j \in S PROVE j + 1 \in S
  <2>1. PICK at : <<r[j], at>> \in P /\ StandsAt(s, p, at, j)
    BY <1>4
  <2>2. /\ p[j+1].key \in labels /\ r[j] \in States(t)
        /\ t.index[r[j]] \in [lower : Int, upper : Int]
        /\ j + 1 \in 0 .. m
    BY <1>4
  <2>3. r[j+1] = Advance(t, r[j], CountAt(p, j), p[j+1].key)
    <3>1. j + 1 \in 1 .. m /\ (j + 1) - 1 = j
      BY <1>4
    <3>. QED
      BY <3>1
  <2>4. \E new : <<r[j+1], new>> \in P /\ StandsAt(s, p, new, j + 1)
    BY <1>1, <1>4, <2>1, <2>2, <2>3, NextPosition
  <2>. QED
    BY <2>2, <2>4
<1>5. m \in S
  <2>1. 0 .. m \subseteq S
    <3> HIDE DEF S
    <3>. QED
      BY <1>3, <1>4, BoundedInduction
  <2>. QED
    BY <2>1
<1>6. PICK at : <<r[m], at>> \in P /\ StandsAt(s, p, at, m)
  BY <1>5
<1>7. /\ TestsSlice(t, s, r[m], at)
      /\ t.accept[r[m]] = OUTPUT_CANDIDATE <=> Len(s) \in at.now
      /\ r[m] \in States(t)
  BY <1>1, <1>6 DEF IsReading
<1>8. \A i \in at.now : SliceHolds(s, i, CountAt(p, m)) <=>
                           InSlice(t.index[r[m]], CountAt(p, m))
  BY <1>7, SliceIsSteps
<1>9. Selects(s, p) <=> Len(s) \in at.now /\ SliceHolds(s, Len(s), CountAt(p, m))
  BY <1>2, <1>6 DEF StandsAt, Selects
<1>10. NO_MATCH # OUTPUT_CANDIDATE
  BY DEF NO_MATCH, OUTPUT_CANDIDATE
<1>. QED
  BY <1>7, <1>8, <1>9, <1>10 DEF MatchedType
-----------------------------------------------------------------------------
(* The answers among the tuples.                                           *)

Interval == [from : Nat, to : Nat]

LEMMA WithAnswerType ==
  ASSUME NEW a, NEW x \in TupleType, NEW found \in Seq(Interval)
  PROVE  WithAnswer(a, x, found) \in Seq(Interval)
<1>1. [from |-> x.from, to |-> x.to] \in Interval
  BY DEF TupleType, Interval
<1>. QED
  BY <1>1, AppendProperties DEF WithAnswer

(* f has the answers among the first tuples of t. *)
Collects(f, a, t) ==
  /\ f \in [0 .. Len(t) -> Seq(Interval)] /\ f[0] = <<>>
  /\ \A i \in 1 .. Len(t) : f[i] = WithAnswer(a, t[i], f[i-1])
  /\ AnswersIn(a, t) = f[Len(t)]

LEMMA AnswersRecursion ==
  ASSUME NEW a, NEW t \in Seq(TupleType)
  PROVE  \E f : Collects(f, a, t)
<1> DEFINE V == Seq(Interval)
           g == [i \in 1 .. Len(t) |-> [x \in V |-> WithAnswer(a, t[i], x)]]
           n == Len(t)
<1>1. n \in Nat /\ \A i \in 1 .. n : t[i] \in TupleType
  BY LenProperties, ElementOfSeq
<1>2. g \in [1 .. n -> [V -> V]] /\ <<>> \in V
  BY <1>1, WithAnswerType
<1>3. PICK f : IsRecursion(f, n, V, <<>>, g)
  <2> HIDE DEF V, g, n
  <2>. QED
    BY <1>1, <1>2, RecursionExists
<1>4. /\ f \in [0 .. n -> V] /\ f[0] = <<>>
      /\ \A i \in 1 .. n : f[i] = g[i][f[i-1]]
  BY <1>3 DEF IsRecursion
<1>5. ASSUME NEW i \in 1 .. n PROVE f[i] = WithAnswer(a, t[i], f[i-1])
  <2> HIDE DEF V
  <2>1. f[i-1] \in V
    BY <1>1, <1>4
  <2>. QED
    BY <1>4, <2>1
<1> HIDE DEF V, g, n
<1>6. ASSUME NEW i \in 0 .. n
      PROVE  f[i] = IF i = 0 THEN <<>> ELSE WithAnswer(a, t[i], f[i-1])
  BY <1>1, <1>4, <1>5
<1>7. f = [i \in 0 .. n |-> IF i = 0 THEN <<>> ELSE WithAnswer(a, t[i], f[i-1])]
  BY <1>4, <1>6
<1> DEFINE h == CHOOSE A :
             A = [i \in 0 .. n |-> IF i = 0 THEN <<>> ELSE WithAnswer(a, t[i], A[i-1])]
<1>8. AnswersIn(a, t) = h[n]
  BY DEF AnswersIn, n
<1>9. h = [i \in 0 .. n |-> IF i = 0 THEN <<>> ELSE WithAnswer(a, t[i], h[i-1])]
  BY <1>7
<1> HIDE DEF h
<1>10. ASSUME NEW i \in 0 .. n
       PROVE  h[i] = IF i = 0 THEN <<>> ELSE WithAnswer(a, t[i], h[i-1])
  BY <1>9
<1>11. h[n] = f[n]
  <2> DEFINE P == {i \in 0 .. n : h[i] = f[i]}
  <2>1. 0 \in P
    BY <1>1, <1>6, <1>10
  <2>2. ASSUME NEW i \in Nat, i < n, i \in P PROVE i + 1 \in P
    <3>1. PICK k \in 0 .. n : k = i + 1 /\ k - 1 = i /\ k # 0
      BY <1>1, <2>2
    <3>2. h[k] = WithAnswer(a, t[k], h[k-1]) /\ f[k] = WithAnswer(a, t[k], f[k-1])
      BY <1>6, <1>10, <3>1
    <3>3. h[k-1] = f[k-1]
      BY <2>2, <3>1
    <3>. QED
      BY <3>1, <3>2, <3>3
  <2>3. 0 .. n \subseteq P
    <3> HIDE DEF P
    <3>. QED
      BY <1>1, <2>1, <2>2, BoundedInduction
  <2>. QED
    BY <1>1, <2>3
<1>. QED
  BY <1>4, <1>5, <1>8, <1>11 DEF n, V, Collects

LEMMA AnswersOfNone == ASSUME NEW a PROVE AnswersIn(a, <<>>) = <<>>
<1>1. <<>> \in Seq(TupleType) /\ Len(<<>>) = 0
  OBVIOUS
<1>2. PICK f : Collects(f, a, <<>>)
  BY <1>1, AnswersRecursion
<1>. QED
  BY <1>1, <1>2 DEF Collects

LEMMA AnswersOfMore ==
  ASSUME NEW a, NEW t \in Seq(TupleType), NEW x \in TupleType
  PROVE  AnswersIn(a, Append(t, x)) = WithAnswer(a, x, AnswersIn(a, t))
<1> DEFINE u == Append(t, x)
<1>1. PICK n \in Nat : n = Len(t)
  BY LenProperties
<1>2. u \in Seq(TupleType) /\ Len(u) = n + 1 /\ u[n+1] = x /\ \A i \in 1 .. n : u[i] = t[i]
  BY <1>1, AppendProperties
<1> HIDE DEF u
<1>3. PICK f : /\ f[0] = <<>> /\ AnswersIn(a, t) = f[n]
               /\ \A i \in 1 .. n : f[i] = WithAnswer(a, t[i], f[i-1])
  BY <1>1, AnswersRecursion DEF Collects
<1>4. PICK h : Collects(h, a, u)
  BY <1>2, AnswersRecursion
<1> DEFINE P == {i \in 0 .. n : h[i] = f[i]}
<1>5. 0 \in P
  BY <1>3, <1>4 DEF Collects
<1>6. ASSUME NEW i \in Nat, i < n, i \in P PROVE i + 1 \in P
  <2>1. PICK k \in 1 .. n : k = i + 1 /\ k - 1 = i /\ k \in 1 .. n + 1
    BY <1>6
  <2>2. /\ h[k] = WithAnswer(a, u[k], h[k-1]) /\ f[k] = WithAnswer(a, t[k], f[k-1])
        /\ u[k] = t[k]
    BY <1>2, <1>3, <1>4, <2>1 DEF Collects
  <2>3. h[k-1] = f[k-1]
    BY <1>6, <2>1
  <2>. QED
    BY <2>1, <2>2, <2>3
<1>7. h[n] = f[n]
  <2>1. 0 .. n \subseteq P
    <3> HIDE DEF P
    <3>. QED
      BY <1>5, <1>6, BoundedInduction
  <2>. QED
    BY <2>1
<1>8. h[n+1] = WithAnswer(a, u[n+1], h[n])
  <2>1. n + 1 \in 1 .. n + 1 /\ (n + 1) - 1 = n
    OBVIOUS
  <2>. QED
    BY <1>2, <1>4, <2>1 DEF Collects
<1>. QED
  BY <1>2, <1>3, <1>4, <1>7, <1>8 DEF u, Collects

-----------------------------------------------------------------------------
(* The answers the engine adds.                                            *)

Meant == MeansSteps(qa, qa.steps, Keys \union {ARRAY})

(* The element along a path is matched when the steps select the path. *)
LEMMA MatchedIsSelected ==
  ASSUME IInv, ~lost, Meant, NEW l \in 0 .. Len(path),
         NEW p, Len(p) = l, \A j \in 1 .. l : p[j] = path[j]
  PROVE  Matched(Run(l)) = OUTPUT_CANDIDATE <=> Selects(qa.steps, p)
<1> DEFINE r == [j \in 0 .. l |-> Run(j).query_state]
<1>1. /\ Len(path) \in Nat /\ l \in Nat /\ Len(qs) = Len(path)
      /\ path \in Seq(Label) /\ RunOfPath
  BY SyncFacts, InnermostFacts DEF IInv, Sync
<1>2. \A q \in States(qa) : qa.index[q] \in [lower : Int, upper : Int]
  BY QueriesAssumption, EngineFacts DEF IInv, IsQueryDFA
<1>3. \A j \in 1 .. l : p[j] \in Label /\ p[j].key \in Keys \union {ARRAY}
  <2>1. \A j \in 1 .. l : p[j] \in Label
    BY <1>1, ElementOfSeq
  <2>. QED
    BY <2>1 DEF Label
<1>4. /\ r[0] = 1
      /\ \A j \in 0 .. l : Run(j).count = CountAt(p, j)
      /\ \A j \in 1 .. l : r[j] = Advance(qa, r[j-1], CountAt(p, j - 1), p[j].key)
  <2>1. \A j \in 0 .. l : Run(j).count = CountAt(p, j)
    BY <1>1 DEF RunOfPath, CountAt
  <2>2. ASSUME NEW j \in 1 .. l
        PROVE  r[j] = Advance(qa, r[j-1], CountAt(p, j - 1), p[j].key)
    <3>1. j - 1 \in 0 .. l /\ j \in 0 .. l /\ j \in 1 .. Len(path)
      BY <1>1
    <3>2. Run(j).query_state =
            Advance(qa, Run(j-1).query_state, Run(j-1).count, path[j].key)
      BY <1>1, <3>1 DEF RunOfPath
    <3>. QED
      BY <2>1, <3>1, <3>2
  <2>. QED
    BY <1>1, <2>1, <2>2 DEF RunOfPath
<1>5. \A j \in 0 .. l : r[j] \in States(qa)
  <2> DEFINE P == {j \in 0 .. l : r[j] \in States(qa)}
  <2>1. 0 \in P
    BY <1>1, <1>4, QueryFacts, EngineFacts DEF IInv
  <2>2. ASSUME NEW j \in Nat, j < l, j \in P PROVE j + 1 \in P
    <3>1. PICK k \in 1 .. l : k = j + 1 /\ k - 1 = j /\ k \in 0 .. l
      BY <1>1, <2>2
    <3>2. CountAt(p, j) \in Nat
      <4>1. j # 0 => j \in 1 .. l
        BY <1>1, <2>2
      <4>. QED
        BY <1>3, <4>1 DEF CountAt, Label
    <3>3. r[k] = Advance(qa, r[j], CountAt(p, j), p[k].key)
      BY <1>4, <3>1
    <3>4. r[j] \in States(qa) /\ p[k].key \in Keys \union {ARRAY}
      BY <1>3, <2>2, <3>1
    <3>5. r[k] \in States(qa)
      BY <3>2, <3>3, <3>4, QueryFacts, EngineFacts DEF IInv
    <3>. QED
      BY <3>1, <3>5
  <2>3. 0 .. l \subseteq P
    <3> HIDE DEF P
    <3>. QED
      BY <1>1, <2>1, <2>2, BoundedInduction
  <2>. QED
    BY <2>3
<1>6. Run(l).query_state = r[l] /\ Run(l).count = CountAt(p, l)
  BY <1>1, <1>4
<1> HIDE DEF r
<1>7. MatchedType(qa, r[l], CountAt(p, l)) = OUTPUT_CANDIDATE <=> Selects(qa.steps, p)
  <2>1. /\ MeansSteps(qa, qa.steps, Keys \union {ARRAY})
        /\ \A q \in States(qa) : qa.index[q] \in [lower : Int, upper : Int]
        /\ l \in Nat /\ Len(p) = l /\ \A j \in 1 .. l : p[j].key \in Keys \union {ARRAY}
        /\ r[0] = 1 /\ \A j \in 0 .. l : r[j] \in States(qa)
        /\ \A j \in 1 .. l : r[j] = Advance(qa, r[j-1], CountAt(p, j - 1), p[j].key)
    BY <1>1, <1>2, <1>3, <1>4, <1>5 DEF Meant
  <2>. QED
    BY ONLY <2>1, RunMeansSteps
<1>. QED
  BY <1>6, <1>7 DEF Matched

(* A tuple in a state of another type adds no answer. *)
LEMMA NoAnswerAdded ==
  ASSUME NEW t \in Seq(TupleType), NEW x \in TupleType,
         qa.accept[x.state] # OUTPUT_CANDIDATE
  PROVE  AnswersIn(qa.accept, Append(t, x)) = AnswersIn(qa.accept, t)
BY AnswersOfMore DEF WithAnswer

AnswerAdded(found, yes, a) ==
  IF yes THEN Append(found, [from |-> a, to |-> pos']) ELSE found

(* A value that ends is an answer when its element is matched. *)
LEMMA CompletedAdds ==
  ASSUME NEW t \in Seq(TupleType), NEW e \in Element, NEW a \in Nat, pos' \in Nat,
         Matched(e) = OUTPUT_CANDIDATE => e.matched_start = a
  PROVE  /\ t \o Completed(e) \in Seq(TupleType)
         /\ AnswersIn(qa.accept, t \o Completed(e)) =
              AnswerAdded(AnswersIn(qa.accept, t), Matched(e) = OUTPUT_CANDIDATE, a)
<1>1. CASE Matched(e) = OUTPUT_CANDIDATE
  <2> DEFINE x == ValueTuple(e.query_state, a, pos')
  <2>1. /\ Completed(e) = <<x>> /\ e.query_state \in States(qa)
        /\ qa.accept[e.query_state] = OUTPUT_CANDIDATE
    BY <1>1 DEF Completed, Completes, INVALID, Element, Matched, MatchedType,
       NO_MATCH, OUTPUT_CANDIDATE
  <2>2. x \in TupleType /\ x.state = e.query_state /\ x.from = a /\ x.to = pos'
    BY <2>1, TupleFacts DEF ValueTuple, Tuple
  <2> HIDE DEF x
  <2>3. t \o Completed(e) = Append(t, x) /\ Append(t, x) \in Seq(TupleType)
    BY <2>1, <2>2, AppendIsConcat, AppendProperties
  <2>4. AnswersIn(qa.accept, Append(t, x)) = WithAnswer(qa.accept, x, AnswersIn(qa.accept, t))
    BY <2>2, AnswersOfMore
  <2>. QED
    BY <1>1, <2>1, <2>2, <2>3, <2>4 DEF WithAnswer, AnswerAdded
<1>2. CASE Matched(e) # OUTPUT_CANDIDATE
  <2>1. t \o Completed(e) = t
    BY <1>2, ConcatEmptySeq DEF Completed, Completes
  <2>. QED
    BY <1>2, <2>1 DEF AnswerAdded
<1>. QED
  BY <1>1, <1>2

(* No mark is an answer. *)
LEMMA MarksAddNothing ==
  ASSUME NEW t \in Seq(TupleType), NEW q \in States(qa),
         qa.accept[q] \in {PREDICATE, CONDITION}, NEW text \in {Opening, Closing, Plain}
  PROVE  AnswersIn(qa.accept, Append(t, Mark(q, text))) = AnswersIn(qa.accept, t)
<1> DEFINE x == Mark(q, text)
<1>1. x \in TupleType /\ x.state = q
  BY MarkTuples
<1>2. qa.accept[q] # OUTPUT_CANDIDATE
  BY DEF PREDICATE, CONDITION, OUTPUT_CANDIDATE
<1> HIDE DEF x
<1>3. AnswersIn(qa.accept, Append(t, x)) = AnswersIn(qa.accept, t)
  BY <1>1, <1>2, NoAnswerAdded
<1>. QED
  BY <1>3 DEF x

(* The start of the entry a closing token ends. *)
LEMMA InnermostStart ==
  ASSUME IInv, ~lost, MatchKeepsStart, NEW n \in 1 .. Len(open), open[n].sym # "KY"
  PROVE  /\ open[n].from \in Nat
         /\ Matched(Run(open[n].depth)) = OUTPUT_CANDIDATE
              => Run(open[n].depth).matched_start = open[n].from
<1>1. DOMAIN open = 1 .. Len(open) /\ open[n] \in Entry
  BY InnermostFacts, LenProperties DEF IInv
<1>. QED
  BY <1>1 DEF MatchKeepsStart, Entry

LEMMA AnswersRCB ==
  ASSUME IInv, ~lost, MatchKeepsStart, Meant, RCB
  PROVE  Answers' = AnswerAdded(Answers, Selects(qa.steps, path), open[Len(open)].from)
<1> DEFINE e == IF Completes(cur) THEN [cur EXCEPT !.matched_start = INVALID] ELSE cur
           marks == ElementMark(e)
           s == tl \o Completed(cur)
           t == Mark(cur.query_state, Closing)
<1>1. qa' = qa /\ ReadRCB /\ Defined /\ tl' = s \o marks
  BY Zenon DEF RCB
<1>2. PICK n \in 1 .. Len(open) : n = Len(open) /\ open[n].sym = "LCB"
  BY <1>1, RCBFacts, SyncFacts DEF IInv
<1>3. PICK l \in Nat : l = Len(path) /\ l = Len(qs) /\ l \in 0 .. Len(path)
  BY SyncFacts
<1>4. open[n].depth = l /\ Run(l) = cur
  <2>1. open[n].depth \in Nat /\ Len(path) = LabelsTo(n)
    BY <1>2, InnermostFacts DEF IInv
  <2>2. Len(path) = open[n].depth
    BY ONLY <1>2, <2>1 DEF LabelsTo
  <2>3. Run(l) = cur
    BY ONLY <1>3 DEF Run
  <2>. QED
    BY <1>3, <2>2, <2>3
<1>5. /\ cur \in Element /\ cur.query_state \in States(qa)
      /\ e \in Element /\ e.query_state = cur.query_state
      /\ pos' \in Nat /\ tl \in Seq(TupleType)
  <2>1. cur \in Element /\ tl \in Seq(TupleType) /\ pos' \in Nat
    BY <1>1, EngineFacts DEF IInv, ReadRCB
  <2>. QED
    BY <2>1, ElementFields, ElementUpdate
<1>6. /\ open[n].from \in Nat
      /\ Matched(cur) = OUTPUT_CANDIDATE => cur.matched_start = open[n].from
  <2>1. open[n].sym # "KY"
    BY <1>2
  <2>. QED
    BY <1>4, <2>1, InnermostStart
<1>7. Matched(cur) = OUTPUT_CANDIDATE <=> Selects(qa.steps, path)
  <2>1. \A j \in 1 .. l : path[j] = path[j]
    OBVIOUS
  <2>2. Matched(Run(l)) = OUTPUT_CANDIDATE <=> Selects(qa.steps, path)
    BY <1>3, <2>1, MatchedIsSelected
  <2>. QED
    BY <1>4, <2>2
<1>8. /\ s \in Seq(TupleType)
      /\ AnswersIn(qa.accept, s) =
           AnswerAdded(AnswersIn(qa.accept, tl), Matched(cur) = OUTPUT_CANDIDATE, open[n].from)
  BY <1>5, <1>6, CompletedAdds
<1>9. marks = <<>> \/ (qa.accept[cur.query_state] = PREDICATE /\ marks = <<t>>)
  BY <1>5, EndMark
<1>10. t \in TupleType /\ Closing \in {Opening, Closing, Plain}
  BY <1>5, MarkTuples
<1> HIDE DEF e, marks, s
<1>11. AnswersIn(qa.accept, tl') = AnswersIn(qa.accept, s)
  <2>1. CASE marks = <<>>
    BY <1>1, <1>8, <2>1, ConcatEmptySeq
  <2>2. CASE qa.accept[cur.query_state] = PREDICATE /\ marks = <<t>>
    <3>1. AnswersIn(qa.accept, Append(s, t)) = AnswersIn(qa.accept, s)
      BY <1>5, <1>8, <1>10, <2>2, MarksAddNothing
    <3> HIDE DEF t
    <3>2. tl' = Append(s, t)
      BY <1>1, <1>8, <1>10, <2>2, AppendIsConcat
    <3>. QED
      BY <3>1, <3>2
  <2>. QED
    BY <1>9, <2>1, <2>2
<1>. QED
  BY <1>1, <1>2, <1>7, <1>8, <1>11 DEF Answers, AnswerAdded

LEMMA AnswersRB ==
  ASSUME IInv, ~lost, MatchKeepsStart, Meant, RB
  PROVE  Answers' = AnswerAdded(Answers, Selects(qa.steps, Front(path)),
                                open[Len(open)].from)
<1> DEFINE top == queryStackTop(qs)
<1>1. PICK n \in 1 .. Len(open) : n = Len(open) /\ open[n].sym = "LB"
  BY RBFacts, SyncFacts DEF IInv, RB
<1>2. PICK k \in Nat : k = Len(path) /\ k > 0 /\ k = Len(qs)
  BY RBFacts, SyncFacts DEF IInv, RB
<1>3. PICK l \in Nat : l = k - 1 /\ l \in 0 .. Len(path)
  BY <1>2
<1>4. open[n].depth = l
  <2>1. open[n].depth \in Nat /\ Len(path) = LabelsTo(n)
    BY <1>1, InnermostFacts DEF IInv
  <2>2. PICK d \in Nat : d = open[n].depth
    BY <2>1
  <2>3. Len(path) = d + 1
    BY ONLY <1>1, <2>1, <2>2 DEF LabelsTo
  <2>4. k = d + 1
    BY <1>2, <2>3
  <2>5. l = d
    BY <1>3, <2>4
  <2>. QED
    BY <2>2, <2>5
<1>5. top \in Element /\ Run(l) = top
  <2>1. top = qs[k] /\ top \in Element
    BY <1>2, EngineFacts, TopFacts DEF IInv
  <2>. QED
    BY <1>2, <1>3, <2>1 DEF Run
<1> HIDE DEF top
<1>6. /\ qa' = qa /\ ReadRB /\ ss # <<>>
      /\ tl' = IF Completes(top) THEN tl \o Completed(top) ELSE tl
  <2>1. ss # <<>>
    BY <1>1, SyncFacts
  <2>2. /\ qa' = qa /\ ReadRB
        /\ ss # <<>> => tl' = IF Completes(top) THEN tl \o Completed(top) ELSE tl
    BY Zenon DEF RB, top
  <2>. QED
    BY <2>1, <2>2
<1>7. tl \in Seq(TupleType) /\ pos' \in Nat
  BY <1>6, EngineFacts DEF IInv, ReadRB
<1>8. tl' = tl \o Completed(top)
  <2>1. tl \o <<>> = tl
    BY <1>7, ConcatEmptySeq
  <2>. QED
    BY <1>6, <2>1 DEF Completed
<1>9. /\ open[n].from \in Nat
      /\ Matched(top) = OUTPUT_CANDIDATE => top.matched_start = open[n].from
  <2>1. open[n].sym # "KY"
    BY <1>1
  <2>. QED
    BY <1>4, <1>5, <2>1, InnermostStart
<1>10. Matched(top) = OUTPUT_CANDIDATE <=> Selects(qa.steps, Front(path))
  <2>1. Len(Front(path)) = l /\ \A j \in 1 .. l : Front(path)[j] = path[j]
    <3>1. path \in Seq(Label)
      BY InnermostFacts DEF IInv
    <3>2. path # <<>>
      <4>1. Len(path) # 0
        BY <1>2
      <4>. QED
        BY <3>1, <4>1, EmptySeq
    <3>. QED
      BY <1>2, <1>3, <3>1, <3>2, FrontFacts
  <2>2. Matched(Run(l)) = OUTPUT_CANDIDATE <=> Selects(qa.steps, Front(path))
    BY <1>3, <2>1, MatchedIsSelected
  <2>. QED
    BY <1>5, <2>2
<1>11. AnswersIn(qa.accept, tl \o Completed(top)) =
         AnswerAdded(AnswersIn(qa.accept, tl), Matched(top) = OUTPUT_CANDIDATE, open[n].from)
  BY <1>5, <1>7, <1>9, CompletedAdds
<1>. QED
  BY <1>1, <1>6, <1>8, <1>10, <1>11 DEF Answers, AnswerAdded

LEMMA AnswersPRI ==
  ASSUME IInv, ~lost, Meant, PRI
  PROVE  Answers' = IF open = <<>> THEN Answers
                    ELSE AnswerAdded(Answers, Selects(qa.steps, path), pos')
<1> DEFINE x == ValueTuple(cur.query_state, pos', pos')
<1>1. /\ qa' = qa /\ ReadPRI /\ Defined
      /\ ss = <<>> => tl' = tl
      /\ ss # <<>> => tl' = IF Matched(cur) \in {OUTPUT_CANDIDATE, CONDITION}
                              THEN Append(tl, x) ELSE tl
  BY Zenon DEF PRI
<1>2. CASE open = <<>>
  <2>1. ss = <<>>
    BY <1>2, SyncFacts
  <2>. QED
    BY <1>1, <1>2, <2>1 DEF Answers
<1>3. CASE open # <<>>
  <2>1. ss # <<>> /\ Len(path) \in 0 .. Len(path)
    BY <1>3, SyncFacts, InnermostFacts DEF IInv
  <2>2. /\ cur \in Element /\ cur.query_state \in States(qa)
        /\ pos' \in Nat /\ tl \in Seq(TupleType) /\ Run(Len(path)) = cur
    <3>1. cur \in Element /\ tl \in Seq(TupleType) /\ pos' \in Nat
      BY <1>1, EngineFacts DEF IInv, ReadPRI
    <3>2. Run(Len(path)) = cur
      BY SyncFacts DEF Run
    <3>. QED
      BY <3>1, <3>2, ElementFields
  <2>3. x \in TupleType /\ x.state = cur.query_state /\ x.from = pos' /\ x.to = pos'
    BY <2>2, TupleFacts DEF ValueTuple, Tuple
  <2> HIDE DEF x
  <2>4. AnswersIn(qa.accept, Append(tl, x)) = WithAnswer(qa.accept, x, AnswersIn(qa.accept, tl))
    BY <2>2, <2>3, AnswersOfMore
  <2>5. Matched(cur) = OUTPUT_CANDIDATE <=> Selects(qa.steps, path)
    <3>1. \A j \in 1 .. Len(path) : path[j] = path[j]
      OBVIOUS
    <3>2. Matched(Run(Len(path))) = OUTPUT_CANDIDATE <=> Selects(qa.steps, path)
      BY <2>1, <3>1, MatchedIsSelected
    <3>. QED
      BY <2>2, <3>2
  <2>6. /\ Matched(cur) = OUTPUT_CANDIDATE => qa.accept[x.state] = OUTPUT_CANDIDATE
        /\ Matched(cur) = CONDITION => qa.accept[x.state] # OUTPUT_CANDIDATE
    BY <2>3 DEF Matched, MatchedType, NO_MATCH, OUTPUT_CANDIDATE, CONDITION
  <2>7. CASE Matched(cur) = OUTPUT_CANDIDATE
    BY <1>1, <1>3, <2>1, <2>3, <2>4, <2>5, <2>6, <2>7 DEF Answers, AnswerAdded, WithAnswer
  <2>8. CASE Matched(cur) # OUTPUT_CANDIDATE
    BY <1>1, <1>3, <2>1, <2>3, <2>4, <2>5, <2>6, <2>8 DEF Answers, AnswerAdded, WithAnswer
  <2>. QED
    BY <2>7, <2>8
<1>. QED
  BY <1>2, <1>3

(* Where a container begins there may be a mark, and no answer. *)
LEMMA AnswersBegin ==
  ASSUME IInv, LCB \/ LB
  PROVE  Answers' = Answers
<1> DEFINE text == IF Matched(cur) = PREDICATE THEN Opening ELSE Plain
<1>1. /\ qa' = qa /\ Defined
      /\ \/ tl' = tl
         \/ /\ Matched(cur) \in {PREDICATE, CONDITION}
            /\ tl' = Append(tl, Mark(cur.query_state, text))
         \/ /\ Matched(cur) = CONDITION
            /\ tl' = Append(tl, Mark(cur.query_state, Plain))
  BY Zenon DEF LCB, LB, Opening, Plain
<1>2. cur.query_state \in States(qa) /\ tl \in Seq(TupleType)
  BY <1>1, EngineFacts, ElementFields DEF IInv
<1>3. text \in {Opening, Closing, Plain} /\ Plain \in {Opening, Closing, Plain}
  OBVIOUS
<1>4. Matched(cur) \in {PREDICATE, CONDITION}
        => qa.accept[cur.query_state] \in {PREDICATE, CONDITION}
  BY DEF Matched, MatchedType, NO_MATCH, PREDICATE, CONDITION
<1> HIDE DEF text
<1>5. Matched(cur) \in {PREDICATE, CONDITION} =>
        /\ AnswersIn(qa.accept, Append(tl, Mark(cur.query_state, text)))
             = AnswersIn(qa.accept, tl)
        /\ AnswersIn(qa.accept, Append(tl, Mark(cur.query_state, Plain)))
             = AnswersIn(qa.accept, tl)
  BY <1>2, <1>3, <1>4, MarksAddNothing
<1>6. AnswersIn(qa.accept, tl') = AnswersIn(qa.accept, tl)
  <2>1. CASE tl' = tl
    BY <2>1
  <2>2. CASE /\ Matched(cur) \in {PREDICATE, CONDITION}
             /\ tl' = Append(tl, Mark(cur.query_state, text))
    BY <1>5, <2>2
  <2>3. CASE Matched(cur) = CONDITION /\ tl' = Append(tl, Mark(cur.query_state, Plain))
    BY <1>5, <2>3
  <2>. QED
    BY <1>1, <2>1, <2>2, <2>3
<1>. QED
  BY <1>1, <1>6 DEF Answers
-----------------------------------------------------------------------------
(* The refinement.                                                         *)

(* The abstract specification reads the same text and means the same by a path
   that is selected. *)
LEMMA SameMeaning ==
  \A s, p : Promise!Selects(s, p) = Selects(s, p)
BY DEF Promise!Selects, Selects, Promise!Reaches, Reaches, Promise!Onward, Onward,
       Promise!Fits, Fits

LEMMA SameAnswer ==
  ASSUME NEW p, NEW a
  PROVE  Promise!Answer(p, a) <=> Answers' = AnswerAdded(Answers, Selects(qa.steps, p), a)
BY SameMeaning DEF Promise!Answer, AnswerAdded

LEMMA SameReading ==
  /\ ReadLCB <=> Promise!ReadLCB
  /\ ReadRCB <=> Promise!ReadRCB
  /\ ReadLB  <=> Promise!ReadLB
  /\ ReadRB  <=> Promise!ReadRB
  /\ ReadCOM <=> Promise!ReadCOM
  /\ ReadPRI <=> Promise!ReadPRI
  /\ \A k : ReadKY(k) <=> Promise!ReadKY(k)
<1>1. \A o, p : ValueDone(o, p) <=> Promise!ValueDone(o, p)
  BY DEF ValueDone, Promise!ValueDone, Front, Promise!Front
<1>2. ExpectsValue <=> Promise!ExpectsValue
  BY DEF ExpectsValue, Promise!ExpectsValue, Innermost, Promise!Innermost
<1>3. \A s : Enter(s) = Promise!Enter(s)
  BY DEF Enter, Promise!Enter
<1>4. \A s : Front(s) = Promise!Front(s)
  BY DEF Front, Promise!Front
<1>5. Innermost = Promise!Innermost /\ ARRAY = Promise!ARRAY
  BY DEF Innermost, Promise!Innermost, ARRAY, Promise!ARRAY
<1>6. (ReadLCB <=> Promise!ReadLCB) /\ (ReadLB <=> Promise!ReadLB)
  BY <1>2, <1>3, <1>5 DEF ReadLCB, Promise!ReadLCB, ReadLB, Promise!ReadLB
<1>7. (ReadRCB <=> Promise!ReadRCB) /\ (ReadRB <=> Promise!ReadRB)
  BY <1>1, <1>4, <1>5 DEF ReadRCB, Promise!ReadRCB, ReadRB, Promise!ReadRB
<1>8. (ReadCOM <=> Promise!ReadCOM) /\ (ReadPRI <=> Promise!ReadPRI)
  BY <1>1, <1>2, <1>5 DEF ReadCOM, Promise!ReadCOM, ReadPRI, Promise!ReadPRI
<1>9. \A k : ReadKY(k) <=> Promise!ReadKY(k)
  BY <1>3, <1>5 DEF ReadKY, Promise!ReadKY
<1>. QED
  BY <1>6, <1>7, <1>8, <1>9

(* One token of the engine is one of the abstract specification. *)
LEMMA EngineAnswers ==
  ASSUME IInv, ~lost', MatchKeepsStart, Meant, Next
  PROVE  Promise!PathNext
<1>1. ~lost
  <2>1. (\E x, y : Overflow(x, y)) \/ lost' = lost
    BY Zenon DEF Next, LCB, RCB, LB, RB, COM, KY, PRI, engineVars
  <2>. QED
    BY <2>1, Zenon DEF Overflow
<1>2. qa' = qa
  BY Zenon DEF Next, LCB, RCB, LB, RB, COM, KY, PRI, engineVars
<1>3. (qa.steps)' = qa.steps
  BY <1>2
<1>4. CASE LCB \/ LB
  <2>1. Promise!ReadLCB \/ Promise!ReadLB
    BY <1>4, SameReading, Zenon DEF LCB, LB
  <2>2. Answers' = Answers
    BY <1>4, AnswersBegin
  <2>. QED
    BY <1>3, <2>1, <2>2, Zenon DEF Promise!PathNext, Promise!BeginObject, Promise!BeginArray
<1>5. CASE RCB
  <2>1. Promise!ReadRCB
    BY <1>5, SameReading, Zenon DEF RCB
  <2>2. Promise!Answer(path, open[Len(open)].from)
    BY <1>1, <1>5, AnswersRCB, SameAnswer
  <2>. QED
    BY <1>3, <2>1, <2>2, Zenon DEF Promise!PathNext, Promise!EndObject
<1>6. CASE RB
  <2>1. Promise!ReadRB
    BY <1>6, SameReading, Zenon DEF RB
  <2>2. Promise!Answer(Front(path), open[Len(open)].from)
    BY <1>1, <1>6, AnswersRB, SameAnswer
  <2>3. Front(path) = Promise!Front(path)
    BY DEF Front, Promise!Front
  <2>. QED
    BY <1>3, <2>1, <2>2, <2>3, Zenon DEF Promise!PathNext, Promise!EndArray
<1>7. CASE COM
  <2>1. Promise!ReadCOM
    BY <1>7, SameReading, Zenon DEF COM
  <2>2. Answers' = Answers
    BY <1>7 DEF COM, engineVars, Answers
  <2>. QED
    BY <1>3, <2>1, <2>2, Zenon DEF Promise!PathNext, Promise!Separator
<1>8. ASSUME NEW k \in Keys, KY(k) PROVE Promise!PathNext
  <2>1. Promise!ReadKY(k)
    BY <1>8, SameReading, Zenon DEF KY
  <2>2. Answers' = Answers
    BY <1>8 DEF KY, Answers
  <2>. QED
    BY <1>3, <2>1, <2>2, Zenon DEF Promise!PathNext, Promise!Member
<1>9. CASE PRI
  <2>1. Promise!ReadPRI
    BY <1>9, SameReading, Zenon DEF PRI
  <2>2. IF open = <<>> THEN Answers' = Answers ELSE Promise!Answer(path, pos')
    BY <1>1, <1>9, AnswersPRI, SameAnswer
  <2>. QED
    BY <1>3, <2>1, <2>2, Zenon DEF Promise!PathNext, Promise!Primitive
<1>. QED
  BY <1>4, <1>5, <1>6, <1>7, <1>8, <1>9 DEF Next

QueriesMean == \A q \in Queries : MeansSteps(q, q.steps, Keys \union {ARRAY})

(* The engine answers the query: over any text, with any table that means the
   steps it was compiled from, the tuples of the output states are, token after
   token and in order, the values whose path the steps select, until a push is
   dropped (executeAutomaton). *)
THEOREM EngineImplementsQuery == QueriesMean /\ Spec => ImplementsPathQuery
<1> SUFFICES ASSUME QueriesMean PROVE Spec => ImplementsPathQuery
  OBVIOUS
<1>1. Init => Promise!PathInit
  BY AnswersOfNone DEF Init, StreamInit, Promise!PathInit, Promise!StreamInit, Answers
<1>2. IInv /\ MatchKeepsStart /\ [Next]_vars
        => [lost' \/ Promise!PathNext]_(Promise!pathVars)
  <2> SUFFICES ASSUME IInv, MatchKeepsStart, [Next]_vars
               PROVE  [lost' \/ Promise!PathNext]_(Promise!pathVars)
    OBVIOUS
  <2>1. Meant
    BY EngineFacts DEF QueriesMean, Meant, IInv
  <2>2. CASE UNCHANGED vars
    BY <2>2 DEF vars, streamVars, engineVars, Promise!pathVars, Answers
  <2>. QED
    BY <2>1, <2>2, EngineAnswers
<1>. QED
  BY <1>1, <1>2, Inductive, StartsCorrect, PTL DEF Spec, ImplementsPathQuery
=============================================================================
