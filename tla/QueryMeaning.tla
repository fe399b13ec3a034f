---------------------------- MODULE QueryMeaning ----------------------------
(***************************************************************************)
(* When a query automaton means the steps of a path expression, in texts   *)
(* of every depth.  The table is read beside the steps: a position is      *)
(* which steps may have been read up to the last label (now) and which     *)
(* deep steps may still end below it (deep).                               *)
(***************************************************************************)
EXTENDS PathSteps

Axes == {"child", "desc", "wild", "deep", "all", "filter", "index", "slice"}

SkipsLevels(step) == step.axis \in {"desc", "deep"}

(* The key of a label alone; a slice is tested when its element is left. *)
FitsKey(step, key) ==
  CASE step.axis \in {"child", "desc"} -> key = step.name
    [] step.axis \in {"wild", "deep"}  -> TRUE
    [] OTHER                           -> key = ARRAY

Nowhere == [now |-> {}, deep |-> {}]
AtRoot  == [now |-> {0}, deep |-> {}]

(* The deep steps that may end below a position. *)
Waiting(s, at) ==
  at.deep \union {i \in 1 .. Len(s) : i - 1 \in at.now /\ SkipsLevels(s[i])}

(* The position after one more label. *)
ReadLabel(s, at, key) ==
  [now  |-> {i \in 1 .. Len(s) : /\ FitsKey(s[i], key)
                                 /\ i - 1 \in at.now \/ i \in Waiting(s, at)},
   deep |-> Waiting(s, at)]

NoSliceAt(qa, q) == qa.index[q] = [lower |-> 0, upper |-> 0]

(* A state tests the slice its steps have in common, and outside of it nothing
   goes on. *)
TestsSlice(qa, s, q, at) ==
  IF NoSliceAt(qa, q)
    THEN \A i \in at.now : i > 0 => s[i].axis \notin {"slice", "index"}
    ELSE /\ at.deep = {}
         /\ \A i \in at.now :
              /\ i > 0 /\ s[i].axis = "slice"
              /\ qa.index[q] = [lower |-> s[i].lo, upper |-> s[i].hi]

(* P has the pairs of a state and a position that labels lead to. *)
IsReading(qa, s, labels, P) ==
  /\ Len(s) \in Nat /\ \A i \in 1 .. Len(s) : s[i].axis \in Axes
  /\ <<1, AtRoot>> \in P /\ <<0, Nowhere>> \in P
  /\ \A x \in P :
       /\ TestsSlice(qa, s, x[1], x[2])
       /\ qa.accept[x[1]] = OUTPUT_CANDIDATE <=> Len(s) \in x[2].now
       /\ \A l \in labels :
            <<dfaNextStateByStr(qa, x[1], l), ReadLabel(s, x[2], l)>> \in P

(* A state has one position, and a shortest way to it passes no state twice. *)
Positions(qa, s, labels) ==
  LET Beyond(P) == {<<dfaNextStateByStr(qa, x[1], l), ReadLabel(s, x[2], l)>> :
                      x \in P, l \in labels}
      Upto[d \in 0 .. qa.n] ==
        IF d = 0 THEN {<<1, AtRoot>>, <<0, Nowhere>>}
                 ELSE LET P == Upto[d-1] IN P \union Beyond(P)
  IN  Upto[qa.n]

MeansSteps(qa, s, labels) == IsReading(qa, s, labels, Positions(qa, s, labels))
=============================================================================
