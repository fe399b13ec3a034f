------------------------------ MODULE PathSteps -----------------------------
(***************************************************************************)
(* The meaning of a path expression: which locations its steps select.     *)
(* The steps are those construct_dfa (dfa_builder.cpp) distinguishes, with *)
(* the meaning the README gives the operators:                             *)
(*   child   .name   desc   ..name  (any number of levels above the name)  *)
(*   wild    .*      deep   ..*     (one or more levels)                   *)
(*   all     [*]     slice  [lo:hi]      index   [n]                       *)
(*   filter  [?(e)]  with the variables of e; which elements e keeps is    *)
(*           not a matter of their location                                *)
(* A location is the sequence of labels from the root: the key of a member *)
(* or ARRAY with the index of an element.                                  *)
(***************************************************************************)
EXTENDS QueryDFA, Sequences

(* The labels one step may span at its last level. *)
Fits(step, label) ==
  CASE step.axis \in {"child", "desc"} -> label.key = step.name
    [] step.axis \in {"wild", "deep"}  -> TRUE
    [] step.axis \in {"all", "filter"} -> label.key = ARRAY
    [] step.axis = "index"             -> label.key = ARRAY /\ label.idx = step.at
    [] step.axis = "slice"             -> /\ label.key = ARRAY
                                          /\ step.lo <= label.idx
                                          /\ label.idx < step.hi

(* Given the levels above reached by the steps before, where in p a step may end:
   one that looks deep may skip labels before its own. *)
Onward(step, p, above) ==
  [j \in 0 .. Len(p) |->
     /\ j > 0
     /\ Fits(step, p[j])
     /\ \/ above[j-1]
        \/ step.axis \in {"desc", "deep"} /\ \E m \in 0 .. j - 2 : above[m]]

(* Reaches(s, p)[i][j]: the first i steps of s can be read along the first j
   labels of p. *)
Reaches(s, p) ==
  LET R[i \in 0 .. Len(s)] ==
        IF i = 0 THEN [j \in 0 .. Len(p) |-> j = 0]
                 ELSE Onward(s[i], p, R[i-1])
  IN  R

Selects(s, p) == Reaches(s, p)[Len(s)][Len(p)]
=============================================================================
