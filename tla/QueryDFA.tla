------------------------------ MODULE QueryDFA ------------------------------
(***************************************************************************)
(* The query automaton a JSONPath expression is compiled to (dfa.h).       *)
(*                                                                         *)
(* A query automaton is a record                                           *)
(*   n       number of live states; state 0 is the dead state, the run     *)
(*           starts in state 1                                             *)
(*   names   the key names that have a column of their own                 *)
(*   next    the transition table, next[q][label]                          *)
(*   accept  the accept type of every state                                *)
(*   index   the array slice lower..upper-1 a state carries                *)
(*   steps   the path expression the table was built from; the engine      *)
(*           never reads it, only the abstract specification does          *)
(***************************************************************************)
EXTENDS Integers

ARRAY == "[]"                 \* column 2, the input of an array's '['
ANY_KEY == "*"                \* column 1, any key without a column

NO_MATCH         == 0         \* accept types
OUTPUT_CANDIDATE == 1
CONDITION        == 2
PREDICATE        == 3

States(qa) == 0 .. qa.n

(* What create_dfa establishes of the accept types: the last label of a filter's
   regex is the array's, so no key leads to a predicate, nor does the run start
   in one. *)
PredicatesAreElements(qa) ==
  /\ qa.accept[1] # PREDICATE
  /\ \A q \in States(qa), l \in qa.names \union {ANY_KEY} :
       qa.accept[qa.next[q][l]] # PREDICATE

(* What createJSONQueryDFA and the table copy of create_dfa establish: the
   table is total, and nothing leaves or is accepted in the dead state. *)
IsQueryDFA(qa) ==
  /\ qa.n \in Nat \ {0}
  /\ ARRAY \notin qa.names /\ ANY_KEY \notin qa.names
  /\ qa.next \in [States(qa) -> [qa.names \union {ARRAY, ANY_KEY} -> States(qa)]]
  /\ qa.accept \in [States(qa) -> NO_MATCH .. PREDICATE]
  /\ qa.index \in [States(qa) -> [lower : Int, upper : Int]]
  /\ \A l \in qa.names \union {ARRAY, ANY_KEY} : qa.next[0][l] = 0
  /\ qa.accept[0] = NO_MATCH
  /\ qa.index[0] = [lower |-> 0, upper |-> 0]
  /\ PredicatesAreElements(qa)

(* A key without a live edge of its own in state q takes the column "other";
   the input NULL is the array column. *)
dfaNextStateByStr(qa, q, label) ==
  IF label = ARRAY \/ (label \in qa.names /\ qa.next[q][label] # 0)
    THEN qa.next[q][label]
    ELSE qa.next[q][ANY_KEY]

UpperIncluded(pair, count) ==                                         \* fault
  \/ pair.lower = 0 /\ pair.upper = 0
  \/ pair.lower <= count /\ count <= pair.upper

(* The slice test that LB, KY and getMatchedType repeat: a pair 0, 0 stands
   for "no slice". *)
InSlice(pair, count) ==
  \/ pair.lower = 0 /\ pair.upper = 0
  \/ pair.lower <= count /\ count < pair.upper

(* getMatchedType: only an output candidate is subject to the slice test. *)
MatchedType(qa, q, count) ==
  IF qa.accept[q] = OUTPUT_CANDIDATE /\ ~InSlice(qa.index[q], count)
    THEN NO_MATCH
    ELSE qa.accept[q]

(* The state after a label read in state q with the array counter at count:
   an element outside the slice of q leads to the dead state. *)
Advance(qa, q, count, label) ==
  IF InSlice(qa.index[q], count) THEN dfaNextStateByStr(qa, q, label) ELSE 0
=============================================================================
