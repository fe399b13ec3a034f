----------------------------- MODULE PathQuery ------------------------------
(***************************************************************************)
(* What a JSONPath query promises, without automaton or stack: the answers *)
(* are the values whose path from the root matches the steps of the path   *)
(* expression, in the order in which the values end.                       *)
(***************************************************************************)
EXTENDS JsonStream, PathSteps

VARIABLES steps,     \* the steps of the query
          answers    \* the answers so far, as intervals of tokens

pathVars == <<open, path, expect, pos, steps, answers>>

(* A value at location p that began with token a ends with the current one;
   a text that is a lone primitive has no answer. *)
Answer(p, a) ==
  answers' = IF Selects(steps, p) THEN Append(answers, [from |-> a, to |-> pos'])
                                  ELSE answers

PathInit ==
  /\ StreamInit
  /\ answers = <<>>

BeginObject == ReadLCB /\ UNCHANGED answers
BeginArray  == ReadLB  /\ UNCHANGED answers
Member(k)   == ReadKY(k) /\ UNCHANGED answers
Separator   == ReadCOM /\ UNCHANGED answers
EndObject   == ReadRCB /\ Answer(path, open[Len(open)].from)
EndArray    == ReadRB  /\ Answer(Front(path), open[Len(open)].from)
Primitive   == /\ ReadPRI
               /\ IF open = <<>> THEN UNCHANGED answers ELSE Answer(path, pos')

PathNext ==
  /\ UNCHANGED steps
  /\ \/ BeginObject \/ EndObject
     \/ BeginArray \/ EndArray
     \/ Separator
     \/ \E k \in Keys : Member(k)
     \/ Primitive

PathSpec == PathInit /\ [][PathNext]_pathVars
=============================================================================
