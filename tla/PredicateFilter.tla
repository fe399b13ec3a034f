-------------------------- MODULE PredicateFilter --------------------------
(***************************************************************************)
(* generateFinalOutput (predicate.c) over the 2-tuples the engine collects *)
(* from piece after piece of a file, as serialPartialRun and               *)
(* parallelPartialRun (path_processor.h) call it.                          *)
(*                                                                         *)
(* Of the engine only the tuples are kept: which ones can follow each      *)
(* other is read off the query automaton.  The text of a condition is what *)
(* stringToValue tells apart, the text of an answer its place in the log.  *)
(*                                                                         *)
(*   qa, ctx, texts  the query automaton, its JSONQueryDFAContext, and the *)
(*                   texts its conditions may have                         *)
(*   elements        the open elements under a predicate, by their "{"     *)
(*   tuple_list      the list handed to the filter at the end of a piece   *)
(*   log, handed     (history) all tuples, and how many the filter had     *)
(*   pstack, predicate_conditions, buffer, output    of PredicateFilter    *)
(***************************************************************************)
EXTENDS Integers, Sequences, SequencesExt, FiniteSets, FiniteSetsExt, QueryDFA

CONSTANTS Queries,      \* the records [qa, ctx, texts]
          FinishFlags,  \* what finish_flag may hold, which nothing sets
          MaxTuples     \* bound: the tuples of a file

INPROGRESS == 0
FINISH     == 1
ASSUME FlagAssumption == FinishFlags \subseteq {INPROGRESS, FINISH}
ASSUME MaxTuplesAssumption == MaxTuples \in Nat

VARIABLES qa, ctx, texts, finish_flag, elements, tuple_list, log, handed,
          pstack, predicate_conditions, buffer, output

queryVars  == <<qa, ctx, texts, finish_flag>>
filterVars == <<pstack, predicate_conditions, buffer, output>>
vars == <<queryVars, elements, tuple_list, log, handed, filterVars>>

NULL == [kind |-> "null", n |-> 0]

(***************************************************************************)
(* jsonpath_evaluator.h.                                                   *)
(***************************************************************************)
Value(type, v) == [vtype |-> type, v |-> v]
Boolean(b)     == Value("boolean", IF b THEN 1 ELSE 0)

(* The text of a container is empty, which counts as true; a minus sign is
   not a digit, so that a negative number is null like a missing member. *)
stringToValue(text) ==
  CASE text.kind \in {"true", "container"}     -> Boolean(TRUE)
    [] text.kind = "false"                     -> Boolean(FALSE)
    [] text.kind = "string"                    -> Value("string", text.n)
    [] text.kind = "number" /\ text.n >= 0     -> Value("number", text.n)
    [] OTHER                                   -> Value("null", 0)

computeTypeCast(v) ==
  CASE v.vtype = "null"   -> FALSE
    [] v.vtype = "string" -> TRUE
    [] OTHER              -> v.v # 0

(* The comparisons read the union as a double: null and false are zero bits,
   true and the address of a string the smallest positive numbers there are. *)
number(v) ==
  CASE v.vtype = "null"    -> 0
    [] v.vtype = "boolean" -> v.v
    [] v.vtype = "string"  -> 2
    [] v.vtype = "number"  -> 3 * v.v

computeUnaryOperator(opt, v) ==
  IF opt = "not" THEN Boolean(~computeTypeCast(v)) ELSE Value("null", 0)

computeBinaryOperator(opt, v1, v2) ==
  CASE opt = "or"      -> Boolean(computeTypeCast(v1) \/ computeTypeCast(v2))
    [] opt = "and"     -> Boolean(computeTypeCast(v1) /\ computeTypeCast(v2))
    [] opt = "equal"   -> Boolean(v1 = v2)
    [] opt = "neq"     -> Boolean(v1 # v2)
    [] opt = "less"    -> Boolean(number(v1) < number(v2))
    [] opt = "greater" -> Boolean(number(v1) > number(v2))
    [] opt = "leq"     -> Boolean(number(v1) <= number(v2))
    [] opt = "geq"     -> Boolean(number(v1) >= number(v2))

(* A syntax tree is the sequence of its nodes, every child in front of its
   parent; without a right child right is 0. *)
calculateExpression(tree, table) ==
  LET value[n \in DOMAIN tree] ==
        LET node == tree[n] IN
        CASE node.type = "variable" -> table[node.name]
          [] node.type = "number"   -> Value("number", node.n)
          [] node.type = "string"   -> Value("string", node.n)
          [] node.type = "operator" ->
               IF node.right = 0
                 THEN computeUnaryOperator(node.opt, value[node.left])
                 ELSE computeBinaryOperator(node.opt, value[node.left], value[node.right])
  IN  value[Len(tree)]

evaluateExpression(tree, pc) ==
  computeTypeCast(calculateExpression(tree, [name \in DOMAIN pc |-> stringToValue(pc[name])]))

(***************************************************************************)
(* One tuple of generateFinalOutput, on pf, the record of filterVars.      *)
(***************************************************************************)
PredicatesOf(a) == {p \in States(a) : a.accept[p] = PREDICATE}
Predicates == PredicatesOf(qa)

(* initPredicateFilter: every predicate's conditions, by name. *)
NamesIn(c, p) == {c.subtree[s][1].name : s \in c.mapping[p]}
conditions(p) == NamesIn(ctx, p)
Cleared(p)    == [name \in conditions(p) |-> NULL]

BeginElement(pf, t) ==
  [pf EXCEPT !.pstack = Append(@, [predicate_state |-> t.state,
                                   output_buffer_pointer |-> Len(pf.buffer)])]

(* At the end of an element its predicate is evaluated: if it fails the
   candidates inside are removed, else the outermost element releases them. *)
ReleasedEarly(pf) ==                                                  \* fault
  LET top   == Last(pf.pstack)
      p     == top.predicate_state
      holds == evaluateExpression(ctx.subtree[p], pf.predicate_conditions[p])
      first == top.output_buffer_pointer
  IN  [pf EXCEPT
         !.output = IF holds THEN @ \o SubSeq(pf.buffer, first + 1, Len(pf.buffer)) ELSE @,
         !.buffer = SubSeq(@, 1, first),
         !.predicate_conditions[p] = Cleared(p),
         !.pstack = Front(@)]

NeverRemoved(pf) ==                                                   \* fault
  LET top   == Last(pf.pstack)
      p     == top.predicate_state
      holds == evaluateExpression(ctx.subtree[p], pf.predicate_conditions[p])
      first == top.output_buffer_pointer
  IN  [pf EXCEPT
         !.output = IF holds /\ Len(pf.pstack) = 1
                      THEN @ \o SubSeq(pf.buffer, first + 1, Len(pf.buffer)) ELSE @,
         !.buffer = IF holds THEN @ ELSE SubSeq(@, 1, first),
         !.predicate_conditions[p] = Cleared(p),
         !.pstack = Front(@)]

EndElement(pf) ==
  LET top   == Last(pf.pstack)
      p     == top.predicate_state
      holds == evaluateExpression(ctx.subtree[p], pf.predicate_conditions[p])
      outer == Len(pf.pstack) = 1
      first == top.output_buffer_pointer
  IN  [pf EXCEPT
         !.output = IF holds /\ outer
                      THEN @ \o SubSeq(pf.buffer, first + 1, Len(pf.buffer)) ELSE @,
         !.buffer = IF holds /\ ~outer THEN @ ELSE SubSeq(@, 1, first),
         !.predicate_conditions[p] = Cleared(p),
         !.pstack = Front(@)]

(* A text inside an element is the value of a condition of the innermost
   predicate, or a candidate; outside any element it is dropped. *)
Names(c, p, q)    == q \in DOMAIN c.subtree /\ c.subtree[q][1].name \in NamesIn(c, p)
IsCondition(p, q) == Names(ctx, p, q)

ReadText(pf, t) ==
  IF pf.pstack = <<>> THEN pf
  ELSE LET p == Last(pf.pstack).predicate_state IN
    IF IsCondition(p, t.state)
      THEN [pf EXCEPT !.predicate_conditions[p][ctx.subtree[t.state][1].name] = t.text]
      ELSE [pf EXCEPT !.buffer = Append(@, t.at)]

filterTuple(pf, t) ==
  CASE t.mark = "{" -> BeginElement(pf, t)
    [] t.mark = "}" -> EndElement(pf)
    [] OTHER        -> ReadText(pf, t)

generateFinalOutput(pf, tl) ==
  LET after[n \in 0 .. Len(tl)] ==
        IF n = 0 THEN pf
        ELSE LET before == after[n-1] IN filterTuple(before, tl[n])
  IN  IF Predicates = {} THEN [pf EXCEPT !.output = @ \o [i \in DOMAIN tl |-> tl[i].at]]
                         ELSE after[Len(tl)]

(***************************************************************************)
(* The engine.                                                             *)
(***************************************************************************)
(* The states of automaton a in which tuples may come up inside an element in
   state q, and not inside another element of it. *)
Within(a, q) ==
  LET next(r) == {a.next[r][l] : l \in a.names \union {ARRAY, ANY_KEY}} \ {0}
      reach[n \in 1 .. a.n] ==
        IF n = 1 THEN next(q)
        ELSE LET before == reach[n-1] IN
             before \union UNION {next(r) : r \in before \ PredicatesOf(a)}
  IN  reach[a.n]

Current == IF elements = <<>> THEN 1 ELSE log[Last(elements)].state

AddTuple(q, mark, text) ==
  LET t == [state |-> q, mark |-> mark, text |-> text,
            at |-> Len(log) + 1, around |-> elements] IN
  /\ Len(log) < MaxTuples
  /\ tuple_list' = Append(tuple_list, t)
  /\ log' = Append(log, t)
  /\ UNCHANGED <<queryVars, handed, filterVars>>

ElementBegins ==
  \E q \in Within(qa, Current) \intersect Predicates :
    /\ AddTuple(q, "{", NULL)
    /\ elements' = Append(elements, Len(log'))

ElementEnds ==
  /\ elements # <<>>
  /\ AddTuple(Current, "}", NULL)
  /\ elements' = Front(elements)

TextFound ==
  \E q \in Within(qa, Current) :
    /\ \/ qa.accept[q] = OUTPUT_CANDIDATE /\ AddTuple(q, "", NULL)
       \/ qa.accept[q] = CONDITION /\ \E text \in texts : AddTuple(q, "", text)
    /\ UNCHANGED elements

(* The end of a piece: the filter goes on with what it kept of the pieces
   before.  destroyStreamingAutomaton replaces the list of tuples if
   finish_flag is INPROGRESS, else the next piece adds to it; ci->sa keeps the
   address of the list, which a new list of that size is given again. *)
EndPiece ==
  /\ tuple_list # <<>>
  /\ LET pf == generateFinalOutput(
                 [pstack |-> pstack, predicate_conditions |-> predicate_conditions,
                  buffer |-> buffer, output |-> output], tuple_list)
     IN  /\ pstack' = pf.pstack
         /\ predicate_conditions' = pf.predicate_conditions
         /\ buffer' = pf.buffer
         /\ output' = pf.output
  /\ handed' = Len(log)
  /\ tuple_list' = IF finish_flag = INPROGRESS THEN <<>> ELSE tuple_list
  /\ UNCHANGED <<queryVars, elements, log>>

Init ==
  /\ \E q \in Queries : qa = q.qa /\ ctx = q.ctx /\ texts = q.texts
  /\ finish_flag \in FinishFlags
  /\ elements = <<>>
  /\ tuple_list = <<>>
  /\ log = <<>>
  /\ handed = 0
  /\ pstack = <<>>
  /\ predicate_conditions = [p \in Predicates |-> Cleared(p)]
  /\ buffer = <<>>
  /\ output = <<>>

Next == ElementBegins \/ ElementEnds \/ TextFound \/ EndPiece

Spec == Init /\ [][Next]_vars
-----------------------------------------------------------------------------
(***************************************************************************)
(* What the filter needs of a query: a text is an answer or a condition by  *)
(* the element it is found in, with a filter only inside one; and predicate *)
(* states nest in an order, so that no element is inside one of its state.  *)
(***************************************************************************)
TellsTextsApart(q) ==
  /\ \A r \in Within(q.qa, 1) :
       /\ q.qa.accept[r] = OUTPUT_CANDIDATE => PredicatesOf(q.qa) = {}
       /\ q.qa.accept[r] = CONDITION => PredicatesOf(q.qa) # {}
  /\ \A p \in PredicatesOf(q.qa) : \A r \in Within(q.qa, p) :
       /\ q.qa.accept[r] = OUTPUT_CANDIDATE => ~Names(q.ctx, p, r)
       /\ q.qa.accept[r] = CONDITION => Names(q.ctx, p, r)

NestsInOrder(q) ==
  \E level \in [PredicatesOf(q.qa) -> 0 .. q.qa.n] :
    \A p \in PredicatesOf(q.qa) : \A r \in Within(q.qa, p) \intersect PredicatesOf(q.qa) :
      level[p] < level[r]
-----------------------------------------------------------------------------
(***************************************************************************)
(* Properties.  What a filter promises is said on the log alone, in which   *)
(* every tuple knows the elements around it.                               *)
(***************************************************************************)
Ended == {Last(log[n].around) : n \in {m \in 1 .. handed : log[m].mark = "}"}}

(* The last value a condition had as a member of the very element o. *)
ValueIn(o, name) ==
  LET values == {n \in o + 1 .. handed :
                   /\ log[n].mark = "" /\ log[n].around # <<>> /\ Last(log[n].around) = o
                   /\ IsCondition(log[o].state, log[n].state)
                   /\ ctx.subtree[log[n].state][1].name = name}
  IN  IF values = {} THEN NULL ELSE log[Max(values)].text

Satisfies(o) ==
  LET p == log[o].state IN
  evaluateExpression(ctx.subtree[p], [name \in conditions(p) |-> ValueIn(o, name)])

IsAnswer(n) ==
  /\ log[n].mark = "" /\ qa.accept[log[n].state] = OUTPUT_CANDIDATE
  /\ \A i \in DOMAIN log[n].around :
       log[n].around[i] \in Ended /\ Satisfies(log[n].around[i])

(* The output is, in order and each once, the answers whose elements are
   complete and all satisfy their predicate with the values of their own
   members: whether a condition comes before or behind the answer, whether the
   element around fails after the inner one held, and however the file is cut
   into pieces. *)
KeepsSatisfyingElements ==
  /\ {output[i] : i \in DOMAIN output} = {n \in 1 .. handed : IsAnswer(n)}
  /\ \A i, j \in DOMAIN output : i < j => output[i] < output[j]

(* Between two outermost elements the filter holds nothing back: no candidate
   waits in the buffer for an element that cannot end any more, and no value of
   a condition is left for the next element. *)
NothingLeftBehind ==
  pstack = <<>> =>
    /\ buffer = <<>>
    /\ \A p \in Predicates : predicate_conditions[p] = Cleared(p)
=============================================================================
