------------------------- MODULE StreamingAutomaton -------------------------
(***************************************************************************)
(* The serial engine: executeAutomaton (streaming_automaton.c) over the    *)
(* bounded stacks of stack.h, one action per token of the switch, with the *)
(* token delivered by JsonStream in the same step.                         *)
(*                                                                         *)
(*   qa    the query automaton            cur  *qs_elt, the current state  *)
(*   ss    the syntax stack               qs   the query stack             *)
(*   tl    the list of 2-tuples           ct   the constraint table        *)
(*   lost  (history) a push met a full stack and was dropped               *)
(***************************************************************************)
EXTENDS JsonStream, FiniteSets

CONSTANTS Queries,              \* the query automata a text may be run with
          MaxStack,             \* MAX_STACK
          DataConstraintFlag    \* the argument data_constraint_flag is OPEN

ASSUME QueriesAssumption == \A q \in Queries : IsQueryDFA(q)
ASSUME MaxStackAssumption == MaxStack \in Nat \ {0}
ASSUME FlagAssumption == DataConstraintFlag \in BOOLEAN

VARIABLES qa, ss, qs, cur, tl, ct, lost

engineVars == <<qa, ss, qs, cur, tl, ct, lost>>
vars == <<streamVars, engineVars>>

INVALID == -1

Element ==
  [query_state   : States(qa),
   count         : Nat,
   matched_start : Nat \union {INVALID}]

(* What a pop of an empty query stack leaves in *qs_elt. *)
NoElement ==
  [query_state : {INVALID}, count : Nat, matched_start : {INVALID}]

StartElement == [query_state |-> 1, count |-> 0, matched_start |-> INVALID]

(***************************************************************************)
(* stack.h: a push on a full stack does nothing, a pop of an empty query   *)
(* stack yields an element in state INVALID.                               *)
(***************************************************************************)
PushOneTooMany(s, x) == IF Len(s) <= MaxStack THEN Append(s, x) ELSE s  \* fault

Push(s, x) == IF Len(s) < MaxStack THEN Append(s, x) ELSE s

InvalidElement ==
  [query_state |-> INVALID, count |-> 0, matched_start |-> INVALID]

TopOr(s, none)       == IF s = <<>> THEN none ELSE Last(s)
Pop(s)               == IF s = <<>> THEN s ELSE Front(s)

SecondOfThree == IF Len(ss) > 2 THEN ss[Len(ss) - 1] ELSE "INVALID"  \* fault
TopForSecond  == TopOr(ss, "INVALID")                                 \* fault

syntaxStackSecondTop == IF Len(ss) > 1 THEN ss[Len(ss) - 1] ELSE "INVALID"

StateAndCountOnly(s) ==                                               \* fault
  [TopOr(s, InvalidElement) EXCEPT !.matched_start = INVALID]

queryStackTop(s) == TopOr(s, InvalidElement)

(***************************************************************************)
(* The slice test, the match and the tuples.                               *)
(***************************************************************************)
Matched(e) == MatchedType(qa, e.query_state, e.count)

CounterKept(label) ==                                                 \* fault
  [query_state   |-> Advance(qa, cur.query_state, cur.count, label),
   count         |-> cur.count,
   matched_start |-> INVALID]

(* The element a key or a '[' puts the engine in. *)
NextElement(label) ==
  [query_state   |-> Advance(qa, cur.query_state, cur.count, label),
   count         |-> 0,
   matched_start |-> INVALID]

increaseArrayCounter(e) == [e EXCEPT !.count = @ + 1]

(* The text of a tuple is "{" or "}" around an element under a predicate, ""
   for a container that is a condition, else an interval of tokens. *)
Tuple(q, text, a, b) == [state |-> q, text |-> text, from |-> a, to |-> b]
Mark(q, text)        == Tuple(q, text, 0, 0)
ValueTuple(q, a, b)  == Tuple(q, "value", a, b)

InSliceOnly(label) ==                                                 \* fault
  ct' = IF DataConstraintFlag
          THEN [ct EXCEPT ![label] = @ \union {cur.query_state}] ELSE ct

addConstraintInfo(label) ==
  ct' = IF DataConstraintFlag
          THEN [ct EXCEPT ![label] = @ \union {cur.query_state} \union
                  IF InSlice(qa.index[cur.query_state], cur.count) THEN {} ELSE {0}]
          ELSE ct

(***************************************************************************)
(* The cases of the switch.  A state INVALID indexes the tables of the     *)
(* query automaton out of bounds; the run is followed up to there.         *)
(***************************************************************************)
Defined == cur.query_state # INVALID

Overflow(s, x) == lost' = (lost \/ Len(s) = MaxStack \/ Len(x) = MaxStack)

LCB ==
  /\ Defined
  /\ ReadLCB
  /\ ss' = Push(ss, "LCB")
  /\ Overflow(ss, <<>>)
  /\ LET type == Matched(cur) IN
       /\ cur' = IF type = OUTPUT_CANDIDATE
                   THEN [cur EXCEPT !.matched_start = pos'] ELSE cur
       /\ tl' = IF type \in {PREDICATE, CONDITION}
                  THEN Append(tl, Mark(cur.query_state,
                                       IF type = PREDICATE THEN "{" ELSE ""))
                  ELSE tl
  /\ UNCHANGED <<qa, qs, ct>>

(* The value that starts at e.matched_start ends here. *)
Completes(e) == e.matched_start # INVALID /\ Matched(e) = OUTPUT_CANDIDATE

Completed(e) ==
  IF Completes(e) THEN <<ValueTuple(e.query_state, e.matched_start, pos')>>
                  ELSE <<>>

(* An object that was an element under a predicate is marked as complete. *)
MarkOfMember(e) ==                                                    \* fault
  IF syntaxStackSecondTop = "KY" /\ Matched(e) = PREDICATE
    THEN <<Mark(e.query_state, "}")>> ELSE <<>>

ElementMark(e) ==
  IF syntaxStackSecondTop = "LB" /\ Matched(increaseArrayCounter(e)) = PREDICATE
    THEN <<Mark(e.query_state, "}")>> ELSE <<>>

RCB ==
  /\ Defined
  /\ ReadRCB
  /\ LET e == IF Completes(cur) THEN [cur EXCEPT !.matched_start = INVALID]
                                ELSE cur
         val_obj_e == syntaxStackSecondTop = "KY"
         elt_obj_e == syntaxStackSecondTop = "LB"
     IN  /\ cur' = CASE val_obj_e -> queryStackTop(qs)
                     [] elt_obj_e -> increaseArrayCounter(e)
                     [] OTHER     -> e
         /\ qs' = IF val_obj_e THEN Pop(qs) ELSE qs
         /\ ss' = CASE val_obj_e -> Pop(Pop(ss))
                    [] elt_obj_e \/ Len(ss) = 1 -> Pop(ss)
                    [] OTHER     -> ss
         /\ tl' = tl \o Completed(cur) \o ElementMark(e)
  /\ UNCHANGED <<qa, ct, lost>>

(* '[': the tuple or the start of the match, the constraints, then ary_s. *)
LB ==
  /\ Defined
  /\ ReadLB
  /\ LET type == Matched(cur)
         e == IF type = OUTPUT_CANDIDATE
                THEN [cur EXCEPT !.matched_start = pos'] ELSE cur
     IN  /\ tl' = IF type = CONDITION
                    THEN Append(tl, Mark(cur.query_state, "")) ELSE tl
         /\ qs' = Push(qs, e)
  /\ addConstraintInfo(ARRAY)
  /\ ss' = Push(ss, "LB")
  /\ cur' = NextElement(ARRAY)
  /\ Overflow(ss, qs)
  /\ UNCHANGED qa

(* ']': the array's own element is on top of the query stack.  Its match is
   cleared in a copy only (top_qs_elt), which the pops ignore. *)
RB ==
  /\ Defined
  /\ ReadRB
  /\ IF ss = <<>>
       THEN UNCHANGED <<ss, qs, cur, tl>>
       ELSE LET top       == queryStackTop(qs)
                val_ary_e == syntaxStackSecondTop = "KY"
                elt_ary_e == syntaxStackSecondTop = "LB"
                ary_e     == Len(ss) = 1
            IN /\ tl' = IF Completes(top) THEN tl \o Completed(top) ELSE tl
               /\ cur' = CASE val_ary_e -> queryStackTop(Pop(qs))
                           [] elt_ary_e -> increaseArrayCounter(top)
                           [] ary_e     -> top
                           [] OTHER     -> cur
               /\ qs' = CASE val_ary_e          -> Pop(Pop(qs))
                          [] elt_ary_e \/ ary_e -> Pop(qs)
                          [] OTHER              -> qs
               /\ ss' = CASE val_ary_e          -> Pop(Pop(ss))
                          [] elt_ary_e \/ ary_e -> Pop(ss)
                          [] OTHER              -> ss
  /\ UNCHANGED <<qa, ct, lost>>

COM ==
  /\ Defined
  /\ ReadCOM
  /\ UNCHANGED engineVars

KY(k) ==
  /\ Defined
  /\ ReadKY(k)
  /\ addConstraintInfo(k)
  /\ ss' = Push(ss, "KY")
  /\ qs' = Push(qs, cur)
  /\ cur' = NextElement(k)
  /\ Overflow(ss, qs)
  /\ UNCHANGED <<qa, tl>>

PRI ==
  /\ Defined
  /\ ReadPRI
  /\ IF ss = <<>>
       THEN UNCHANGED <<ss, qs, cur, tl>>
       ELSE /\ tl' = IF Matched(cur) \in {OUTPUT_CANDIDATE, CONDITION}
                       THEN Append(tl, ValueTuple(cur.query_state, pos', pos'))
                       ELSE tl
            /\ cur' = CASE Last(ss) = "KY" -> queryStackTop(qs)
                        [] Last(ss) = "LB" -> increaseArrayCounter(cur)
                        [] OTHER           -> cur
            /\ IF Last(ss) = "KY"
                 THEN ss' = Pop(ss) /\ qs' = Pop(qs)
                 ELSE UNCHANGED <<ss, qs>>
  /\ UNCHANGED <<qa, ct, lost>>

(***************************************************************************)
(* initStreamingAutomaton, and the table executeAutomaton creates.         *)
(***************************************************************************)
Init ==
  /\ StreamInit
  /\ qa \in Queries
  /\ ss = <<>>
  /\ qs = <<>>
  /\ cur = StartElement
  /\ tl = <<>>
  /\ ct = [l \in Keys \union {ARRAY} |-> {}]
  /\ lost = FALSE

Next ==
  \/ LCB \/ RCB
  \/ LB  \/ RB
  \/ COM
  \/ \E k \in Keys : KY(k)
  \/ PRI

Spec == Init /\ [][Next]_vars
-----------------------------------------------------------------------------
(***************************************************************************)
(* Properties.                                                             *)
(***************************************************************************)
TupleType ==
  [state : States(qa), text : {"{", "}", "", "value"}, from : Nat, to : Nat]

(* The shape of the engine's state: two stacks within MAX_STACK whose
   elements, like the tuples and the constraints, hold states of the query
   automaton. *)
TypeOK ==
  /\ StreamTypeOK
  /\ qa \in Queries
  /\ ss \in Seq(Symbol) /\ Len(ss) <= MaxStack
  /\ qs \in Seq(Element) /\ Len(qs) <= MaxStack
  /\ cur \in Element \union NoElement
  /\ tl \in Seq(TupleType)
  /\ ct \in [Keys \union {ARRAY} -> SUBSET States(qa)]
  /\ lost \in BOOLEAN

(* The element the engine was in after the first j labels of the path: the
   query stack holds the run of the query automaton, cur its last element. *)
Run(j) == IF j < Len(qs) THEN qs[j + 1] ELSE cur

(* Unless a push was dropped, the syntax stack is the nesting of the text:
   the look at its second element that decides how much RCB and RB pop
   (lines 203-211, 266-275) never meets another container's symbol. *)
SyntaxMirrorsNesting ==
  ~lost => ss = [i \in DOMAIN open |-> open[i].sym]

(* Unless a push was dropped, every element on the query stack is the step
   of the query automaton from the element below it along the label of the
   path between them, and its counter is the index in that array: what key
   and ary_s save is what val_pmt, val_obj_e, val_ary_e, elt_ary_e restore,
   over any nesting of the text. *)
RunFollowsPath ==
  ~lost =>
    /\ Len(qs) = Len(path)
    /\ Run(0).query_state = 1 /\ Run(0).count = 0
    /\ \A j \in 1 .. Len(path) :
         /\ Run(j).query_state =
              Advance(qa, Run(j-1).query_state, Run(j-1).count, path[j].key)
         /\ Run(j).count = path[j].idx

(* A container that is an answer keeps its own start until it is closed,
   whatever is matched inside it and however often the element was saved and
   restored meanwhile (matched_start, lines 173, 191, 224, 254). *)
MatchKeepsStart ==
  ~lost =>
    \A i \in DOMAIN open :
      open[i].sym # "KY" /\ Matched(Run(open[i].depth)) = OUTPUT_CANDIDATE
        => Run(open[i].depth).matched_start = open[i].from

Marks(text, q) == {i \in DOMAIN tl : tl[i].text = text /\ tl[i].state = q}

OpenObjects(q) ==
  {i \in DOMAIN open : open[i].sym = "LCB" /\ Run(open[i].depth).query_state = q}

(* The "{" and "}" tuples of a predicate's state nest like the elements they
   stand for: generateFinalOutput (predicate.c) pushes on "{" and pops on "}"
   and has no other way to tell to which element a condition belongs. *)
PredicateMarksBalance ==
  ~lost =>
    \A q \in States(qa) : qa.accept[q] = PREDICATE =>
      Cardinality(Marks("{", q)) =
        Cardinality(Marks("}", q)) + Cardinality(OpenObjects(q))

(* With data_constraint_flag OPEN the table has, for every label read on the
   way to the current position, the state it was read in, and the dead state
   when it lay outside a slice: the states a worker may later rule out are
   states no label was read in. *)
ConstraintsCoverRun ==
  DataConstraintFlag /\ ~lost =>
    \A j \in 1 .. Len(path) :
      /\ Run(j-1).query_state \in ct[path[j].key]
      /\ ~InSlice(qa.index[Run(j-1).query_state], Run(j-1).count)
           => 0 \in ct[path[j].key]

(* Of the tuples only those of an output state are answers; a has the accept
   types. *)
WithAnswer(a, x, found) ==
  IF a[x.state] = OUTPUT_CANDIDATE
    THEN Append(found, [from |-> x.from, to |-> x.to]) ELSE found

AnswersIn(a, t) ==
  LET A[i \in 0 .. Len(t)] == IF i = 0 THEN <<>> ELSE WithAnswer(a, t[i], A[i-1])
  IN  A[Len(t)]

Answers == AnswersIn(qa.accept, tl)

Promise == INSTANCE PathQuery WITH steps <- qa.steps, answers <- Answers

(* Until a push is dropped the engine implements PathQuery: its output tuples
   are, after every token and in order, the values whose path matches the steps
   of the query. *)
ImplementsPathQuery ==
  Promise!PathInit /\ [][lost' \/ Promise!PathNext]_(Promise!pathVars)

(* Whatever the stacks lose, they lose it in a text that has MAX_STACK
   containers and keys open: 50 objects within each other are always safe. *)
LossNeedsDepth == [][~lost /\ lost' => Len(open) >= MaxStack]_vars
=============================================================================
