---------------------------- MODULE PathProcessor ----------------------------
(***************************************************************************)
(* serialRun (path_processor.h): a file is read in pieces; the serial      *)
(* engine goes on over each piece with the stacks the piece before left,   *)
(* and the predicate filter goes on over the tuples of each piece.         *)
(*                                                                         *)
(* The engine is StreamingAutomaton's and counts tokens over the whole     *)
(* file; the positions the code keeps are relative to a piece.             *)
(*                                                                         *)
(*   starts   how many tokens of the file lie in front of each piece       *)
(*   log      (history) the tuples, with the text a condition has and the  *)
(*            elements around, as PredicateFilter describes them           *)
(*   read     (history) the tokens the text of each tuple was taken from   *)
(*   values   (history) the complete values at locations the query names   *)
(*   finish_flag, pstack, predicate_conditions, buffer, output             *)
(*            as in PredicateFilter                                        *)
(***************************************************************************)
EXTENDS StreamingAutomaton, PathSteps, FiniteSetsExt

CONSTANTS FinishFlags,      \* what finish_flag may hold, which nothing sets
          SpanningAnswers,  \* may a piece end within an answer
          MaxPieces         \* bound: the pieces of a file

ASSUME SpanningAssumption == SpanningAnswers \in BOOLEAN
ASSUME MaxPiecesAssumption == MaxPieces \in Nat \ {0}

VARIABLES finish_flag, starts, log, read, values,
          pstack, predicate_conditions, buffer, output

filterVars == <<pstack, predicate_conditions, buffer, output>>
runVars    == <<vars, finish_flag, starts, log, read, values, filterVars>>

base == Last(starts)

(* The "{" that have no "}" yet. *)
elements ==
  LET after[n \in 0 .. Len(log)] ==
        IF n = 0 THEN <<>>
        ELSE CASE log[n].mark = "{" -> Append(after[n-1], n)
               [] log[n].mark = "}" -> Front(after[n-1])
               [] OTHER             -> after[n-1]
  IN  after[Len(log)]

(* The tuples of the engine's list, which are the latest ones. *)
tuple_list == SubSeq(log, Len(log) - Len(tl) + 1, Len(log))

Filter == INSTANCE PredicateFilter WITH
  Queries   <- {[qa |-> q, ctx |-> q.ctx, texts |-> q.texts] : q \in Queries},
  MaxTuples <- MaxTokens,
  ctx       <- qa.ctx,
  texts     <- qa.texts,
  handed    <- Len(log) - Len(tl)

CONTAINER == [kind |-> "container", n |-> 0]

(***************************************************************************)
(* What the query says of a location.                                      *)
(***************************************************************************)
FilterSteps == {i \in DOMAIN qa.steps : qa.steps[i].axis = "filter"}

Prefix(p, i) == SubSeq(p, 1, i)

(* Every step in front of a filter spans one label. *)
IsElement(p, i)      == Len(p) = i /\ Selects(Prefix(qa.steps, i), p)
IsMember(p, i, name) == /\ Len(p) = i + 1
                        /\ IsElement(Front(p), i)
                        /\ Last(p).key = name
IsVariable(p) ==
  \E i \in FilterSteps : \E name \in qa.steps[i].names : IsMember(p, i, name)

Named(p) == \/ Selects(qa.steps, p)
            \/ IsVariable(p)
            \/ \E i \in FilterSteps : IsElement(p, i)

(***************************************************************************)
(* executeAutomaton, token after token.                                    *)
(***************************************************************************)
(* The text of a tuple is copied when it is complete, out of the piece that is
   in memory then, from the offset noted in the piece where it began. *)
PieceOf(n) == Max({b \in Range(starts) : b < n})

TextOf(t) == [from |-> PieceOf(t.to) + t.from - PieceOf(t.from), to |-> t.to]

(* At most one tuple is added per token. *)
Note(text) ==
  IF tl' = tl THEN UNCHANGED <<log, read>>
  ELSE LET t == Last(tl') IN
       /\ log' = Append(log,
            [state  |-> t.state,
             mark   |-> IF t.text \in {"{", "}"} THEN t.text ELSE "",
             text   |-> IF qa.accept[t.state] = CONDITION THEN text ELSE Filter!NULL,
             at     |-> Len(log) + 1,
             around |-> elements])
       /\ read' = Append(read, IF t.from = 0 THEN [from |-> 0, to |-> 0] ELSE TextOf(t))

Ends(p, a, text) ==
  /\ Note(text)
  /\ values' = IF Named(p)
                 THEN Append(values, [path |-> p, from |-> a, to |-> pos', text |-> text])
                 ELSE values

Begins == Note(CONTAINER) /\ UNCHANGED values

(* A piece ends in front of a quote. *)
BehindCut == pos = base /\ pos > 0

ReadToken ==
  /\ \/ ~BehindCut /\ (LCB \/ LB \/ COM) /\ Begins
     \/ ~BehindCut /\ RCB /\ Ends(path, Last(open).from, CONTAINER)
     \/ ~BehindCut /\ RB /\ Ends(Front(path), Last(open).from, CONTAINER)
     \/ \E k \in Keys : KY(k) /\ Begins
     \/ PRI /\ \E text \in IF IsVariable(path) THEN qa.texts \ {CONTAINER} ELSE {Filter!NULL} :
                 Ends(path, pos', text)
  /\ UNCHANGED <<finish_flag, starts, filterVars>>

(***************************************************************************)
(* serialPartialRun behind executeAutomaton, and the next piece.  The      *)
(* boundary loadBoundedInputStream looks for is a string behind ',', '{'   *)
(* or '['.                                                                 *)
(***************************************************************************)
AtBoundary ==
  \/ expect = "end"
  \/ expect \in {"first", "key"}
  \/ expect = "value" /\ open # <<>> /\ Innermost = "LB"

Pending == \E j \in 0 .. Len(qs) : Completes(Run(j))

CandidatesDropped ==                                                  \* fault
  [pstack |-> pstack, buffer |-> <<>>, output |-> output,
   predicate_conditions |-> predicate_conditions]

(* ci->pf, the filter as the piece before left it. *)
KeptFilter ==
  [pstack |-> pstack, buffer |-> buffer, output |-> output,
   predicate_conditions |-> predicate_conditions]

serialPartialRun ==
  /\ pos > base
  /\ AtBoundary
  /\ Pending => SpanningAnswers
  /\ Len(starts) <= MaxPieces
  /\ starts' = Append(starts, pos)
  /\ LET pf == Filter!generateFinalOutput(KeptFilter, tuple_list)
     IN  /\ pstack' = pf.pstack
         /\ predicate_conditions' = pf.predicate_conditions
         /\ buffer' = pf.buffer
         /\ output' = pf.output
  /\ tl' = IF finish_flag = Filter!INPROGRESS THEN <<>> ELSE tl
  /\ UNCHANGED <<streamVars, qa, ss, qs, cur, ct, lost, finish_flag, log, read, values>>

RunInit ==
  /\ Init
  /\ finish_flag \in FinishFlags
  /\ starts = <<0>>
  /\ log = <<>>
  /\ read = <<>>
  /\ values = <<>>
  /\ pstack = <<>>
  /\ predicate_conditions = [p \in Filter!Predicates |-> Filter!Cleared(p)]
  /\ buffer = <<>>
  /\ output = <<>>

RunNext == ReadToken \/ serialPartialRun

RunSpec == RunInit /\ [][RunNext]_runVars
-----------------------------------------------------------------------------
(***************************************************************************)
(* Properties.  The answers are told from the values of the text alone.    *)
(***************************************************************************)
Within(v, w) == w.from < v.from /\ v.to < w.to

(* The last value of a variable as a member of the element w. *)
MemberText(w, i, name) ==
  LET members == {n \in DOMAIN values : /\ Within(values[n], w)
                                        /\ IsMember(values[n].path, i, name)}
  IN  IF members = {} THEN Filter!NULL ELSE values[Max(members)].text

Satisfies(w, i) ==
  Filter!evaluateExpression(qa.steps[i].tree,
    [name \in qa.steps[i].names |-> MemberText(w, i, name)])

(* The element of the i-th step around v was complete when the filter last
   ran, and the step keeps it. *)
KeptBy(v, i) ==
  \E n \in DOMAIN values :
    LET w == values[n] IN
    w.path = Prefix(v.path, i) /\ Within(v, w) /\ w.to <= base /\ Satisfies(w, i)

IsAnswer(v) ==
  /\ v.to <= base
  /\ Selects(qa.steps, v.path)
  /\ \A i \in FilterSteps : KeptBy(v, i)

AnswersOf(vs) == LET answers == SelectSeq(vs, IsAnswer) IN
                 [n \in DOMAIN answers |-> [from |-> answers[n].from, to |-> answers[n].to]]

(* The output after every piece is, in order and each once, the text of the
   values the query selects and all of whose filtered elements are complete and
   satisfy their filter, wherever the pieces of the file end: the stacks, the
   marks, the buffered candidates and the values of conditions carry over. *)
OutputIsAnswers == [n \in DOMAIN output |-> read[output[n]]] = AnswersOf(values)

(* The tuples the engine produces are those PredicateFilter assumes, in an order
   it assumes, and both cut them into pieces alike: what the runs of
   PredicateFilter show of its tuples holds of those of the engine. *)
FeedsPredicateFilter == Filter!Spec
=============================================================================
