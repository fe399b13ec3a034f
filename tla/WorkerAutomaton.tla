-------------------------- MODULE WorkerAutomaton --------------------------
(***************************************************************************)
(* executeWorkerAutomaton (worker_automaton.c): one thread's run over its  *)
(* chunk, one action per token of the switch.  A worker other than 0 does  *)
(* not know in which state its chunk is entered: it starts from every      *)
(* state (MultiStack), closes a unit whenever the chunk leaves a container *)
(* it never saw opened, and leaves those closing symbols to the combiner.  *)
(*                                                                         *)
(* A place in a stream is the number of tokens up to it; the field base of *)
(* a worker counts the tokens before its stream, so that p - base is the   *)
(* offset the code computes from begin_stream.                             *)
(***************************************************************************)
EXTENDS MultiStack, TLC

VARIABLES qa,       \* the query automaton
          ct,       \* the constraint table: label -> states, or CLOSE
          text,     \* the tokens of the input stream
          worker    \* the automaton of every thread, by thread id

workerVars == <<qa, ct, text, worker>>

CLOSE == <<>>

(* initUnit leaves the state of a unit as it is: st is what the memory holds. *)
NewUnit(st) == [state |-> st, symbols |-> <<>>, start |-> INVALID, has_pruned |-> FALSE]

startStates(i) ==
  IF i = 0 THEN <<1>> ELSE [q \in 1 .. qa.n + 1 |-> q - 1]

NoTuples(states) == [r \in DOMAIN states |-> <<>>]

(* createWorkerAutomaton and the start of executeWorkerAutomaton over the
   tokens after base up to end. *)
StartWorker(i, base, end, st) ==
  [base |-> base, end |-> end, at |-> base,
   ss |-> <<>>, shadow_ss |-> "INVALID",
   levels |-> initQueryStacks(startStates(i)),
   out    |-> NoTuples(startStates(i)),
   unit |-> NewUnit(st), units |-> <<>>, finished |-> FALSE]

(***************************************************************************)
(* The lexer.  A bare literal needs a symbol or a blank behind it: at the  *)
(* end of its stream nextToken never delivers it.                          *)
(***************************************************************************)
Delivered(w, p) == p <= w.end /\ ~(p = w.end /\ text[p].bare)
TypeAt(w, p)    == IF Delivered(w, p) THEN text[p].type ELSE "END"

Reads(i, type) ==
  LET w == worker[i] IN
  /\ ~w.finished
  /\ TypeAt(w, w.at + 1) = type

(* Two tokens are peeked at through a copy of the lexer, which shares the
   buffer content: a literal or key among them replaces the current text. *)
ContentAt(w, p) == IF TypeAt(w, p + 2) \in {"KY", "PRI"} THEN p + 2 ELSE p

(* syntaxStackInference: what encloses the container or literal that ends
   with token p, judged by the next two tokens; nothing does if the first of
   them is one of outside. *)
syntaxStackInference(w, p, outside) ==
  LET first == TypeAt(w, p + 1) IN
  IF first = "RCB" \/ (first = "COM" /\ TypeAt(w, p + 2) = "KY") THEN "KY"
  ELSE IF first \in outside THEN "INVALID"
  ELSE "LB"

Infer(w, p, outside) ==
  [w EXCEPT !.shadow_ss = IF @ = "INVALID" THEN syntaxStackInference(w, p, outside) ELSE @]

(***************************************************************************)
(* Tuples and units.                                                       *)
(***************************************************************************)
Current(w) == Last(w.levels)

MapCurrent(w, F(_)) ==
  [w EXCEPT !.levels = Append(Front(@), [k \in DOMAIN Last(@) |-> F(Last(@)[k])])]

CountUp(node) == [node EXCEPT !.count = @ + 1]

Copies(t, n) == FlattenSeq([k \in 1 .. n |-> t])

(* addTupleInfo, addVirtualTupleInfo: what T gives for a node goes to the list
   of every root behind it; worker 0 has a single list. *)
AddTuples(i, w, level, T(_)) ==
  LET share(k, r) ==
        IF i = 0 THEN Copies(T(level[k]), Cardinality(RootsOf(level, k)))
        ELSE IF r \in RootsOf(level, k) THEN T(level[k])
        ELSE <<>>
  IN  [w EXCEPT !.out =
         [r \in DOMAIN @ |->
            @[r] \o FlattenSeq([k \in DOMAIN level |-> share(k, r)])]]

Tuple(q, kind, a, b) == [state |-> q, text |-> kind, from |-> a, to |-> b]
Mark(q, kind)        == Tuple(q, kind, 0, 0)

Candidate(i, node) ==
  \/ WorkerMatchedType(qa, node) = OUTPUT_CANDIDATE
  \/ i > 0 /\ WorkerMatchedType(qa, node) = UNSELECTED_CANDIDATE

(* A value that ends at token p: worker 0 copies its text, the others note
   the offsets in their stream. *)
Completes(i, node) == node.matched_start # INVALID /\ Candidate(i, node)

CompletedTuple(i, w, p, node) ==
  IF ~Completes(i, node) THEN <<>>
  ELSE IF i = 0
    THEN << Tuple(node.query_state, "value", w.base + node.matched_start, p) >>
    ELSE << Tuple(node.query_state, "virtual", node.matched_start, p - w.base) >>

Cleared(i, node) ==
  IF Completes(i, node) THEN [node EXCEPT !.matched_start = INVALID] ELSE node

PrimitiveTuple(i, p, node) ==
  IF Candidate(i, node) \/ WorkerMatchedType(qa, node) = CONDITION
    THEN << Tuple(node.query_state, "value", p, p) >> ELSE <<>>

MarkIf(types, kind, node) ==
  IF WorkerMatchedType(qa, node) \in types THEN << Mark(node.query_state, kind) >>
                                           ELSE <<>>

StartUnit(w, p) ==
  [w EXCEPT !.unit = IF @.state = "MATCHED" THEN @
                     ELSE [@ EXCEPT !.state = "MATCHED", !.start = p - w.base]]

(* addRoots, addEndPosition: a unit ends before offset e; only the roots have
   lists of tuples. *)
Closed(w, nodes, e) ==
  [state |-> w.unit.state, symbols |-> w.unit.symbols, start |-> w.unit.start,
   end |-> e,
   roots |-> [r \in DOMAIN nodes |->
                [query_state |-> nodes[r].query_state,
                 tuples |-> IF r \in DOMAIN w.out THEN w.out[r] ELSE <<>>]]]

(* A matched unit is closed and the automaton is reset. *)
CloseUnit(i, w, p) ==
  IF w.unit.state # "MATCHED" THEN w
  ELSE [w EXCEPT !.units = Append(@, Closed(w, FlattenSeq(w.levels), p - w.base)),
                 !.unit = NewUnit("MATCHED"),
                 !.ss = <<>>, !.shadow_ss = "INVALID",
                 !.levels = initQueryStacks(startStates(i)),
                 !.out = NoTuples(startStates(i))]

LastSymbolOnly(w, type, p) ==                                                \* fault
  [w EXCEPT !.unit.symbols = << [type |-> type, index |-> p - w.base] >>,
            !.unit.state = "UNMATCHED"]

addUnmatchedSymbol(w, type, p) ==
  [w EXCEPT !.unit.symbols = Append(@, [type |-> type, index |-> p - w.base]),
            !.unit.state = "UNMATCHED"]

(* Before the first label of a unit the roots a learned table excludes are
   dropped, with the lists of tuples they had. *)
Prune(i, w, label) ==
  LET states    == ct[label]
      survivors == Survivors(w.levels[1], states)
  IN  IF i = 0 \/ ct = CLOSE \/ w.unit.has_pruned THEN w
      ELSE [w EXCEPT !.unit.has_pruned = TRUE,
                     !.levels = IF states = {} THEN @ ELSE pruneQueryPaths(@, states),
                     !.out = IF states = {} THEN @
                             ELSE [k \in DOMAIN survivors |-> @[survivors[k]]]]

(***************************************************************************)
(* The cases of the switch.                                                *)
(***************************************************************************)
PopSyntax(w, n)  == [w EXCEPT !.ss = SubSeq(@, 1, Len(@) - n)]
PopLevels(w, n)  == IF n = 2 THEN [w EXCEPT !.levels = queryStacksPop(queryStacksPop(@))]
                             ELSE [w EXCEPT !.levels = queryStacksPop(@)]
SecondTop(w)     == IF Len(w.ss) > 1 THEN w.ss[Len(w.ss) - 1] ELSE "INVALID"

Becomes(i, w) == worker' = [worker EXCEPT ![i] = [w EXCEPT !.at = @ + 1]]

StartsMatch(i, p, base, node) ==
  IF Candidate(i, node) THEN [node EXCEPT !.matched_start = p - base] ELSE node

LCB(i) ==
  /\ Reads(i, "LCB")
  /\ LET p == worker[i].at + 1
         w == [StartUnit(worker[i], p) EXCEPT !.ss = Append(@, "LCB")]
         t(node) == MarkIf({PREDICATE}, "{", node) \o MarkIf({CONDITION}, "", node)
         start(node) == StartsMatch(i, p, w.base, node)
     IN  Becomes(i, MapCurrent(AddTuples(i, w, Current(w), t), start))
  /\ UNCHANGED <<qa, ct, text>>

(* An element of an array is complete. *)
EndElement(i, w, closing) ==
  LET t(node) == MarkIf(closing, "}", node) IN
  MapCurrent(AddTuples(i, PopSyntax(w, 1), Current(w), t), CountUp)

RCB(i) ==
  /\ Reads(i, "RCB")
  /\ LET p == worker[i].at + 1
         w == worker[i]
         t(node)     == CompletedTuple(i, w, p, node)
         clear(node) == Cleared(i, node)
         done == MapCurrent(AddTuples(i, w, Current(w), t), clear)
         only == Infer(done, p, {"LCB", "END"})
     IN  IF w.ss = <<>>
           THEN Becomes(i, addUnmatchedSymbol(CloseUnit(i, w, p), "RCB", p))
         ELSE IF Len(w.ss) = 1
           THEN IF only.shadow_ss = "INVALID"
                  THEN Becomes(i, PopSyntax(only, 1))
                ELSE IF only.shadow_ss = "KY"
                  THEN Becomes(i, addUnmatchedSymbol(CloseUnit(i, only, p), "OBJECT", p))
                  ELSE Becomes(i, EndElement(i, only, {PREDICATE, INCOMPLETE_INDEX}))
         ELSE IF SecondTop(w) = "KY"
           THEN Becomes(i, PopLevels(PopSyntax(done, 2), 1))
         ELSE IF SecondTop(w) = "LB"
           THEN Becomes(i, EndElement(i, done, {PREDICATE}))
           ELSE Becomes(i, done)
  /\ UNCHANGED <<qa, ct, text>>

(* '[' and a key lead every current state to its next one. *)
Descend(w, symbol, label) ==
  [w EXCEPT !.ss = Append(@, symbol), !.levels = queryStacksPush(qa, @, label)]

LB(i) ==
  /\ Reads(i, "LB")
  /\ LET p == worker[i].at + 1
         w == Prune(i, StartUnit(worker[i], p), ARRAY)
         t(node) == MarkIf({CONDITION}, "", node)
         start(node) == StartsMatch(i, p, w.base, node)
     IN  Becomes(i, Descend(MapCurrent(AddTuples(i, w, Current(w), t), start), "LB", ARRAY))
  /\ UNCHANGED <<qa, ct, text>>

(* ']': the arrays that end are the second level from the top. *)
RB(i) ==
  /\ Reads(i, "RB")
  /\ LET p == worker[i].at + 1
         w == worker[i]
         arrays == w.levels[Len(w.levels) - 1]
         t(node) == CompletedTuple(i, w, p, node) \o
                    (IF node.matched_start # INVALID
                       THEN MarkIf({INCOMPLETE_INDEX}, "]", node) ELSE <<>>)
         done == [AddTuples(i, w, arrays, t) EXCEPT !.levels[Len(w.levels) - 1] =
                    [k \in DOMAIN arrays |-> Cleared(i, arrays[k])]]
         only == Infer(done, p, {"LB", "END"})
         element(v) == MapCurrent(PopLevels(PopSyntax(v, 1), 1), CountUp)
     IN  IF w.ss = <<>>
           THEN Becomes(i, addUnmatchedSymbol(CloseUnit(i, w, p), "RB", p))
         ELSE IF Len(w.ss) = 1
           THEN IF only.shadow_ss = "INVALID"
                  THEN Becomes(i, PopLevels(PopSyntax(only, 1), 1))
                ELSE IF only.shadow_ss = "KY"
                  THEN Becomes(i, addUnmatchedSymbol(CloseUnit(i, only, p), "ARRAY", p))
                  ELSE Becomes(i, element(only))
         ELSE IF SecondTop(w) = "KY"
           THEN Becomes(i, PopLevels(PopSyntax(done, 2), 2))
         ELSE IF SecondTop(w) = "LB"
           THEN Becomes(i, element(done))
           ELSE Becomes(i, done)
  /\ UNCHANGED <<qa, ct, text>>

COM(i) ==
  /\ Reads(i, "COM")
  /\ Becomes(i, worker[i])
  /\ UNCHANGED <<qa, ct, text>>

KY(i) ==
  /\ Reads(i, "KY")
  /\ LET p == worker[i].at + 1
         k == text[p].key
         w == StartUnit(worker[i], p)
     IN  Becomes(i, Descend(IF Len(w.levels) = 1 THEN Prune(i, w, k) ELSE w, "KY", k))
  /\ UNCHANGED <<qa, ct, text>>

PRI(i) ==
  /\ Reads(i, "PRI")
  /\ LET p == worker[i].at + 1
         w == worker[i]
         only == Infer(w, p, {})
         content == IF w.shadow_ss = "INVALID" THEN ContentAt(w, p) ELSE p
         value(node)   == PrimitiveTuple(i, p, node)
         element(node) == PrimitiveTuple(i, content, node)
     IN  IF w.ss # <<>>
           THEN LET done == AddTuples(i, w, Current(w), value) IN
                IF Last(w.ss) = "KY" THEN Becomes(i, PopLevels(PopSyntax(done, 1), 1))
                ELSE IF Last(w.ss) = "LB" THEN Becomes(i, MapCurrent(done, CountUp))
                ELSE Becomes(i, done)
         ELSE IF only.shadow_ss = "KY"
           THEN Becomes(i, addUnmatchedSymbol(CloseUnit(i, only, p), "PRI", p))
           ELSE Becomes(i, MapCurrent(AddTuples(i, [only EXCEPT !.unit.state = "MATCHED"],
                                                Current(w), element), CountUp))
  /\ UNCHANGED <<qa, ct, text>>

(* END: the last unit is added with the roots of the stacks that remain. *)
Finish(i) ==
  /\ Reads(i, "END")
  /\ worker' = [worker EXCEPT ![i].units =
                  Append(@, Closed(worker[i], worker[i].levels[1],
                                   worker[i].end - worker[i].base + 1)),
                              ![i].finished = TRUE]
  /\ UNCHANGED <<qa, ct, text>>

(* One iteration of the loop of thread i. *)
Step(i) ==
  \/ LCB(i) \/ RCB(i) \/ LB(i) \/ RB(i) \/ COM(i) \/ KY(i) \/ PRI(i)
  \/ Finish(i)
=============================================================================
