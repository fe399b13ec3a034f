----------------------------- MODULE DfaBuilder -----------------------------
(***************************************************************************)
(* How a path expression becomes a query automaton: buildJSONQueryDFA of   *)
(* dfa_builder.cpp with the regex library it drives (regex_model.cpp,      *)
(* regex_builder.cpp, dfa_mixer.cpp).                                      *)
(*                                                                         *)
(* The steps of the expression are turned into a list of regexes over the  *)
(* labels of a location: one for the answers, one for each filter and one  *)
(* for each variable of a filter (phase "construct").  Their automata run  *)
(* side by side; the mixed states are numbered as they are found (phase    *)
(* "mix").  Then the table, the accept types and the context of the filter *)
(* are filled in (phase "done").                                           *)
(***************************************************************************)
EXTENDS QueryMeaning, Integers, FiniteSets, SequencesExt

CONSTANTS Queries,    \* the path expressions, as sequences of steps
          MaxDepth    \* bound of the properties: the deepest location looked at

VARIABLES query,      \* the path expression
          phase,      \* "construct", "mix" or "done"
          at,         \* the step construct_dfa visits next
          ctx,        \* the StackContext
          statelist,  \* the mixed states: for each regex the items it may be at
          stops,      \* for each mixed state the regex it accepts, 0 for none
          edges,      \* the transitions found so far, state by state, column by column
          dfa,        \* the query automaton with its stop states
          context     \* what the predicate filter learns of the states

vars == <<query, phase, at, ctx, statelist, stops, edges, dfa, context>>

-----------------------------------------------------------------------------
(* The StackContext. *)

NoRange == [lower |-> 0, upper |-> 0]

push(c, elements) ==
  [c EXCEPT !.st = @ \o elements,
            !.last_st_generated = IF elements = <<>> THEN @ ELSE FALSE]

(* What a step pushes; any other bracket than a slice, [*] or a filter (an
   index, a list of indices) pushes nothing. *)
Pushed(step) ==
  CASE step.axis = "index"  -> <<>>
    [] step.axis = "filter" -> <<[axis |-> "all"]>>
    [] OTHER                -> <<step>>

Named(elements) ==
  LET names == SelectSeq(elements, LAMBDA e : e.axis \in {"child", "desc"})
  IN  [i \in DOMAIN names |-> names[i].name]

LevelBetween(element) ==                                              \* fault
  LET one(label) == [label |-> label, opt |-> ""]
      any(opt)   == [label |-> "^", opt |-> opt]
  IN  CASE element.axis = "wild"  -> <<any("")>>
        [] element.axis = "deep"  -> <<any("+")>>
        [] element.axis = "child" -> <<one(element.name)>>
        [] element.axis = "desc"  -> <<any("+"), one(element.name)>>
        [] OTHER                  -> <<one(ARRAY)>>

(* The items of the regex of a path: a label or any label ("^"), once, any
   number of times ("*") or at least once ("+"). *)
Items(element) ==
  LET one(label) == [label |-> label, opt |-> ""]
      any(opt)   == [label |-> "^", opt |-> opt]
  IN  CASE element.axis = "wild"  -> <<any("")>>
        [] element.axis = "deep"  -> <<any("+")>>
        [] element.axis = "child" -> <<one(element.name)>>
        [] element.axis = "desc"  -> <<any("*"), one(element.name)>>
        [] OTHER                  -> <<one(ARRAY)>>

(* A path gets one regex, however often it occurs: the second time nothing
   changes, not even what is remembered as generated last. *)
create_dfa(c, in_predicate) ==
  IF c.st \in c.check
    THEN c
    ELSE [c EXCEPT
           !.check = @ \union {c.st},
           !.last_st_generated = TRUE,
           !.input_mapping = FoldLeft(LAMBDA m, n : IF Contains(m, n) THEN m ELSE Append(m, n),
                                      @, Named(c.st)),
           !.model = Append(@, [items   |-> FlattenSeq([i \in DOMAIN c.st |-> Items(c.st[i])]),
                                range   |-> NoRange,
                                tree    |-> <<>>,
                                mapping |-> <<>>]),
           !.last_id_generated = IF in_predicate THEN @ ELSE Len(c.model) + 1]

RepeatedVariable(c, variable) ==                                      \* fault
  LET below  == [i \in DOMAIN variable |-> [axis |-> "child", name |-> variable[i]]]
      made   == create_dfa(push(c, below), TRUE)
      id     == Len(made.model)
  IN  [made EXCEPT !.st = c.st,
                   !.model[c.state_handle_now].mapping = Append(@, id),
                   !.model[id].tree = <<variable>>]

(* One variable of a filter, a sequence of member names below the element. *)
construct_variable(c, variable) ==
  LET below  == [i \in DOMAIN variable |-> [axis |-> "child", name |-> variable[i]]]
      there  == push(c, below)
      ignore == there.st \in there.check
      made   == create_dfa(there, TRUE)
      id     == Len(made.model)
  IN  IF ignore
        THEN [made EXCEPT !.st = c.st]
        ELSE [made EXCEPT !.st = c.st,
                          !.model[c.state_handle_now].mapping = Append(@, id),
                          !.model[id].tree = <<variable>>]

construct_filter(c, variables) == FoldLeft(construct_variable, c, variables)

-----------------------------------------------------------------------------
(* The regexes: item 0 is the beginning, a state is a set of items. *)

Nullable(item) == item.opt = "*"

Repeats(item) == item.opt \in {"*", "+"}

SuccessorOnly(items, i) ==                                            \* fault
  {j \in DOMAIN items : j = i + 1 \/ (j = i /\ Repeats(items[j]))}

(* The items that may follow item i of a list: itself when it repeats, and
   those reached by leaving out nullable ones. *)
followpos(items, i) ==
  {j \in DOMAIN items :
     \/ j = i /\ Repeats(items[j])
     \/ j > i /\ \A k \in i + 1 .. j - 1 : Nullable(items[k])}

isEdge(item, label) == item.label \in {"^", label}

IsTerminator(items, i) ==
  i > 0 /\ \A k \in i + 1 .. Len(items) : Nullable(items[k])

GetNextSet(items, now, label) ==
  {j \in UNION {followpos(items, i) : i \in now} : isEdge(items[j], label)}

-----------------------------------------------------------------------------
(* The mixer. *)

Columns == <<ANY_KEY, ARRAY>> \o ctx.input_mapping

AcceptedRegexes(model, state) ==
  {r \in DOMAIN model : \E i \in state[r] : IsTerminator(model[r].items, i)}

(* addStopState: of the regexes a mixed state accepts the last one counts. *)
StopState(model, state) ==
  LET accepted == AcceptedRegexes(model, state)
  IN  IF accepted = {} THEN 0 ELSE CHOOSE r \in accepted : \A o \in accepted : o <= r

nextState(i, label) ==
  edges[(i - 1) * Len(Columns) + (CHOOSE c \in DOMAIN Columns : Columns[c] = label)]

-----------------------------------------------------------------------------
(* The table, the accept types and the context. *)

IsSliced(s) == s # 0 /\ ctx.model[s].range # NoRange

AcceptType(i) ==
  IF stops[i] = 0 THEN NO_MATCH
  ELSE IF stops[i] = ctx.last_id_generated THEN OUTPUT_CANDIDATE
  ELSE IF IsSliced(stops[i]) THEN NO_MATCH
  ELSE IF \E j \in DOMAIN stops : nextState(j, ARRAY) = i THEN PREDICATE
  ELSE CONDITION

TableOf ==
  LET n      == Len(statelist)
      labels == ToSet(Columns)
  IN  [n      |-> n,
       names  |-> ToSet(ctx.input_mapping),
       next   |-> [i \in 0 .. n |-> [l \in labels |-> IF i = 0 THEN 0 ELSE nextState(i, l)]],
       accept |-> [i \in 0 .. n |-> IF i = 0 THEN NO_MATCH ELSE AcceptType(i)],
       index  |-> [i \in 0 .. n |-> IF i > 0 /\ IsSliced(stops[i])
                                      THEN ctx.model[stops[i]].range ELSE NoRange],
       stop   |-> [i \in 0 .. n |-> IF i > 0 /\ AcceptType(i) # NO_MATCH
                                      THEN stops[i] ELSE 0]]

(* The first mixed state that accepts a regex. *)
acc_id2state(acc) ==
  LET found == {i \in DOMAIN stops : stops[i] = acc}
  IN  IF found = {} THEN -1 ELSE CHOOSE i \in found : \A o \in found : i <= o

ContextOf(table) ==
  [subtrees |-> [i \in 0 .. table.n |->
                   IF table.stop[i] = 0 THEN <<>> ELSE ctx.model[table.stop[i]].tree],
   states_mapping |-> [i \in 0 .. table.n |->
                   IF table.stop[i] = 0 THEN {}
                   ELSE {acc_id2state(acc) : acc \in ToSet(ctx.model[table.stop[i]].mapping)}],
   array_predicate_states |-> {i \in 0 .. table.n : table.accept[i] = PREDICATE}]

-----------------------------------------------------------------------------
(* The flags the StackContext leaves unset are read only after a step pushed
   something, which sets last_st_generated, and after a regex was made. *)
Init ==
  /\ query \in Queries
  /\ phase = "construct"
  /\ at = 1
  /\ ctx = [st |-> <<>>, input_mapping |-> <<>>, check |-> {}, model |-> <<>>,
            state_handle_now |-> 0, last_id_generated |-> 0, last_st_generated |-> FALSE]
  /\ statelist = <<>> /\ stops = <<>> /\ edges = <<>>
  /\ dfa = <<>> /\ context = <<>>

Visits(axes) ==
  /\ phase = "construct"
  /\ at <= Len(query)
  /\ query[at].axis \in axes
  /\ at' = at + 1
  /\ UNCHANGED <<query, phase, statelist, stops, edges, dfa, context>>

\* .name  .*  ..name  ..*  [*]  [n]
VisitPlain ==
  /\ Visits({"child", "desc", "wild", "deep", "all", "index"})
  /\ ctx' = push(ctx, Pushed(query[at]))

\* [lo:hi]
VisitRange ==
  /\ Visits({"slice"})
  /\ LET made == create_dfa(push(ctx, Pushed(query[at])), FALSE)
     IN  ctx' = [made EXCEPT !.model[Len(made.model)].range =
                               [lower |-> query[at].lo, upper |-> query[at].hi]]

\* [?(e)]
VisitFilter ==
  /\ Visits({"filter"})
  /\ LET made   == create_dfa(push(ctx, Pushed(query[at])), FALSE)
         handle == Len(made.model)
     IN  ctx' = construct_filter([made EXCEPT !.state_handle_now = handle,
                                              !.model[handle].mapping = <<>>,
                                              !.model[handle].tree = query[at].variables],
                                 query[at].variables)

(* The whole path gets its regex, unless the last step made one; every regex
   starts at its beginning. *)
FinishPath ==
  /\ phase = "construct"
  /\ at > Len(query)
  /\ LET c     == IF ctx.last_st_generated THEN ctx ELSE create_dfa(ctx, FALSE)
         begin == [r \in DOMAIN c.model |-> {0}]
     IN  /\ ctx' = c
         /\ statelist' = <<begin>>
         /\ stops' = <<StopState(c.model, begin)>>
  /\ phase' = "mix"
  /\ UNCHANGED <<query, at, edges, dfa, context>>

(* CombineSpecial: where the next label leads from the next state; a mixed
   state not seen before gets the next number. *)
MixEdge ==
  /\ phase = "mix"
  /\ Len(edges) < Len(statelist) * Len(Columns)
  /\ LET now   == statelist[(Len(edges) \div Len(Columns)) + 1]
         label == Columns[(Len(edges) % Len(Columns)) + 1]
         state == [r \in DOMAIN ctx.model |-> GetNextSet(ctx.model[r].items, now[r], label)]
         known == {i \in DOMAIN statelist : statelist[i] = state}
     IN  IF \A r \in DOMAIN state : state[r] = {}
           THEN /\ edges' = Append(edges, 0)
                /\ UNCHANGED <<statelist, stops>>
           ELSE IF known # {}
           THEN /\ edges' = Append(edges, CHOOSE i \in known : TRUE)
                /\ UNCHANGED <<statelist, stops>>
           ELSE /\ statelist' = Append(statelist, state)
                /\ stops' = Append(stops, StopState(ctx.model, state))
                /\ edges' = Append(edges, Len(statelist) + 1)
  /\ UNCHANGED <<query, phase, at, ctx, dfa, context>>

FillTable ==
  /\ phase = "mix"
  /\ Len(edges) = Len(statelist) * Len(Columns)
  /\ dfa' = TableOf
  /\ context' = ContextOf(TableOf)
  /\ phase' = "done"
  /\ UNCHANGED <<query, at, ctx, statelist, stops, edges>>

Next == VisitPlain \/ VisitRange \/ VisitFilter \/ FinishPath \/ MixEdge \/ FillTable

Spec == Init /\ [][Next]_vars

-----------------------------------------------------------------------------
(* The engine's run along a location. *)

Labels ==
  {[key |-> n, idx |-> 0] : n \in dfa.names \union {ANY_KEY}} \union
  {[key |-> ARRAY, idx |-> i] : i \in 0 .. 2}

Locations == SeqOf(Labels, MaxDepth)

Counter(p) == IF p = <<>> THEN 0 ELSE p[Len(p)].idx

StateAt(p) ==
  LET Q[j \in 0 .. Len(p)] ==
        IF j = 0 THEN 1
        ELSE LET before == Q[j - 1]
             IN  Advance(dfa, before, Counter(SubSeq(p, 1, j - 1)), p[j].key)
  IN  Q[Len(p)]

TypeAt(p) == MatchedType(dfa, StateAt(p), Counter(p))

(* Whatever the expression, a run of the automaton along a location ends in
   an output state exactly when the steps select the location: regexes of
   filters that share states with the answers' regex take no answer away, and
   no step is lost on the way from expression to table. *)
OutputsSelectedPaths ==
  phase = "done" =>
    \A p \in Locations : TypeAt(p) = OUTPUT_CANDIDATE <=> Selects(query, p)

(* The same at every depth: the table can be read beside the steps. *)
TableMeansSteps == phase = "done" => MeansSteps(dfa, query, ToSet(Columns))

Filters == {f \in DOMAIN query : query[f].axis = "filter"}

Below(p, variable) == p \o [i \in DOMAIN variable |-> [key |-> variable[i], idx |-> 0]]

(* The predicate filter can do its work: exactly the elements a filter step
   reaches are in a predicate state with that filter's expression, and below
   such an element each variable of the expression is read in a condition
   state of that variable, which the element's state knows by number. *)
FiltersFindConditions ==
  phase = "done" =>
    \A p \in Locations :
      LET q     == StateAt(p)
          meant == {f \in Filters : Selects(SubSeq(query, 1, f), p)}
      IN  /\ dfa.accept[q] = PREDICATE <=> meant # {}
          /\ q \in context.array_predicate_states <=> meant # {}
          /\ \A f \in meant :
               LET variables == ToSet(query[f].variables)
                   read(v)   == StateAt(Below(p, v))
               IN  /\ context.subtrees[q] = query[f].variables
                   /\ context.states_mapping[q] = {read(v) : v \in variables}
                   /\ \A v \in variables : /\ dfa.accept[read(v)] = CONDITION
                                           /\ context.subtrees[read(v)] = <<v>>
=============================================================================
