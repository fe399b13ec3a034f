--------------------------- MODULE MCPathProcessor ---------------------------
(***************************************************************************)
(* The queries serialRun is checked with.  Automaton and context are those *)
(* buildJSONQueryDFA prints for the path expression named beside them.     *)
(***************************************************************************)
EXTENDS PathProcessor, QueryTables

True     == [kind |-> "true", n |-> 0]
Null     == [kind |-> "null", n |-> 0]
Number5  == [kind |-> "number", n |-> 5]
Number20 == [kind |-> "number", n |-> 20]

Variable(name)      == [type |-> "variable", name |-> name]
Number(n)           == [type |-> "number", n |-> n]
Operator(opt, l, r) == [type |-> "operator", opt |-> opt, left |-> l, right |-> r]

Filtered(names, tree) == [axis |-> "filter", names |-> names, tree |-> tree]

Query(automaton, steps, ctx, texts) ==
  [automaton EXCEPT !.steps = steps] @@ ("ctx" :> ctx) @@ ("texts" :> texts)

NoContext == [subtree |-> <<>>, mapping |-> <<>>]

Less10 == <<Variable("b"), Number(10), Operator("less", 1, 2)>>
IsB    == <<Variable("b")>>
NotB   == <<Variable("b"), Operator("not", 1, 0)>>

\* $[?(@.b < 10)].c
Compared ==
  Query(ElementFilter,
        <<Filtered({"b"}, Less10), Child("c")>>,
        [subtree |-> 2 :> Less10 @@ 3 :> IsB, mapping |-> 2 :> {3}],
        {Number5, Number20, CONTAINER})

\* $[?(@.b)].c[?(!@.b)].c
Nested ==
  Query(ElementFilters,
        <<Filtered({"b"}, IsB), Child("c"), Filtered({"b"}, NotB), Child("c")>>,
        [subtree |-> 2 :> IsB @@ 3 :> IsB @@ 5 :> NotB @@ 6 :> IsB,
         mapping |-> 2 :> {3} @@ 5 :> {6}],
        {True, Null, CONTAINER})

\* $..c
Deeper ==
  Query(Automaton(3, {"c"},
          Every(1, {ANY_KEY, ARRAY}, 2) \union Every(2, {ANY_KEY, ARRAY}, 2) \union
          Every(3, {ANY_KEY, ARRAY}, 2) \union {<<q, "c", 3>> : q \in 1 .. 3},
          3 :> OUTPUT_CANDIDATE, <<>>, <<>>),
        <<Desc("c")>>, NoContext, {})

(* Texts with at most one label in a place the query cannot reach, and shorter
   ones for the query without a filter. *)
Explored ==
  /\ Cardinality({j \in 0 .. Len(qs) : Run(j).query_state = 0}) <= 1
  /\ qa = Deeper => pos <= 11

RunQueries == {Compared, Nested, Deeper}
=============================================================================
