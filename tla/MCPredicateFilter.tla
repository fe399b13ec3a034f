------------------------- MODULE MCPredicateFilter --------------------------
(***************************************************************************)
(* The queries the predicate filter is checked with.  Automaton and        *)
(* context are those buildJSONQueryDFA prints.                             *)
(***************************************************************************)
EXTENDS PredicateFilter, QueryTables

Text(kind, n) == [kind |-> kind, n |-> n]

Variable(name)      == [type |-> "variable", name |-> name]
Number(n)           == [type |-> "number", n |-> n]
Operator(opt, l, r) == [type |-> "operator", opt |-> opt, left |-> l, right |-> r]

Null == Text("null", 0)
True == Text("true", 0)

\* $.a[?(@.b < 10)].c
Compared ==
  [qa    |-> Predicated,
   ctx   |-> [subtree |-> 3 :> <<Variable("b"), Number(10), Operator("less", 1, 2)>> @@
                          4 :> <<Variable("b")>>,
              mapping |-> 3 :> {4}],
   texts |-> {Text("number", 5), Text("number", 20), Null, Text("container", 0)}]

\* $.a[?(@.b && !@.d)].c[?(@.b)].e
Nested ==
  [qa    |-> TwoFilters,
   ctx   |-> [subtree |-> 3 :> <<Variable("b"), Variable("d"), Operator("not", 2, 0),
                                 Operator("and", 1, 3)>> @@
                          4 :> <<Variable("b")>> @@ 5 :> <<Variable("d")>> @@
                          7 :> <<Variable("b")>> @@ 8 :> <<Variable("b")>>,
              mapping |-> 3 :> {4, 5} @@ 7 :> {8}],
   texts |-> {True, Null}]

\* $.a
Unfiltered ==
  [qa |-> ChildOnly, ctx |-> [subtree |-> <<>>, mapping |-> <<>>], texts |-> {}]

\* $..a[?(@.b)].c
SelfNested ==
  [qa    |-> Automaton(6, {"a", "b", "c"},
               UNION {Every(q, {ANY_KEY, ARRAY}, 2) \union {<<q, "a", 3>>} : q \in {1, 2, 5, 6}} \union
               {<<3, ANY_KEY, 2>>, <<3, ARRAY, 4>>, <<3, "a", 3>>,
                <<4, ANY_KEY, 2>>, <<4, ARRAY, 2>>, <<4, "a", 3>>, <<4, "b", 5>>, <<4, "c", 6>>},
               4 :> PREDICATE @@ 5 :> CONDITION @@ 6 :> OUTPUT_CANDIDATE, <<>>, <<>>),
   ctx   |-> [subtree |-> 4 :> <<Variable("b")>> @@ 5 :> <<Variable("b")>>,
              mapping |-> 4 :> {5}],
   texts |-> {True}]

FilterQueries == {Compared, Nested, Unfiltered}

(* What the theorems about the filter suppose of a query (PredicateFilterProofs). *)
ASSUME SuitsAssumption == \A q \in FilterQueries : TellsTextsApart(q) /\ NestsInOrder(q)

OnlySelfNested == {SelfNested}
OnlyUnfiltered == {Unfiltered}
=============================================================================
