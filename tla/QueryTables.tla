---------------------------- MODULE QueryTables -----------------------------
(***************************************************************************)
(* Query automata for model checking.  Each table is the one               *)
(* buildJSONQueryDFA prints for the path expression named beside it.       *)
(***************************************************************************)
EXTENDS QueryDFA, TLC

NoSlice == [lower |-> 0, upper |-> 0]

(* An automaton from its live edges <<q, label, r>>, the accept types and the
   slices of the states that have one. *)
Automaton(n, names, edges, accept, index, steps) ==
  LET inputs == names \union {ARRAY, ANY_KEY} IN
  [n      |-> n,
   names  |-> names,
   next   |-> [q \in 0 .. n |-> [l \in inputs |->
                 IF \E r \in 1 .. n : <<q, l, r>> \in edges
                   THEN CHOOSE r \in 1 .. n : <<q, l, r>> \in edges
                   ELSE 0]],
   accept |-> [q \in 0 .. n |-> IF q \in DOMAIN accept THEN accept[q] ELSE NO_MATCH],
   index  |-> [q \in 0 .. n |-> IF q \in DOMAIN index THEN index[q] ELSE NoSlice],
   steps  |-> steps]

Child(k)      == [axis |-> "child", name |-> k]
Desc(k)       == [axis |-> "desc", name |-> k]
Wild          == [axis |-> "wild"]
Deep          == [axis |-> "deep"]
All           == [axis |-> "all"]
Slice(lo, hi) == [axis |-> "slice", lo |-> lo, hi |-> hi]

Every(q, ls, r) == {<<q, l, r>> : l \in ls}

\* $.a
ChildOnly == Automaton(2, {"a"}, {<<1, "a", 2>>}, 2 :> OUTPUT_CANDIDATE, <<>>,
  <<Child("a")>>)

\* $.a[1:2]
ChildSlice == Automaton(3, {"a"}, {<<1, "a", 2>>, <<2, ARRAY, 3>>},
  3 :> OUTPUT_CANDIDATE, 3 :> [lower |-> 1, upper |-> 2],
  <<Child("a"), Slice(1, 2)>>)

\* $.a[1:3][0:1]
SliceSlice == Automaton(4, {"a"}, {<<1, "a", 2>>, <<2, ARRAY, 3>>, <<3, ARRAY, 4>>},
  4 :> OUTPUT_CANDIDATE,
  3 :> [lower |-> 1, upper |-> 3] @@ 4 :> [lower |-> 0, upper |-> 1],
  <<Child("a"), Slice(1, 3), Slice(0, 1)>>)

\* $.a[0:1].b
SliceChild == Automaton(4, {"a", "b"},
  {<<1, "a", 2>>, <<2, ARRAY, 3>>, <<3, "b", 4>>},
  4 :> OUTPUT_CANDIDATE, 3 :> [lower |-> 0, upper |-> 1],
  <<Child("a"), Slice(0, 1), Child("b")>>)

\* $.a[*].b
AllChild == Automaton(4, {"a", "b"},
  {<<1, "a", 2>>, <<2, ARRAY, 3>>, <<3, "b", 4>>},
  4 :> OUTPUT_CANDIDATE, <<>>, <<Child("a"), All, Child("b")>>)

\* $.a[*]
AllElements == Automaton(3, {"a"}, {<<1, "a", 2>>, <<2, ARRAY, 3>>},
  3 :> OUTPUT_CANDIDATE, <<>>, <<Child("a"), All>>)

\* $..a
Descendant == Automaton(3, {"a"},
  Every(1, {ANY_KEY, ARRAY}, 2) \union Every(2, {ANY_KEY, ARRAY}, 2) \union
  Every(3, {ANY_KEY, ARRAY}, 2) \union {<<q, "a", 3>> : q \in 1 .. 3},
  3 :> OUTPUT_CANDIDATE, <<>>, <<Desc("a")>>)

\* $.*.b
WildChild == Automaton(3, {"b"},
  Every(1, {ANY_KEY, ARRAY, "b"}, 2) \union {<<2, "b", 3>>},
  3 :> OUTPUT_CANDIDATE, <<>>, <<Wild, Child("b")>>)

\* $.a..b
ChildDescendant == Automaton(4, {"a", "b"},
  {<<1, "a", 2>>} \union
  UNION {Every(q, {ANY_KEY, ARRAY, "a"}, 3) \union {<<q, "b", 4>>} : q \in 2 .. 4},
  4 :> OUTPUT_CANDIDATE, <<>>, <<Child("a"), Desc("b")>>)

\* $..*
Everything == Automaton(2, {}, Every(1, {ANY_KEY, ARRAY}, 2) \union Every(2, {ANY_KEY, ARRAY}, 2),
  2 :> OUTPUT_CANDIDATE, <<>>, <<Deep>>)

\* $.a[?(@.b)].c, without the test of the predicate
Predicated == Automaton(5, {"a", "b", "c"},
  {<<1, "a", 2>>, <<2, ARRAY, 3>>, <<3, "b", 4>>, <<3, "c", 5>>},
  3 :> PREDICATE @@ 4 :> CONDITION @@ 5 :> OUTPUT_CANDIDATE, <<>>,
  <<Child("a"), All, Child("c")>>)

\* $.a[?(@.b && !@.d)].c[?(@.b)].e, without the tests
TwoFilters == Automaton(9, {"a", "b", "c", "d", "e"},
  {<<1, "a", 2>>, <<2, ARRAY, 3>>, <<3, "b", 4>>, <<3, "d", 5>>, <<3, "c", 6>>,
   <<6, ARRAY, 7>>, <<7, "b", 8>>, <<7, "e", 9>>},
  3 :> PREDICATE @@ 4 :> CONDITION @@ 5 :> CONDITION @@ 7 :> PREDICATE @@
  8 :> CONDITION @@ 9 :> OUTPUT_CANDIDATE, <<>>,
  <<Child("a"), All, Child("c"), All, Child("e")>>)

\* $[?(@.b)].c, without the test
ElementFilter == Automaton(4, {"b", "c"}, {<<1, ARRAY, 2>>, <<2, "b", 3>>, <<2, "c", 4>>},
  2 :> PREDICATE @@ 3 :> CONDITION @@ 4 :> OUTPUT_CANDIDATE, <<>>,
  <<All, Child("c")>>)

\* $[?(@.b)].c[?(@.b)].c, without the tests
ElementFilters == Automaton(7, {"b", "c"},
  {<<1, ARRAY, 2>>, <<2, "b", 3>>, <<2, "c", 4>>, <<4, ARRAY, 5>>, <<5, "b", 6>>,
   <<5, "c", 7>>},
  2 :> PREDICATE @@ 3 :> CONDITION @@ 5 :> PREDICATE @@ 6 :> CONDITION @@
  7 :> OUTPUT_CANDIDATE, <<>>,
  <<All, Child("c"), All, Child("c")>>)
=============================================================================
