---------------------------- MODULE MCDfaBuilder ----------------------------
(***************************************************************************)
(* The path expressions the builder is checked with.                       *)
(***************************************************************************)
EXTENDS DfaBuilder, QueryTables

Filter(vs) == [axis |-> "filter", variables |-> vs]

Steps ==
  {Child("a"), Child("b"), Desc("a"), Wild, Deep, All, Slice(1, 2),
   Filter(<<<<"c">>>>), Filter(<<<<"c">>, <<"d">>, <<"c">>>>), Filter(<<<<"c", "d">>>>)}

Expressions == UNION {[1 .. n -> Steps] : n \in 1 .. 4}

LooksDeep(step) == step.axis \in {"desc", "deep"}

\* No slice below a step that looks deep.
SlicesAbove(q) ==
  \A i, j \in DOMAIN q : i < j /\ LooksDeep(q[i]) => q[j].axis # "slice"

\* A filter is followed by a step, none of which can reach its variables; one
\* below a step that looks deep is followed by a single step, by name.
FiltersApart(q) ==
  \A j \in DOMAIN q : q[j].axis = "filter" =>
    /\ j < Len(q)
    /\ \A k \in j + 1 .. Len(q) : q[k].axis \notin {"wild", "deep"}
    /\ (\E i \in 1 .. j - 1 : LooksDeep(q[i])) =>
         /\ j + 1 = Len(q)
         /\ q[j + 1].axis \in {"child", "desc"}

EngineTables ==
  {ChildOnly, ChildSlice, SliceSlice, SliceChild, AllChild, Descendant, WildChild,
   ChildDescendant, Everything, AllElements}

Filtering(vs) == Filter([i \in DOMAIN vs |-> <<vs[i]>>])

FilterTable(table, steps, mapping) == [table |-> table, query |-> steps, mapping |-> mapping]

FilterTables ==
  {FilterTable(Predicated, <<Child("a"), Filtering(<<"b">>), Child("c")>>, 3 :> {4}),
   FilterTable(TwoFilters,
     <<Child("a"), Filtering(<<"b", "d">>), Child("c"), Filtering(<<"b">>), Child("e")>>,
     3 :> {4, 5} @@ 7 :> {8}),
   FilterTable(ElementFilter, <<Filtering(<<"b">>), Child("c")>>, 2 :> {3}),
   FilterTable(ElementFilters,
     <<Filtering(<<"b">>), Child("c"), Filtering(<<"b">>), Child("c")>>,
     2 :> {3} @@ 5 :> {6})}

Compiled == {q \in Expressions : SlicesAbove(q) /\ FiltersApart(q)}
              \union {t.steps : t \in EngineTables}
              \union {f.query : f \in FilterTables}

Indexed == {<<Child("a"), [axis |-> "index", at |-> 1], Child("b")>>}
EmptySlice == {<<Child("a"), Slice(0, 0)>>}
DeepSlice  == {<<Desc("a"), Slice(1, 2)>>}

IsBuilt(t) ==
  /\ t.n = dfa.n /\ t.names = dfa.names
  /\ t.next = dfa.next /\ t.accept = dfa.accept /\ t.index = dfa.index

(* Every table that is built has the shape the engines' proofs assume.  The
   tables the engines are checked with are the ones built, state by state,
   from the steps written beside them, and the conditions the filter is given
   for each filtered element are those of the context built with them. *)
TablesAreBuilt ==
  phase = "done" =>
    /\ IsQueryDFA(dfa)
    /\ \A t \in EngineTables : t.steps = query => IsBuilt(t)
    /\ \A f \in FilterTables : f.query = query =>
         /\ IsBuilt(f.table)
         /\ \A p \in DOMAIN f.mapping : context.states_mapping[p] = f.mapping[p]
=============================================================================
