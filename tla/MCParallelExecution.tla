------------------------ MODULE MCParallelExecution -------------------------
(***************************************************************************)
(* The query automata and constraint tables the parallel engine is checked *)
(* with.                                                                   *)
(***************************************************************************)
EXTENDS ParallelExecution, QueryTables

Open(qs) == {[qa |-> q, ct |-> CLOSE] : q \in qs}

NamedQueries  == Open({AllChild, Predicated})
MemberQuery   == Open({ChildOnly})
SliceQuery    == Open({ChildSlice})
ElementQuery  == Open({AllElements})

\* What collectDataConstraints learns for $.a[*].b from {"a": [{"b": 0}]}, and
\* for $.a from {"b": {"a": 0}}.
LearnedQueries ==
  {[qa |-> AllChild,  ct |-> "a" :> {1} @@ "b" :> {3} @@ ARRAY :> {2}],
   [qa |-> ChildOnly, ct |-> "a" :> {0} @@ "b" :> {1} @@ ARRAY :> {}]}
  \union MemberQuery

(* Three chunks in all, in one piece or two. *)
ThreeChunks == Len(cuts) <= 3

\* What the memory of a node's root_range holds that was never set.
ZeroRoot == {{1}}
=============================================================================
