------------------------ MODULE MCStreamingAutomaton ------------------------
(***************************************************************************)
(* The query automata the serial engine is checked with.                   *)
(***************************************************************************)
EXTENDS StreamingAutomaton, QueryTables, QueryMeaning

PathQueries   == {AllChild, Descendant, WildChild, ChildDescendant, Everything}
SliceQueries  == {ChildSlice, SliceSlice, SliceChild, Predicated}
AnswerQueries == PathQueries \union SliceQueries

(* What EngineImplementsQuery (StreamingAutomatonProofs) supposes of the tables. *)
ASSUME MeaningAssumption ==
  \A q \in Queries : MeansSteps(q, q.steps, Keys \union {ARRAY})
=============================================================================
