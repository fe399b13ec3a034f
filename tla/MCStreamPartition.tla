-------------------------- MODULE MCStreamPartition --------------------------
(***************************************************************************)
(* The files the partitioner is checked with.                              *)
(***************************************************************************)
EXTENDS Partitioners

Upto(n, S) == UNION {[1 .. m -> S] : m \in 0 .. n}

\* A bracket, then up to six words: beginnings of strings, which are where a
\* cut is found, and other text.  A few texts begin with a space.
AnyTexts ==
  LET words     == {<<"open", "quote">>, <<"open", "blank", "quote">>, <<"quote">>, <<"other">>}
      text(n)   == {<<"open">> \o FlattenSeq(s) : s \in Upto(n, words)} IN
  text(6) \union {<<"space">> \o t : t \in text(3)}
=============================================================================
