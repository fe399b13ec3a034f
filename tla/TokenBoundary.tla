---------------------------- MODULE TokenBoundary ----------------------------
(***************************************************************************)
(* Where loadBoundedInputStream, partitionInputStream and partitionFile    *)
(* cut a text: in front of what looks like the beginning of a string token.*)
(*                                                                         *)
(* Characters are known by what these loops tell apart: a quote, one of    *)
(* ',' '{' '[' (open), a space, another blank, anything else.              *)
(***************************************************************************)
EXTENDS Integers, Sequences, FiniteSets, FiniteSetsExt

Char  == {"quote", "open", "space", "blank", "other"}
Blank == {"space", "blank"}

(* A text may end in front of a quote whose last character before blanks is
   ',', '{' or '['.  The blanks are searched backwards with no lower end; a text
   whose first word is a bracket always stops the search. *)
LastBeforeBlanks(s) ==
  LET words == {n \in DOMAIN s : s[n] \notin Blank} IN
  IF words = {} THEN "other" ELSE s[Max(words)]

Boundary(s, ch) == ch = "quote" /\ LastBeforeBlanks(s) = "open"
=============================================================================
