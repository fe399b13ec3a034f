----------------------------- MODULE JsonStream -----------------------------
(***************************************************************************)
(* The input of every engine: the tokens nextToken (lexing.c) delivers for *)
(* a well-formed JSON text, produced one at a time.  The grammar of the    *)
(* text is outside src/; what is kept of a token is its type, the label of *)
(* a key, and its place in the stream.                                     *)
(*                                                                         *)
(*   open    the containers and keys whose value is not complete yet       *)
(*   path    the labels that lead from the root to the current position:   *)
(*           one for every open key and one for every open array           *)
(*   expect  what the grammar admits next                                  *)
(*   pos     how many tokens were delivered                                *)
(***************************************************************************)
EXTENDS Integers, Sequences, SequencesExt, QueryDFA

CONSTANTS Keys,       \* the keys of the texts
          MaxTokens   \* bound: the longest prefix of a text

ASSUME KeysAssumption == ARRAY \notin Keys /\ ANY_KEY \notin Keys
ASSUME MaxTokensAssumption == MaxTokens \in Nat

VARIABLES open, path, expect, pos

streamVars == <<open, path, expect, pos>>

Symbol == {"LCB", "KY", "LB"}
Entry  == [sym : Symbol, from : Nat, depth : Nat]
Label  == [key : Keys \union {ARRAY}, idx : Nat]

StreamTypeOK ==
  /\ open \in Seq(Entry)
  /\ path \in Seq(Label)
  /\ expect \in {"value", "first", "sep", "key", "end"}
  /\ pos \in Nat

StreamInit ==
  /\ open = <<>>
  /\ path = <<>>
  /\ expect = "value"
  /\ pos = 0

Innermost == open[Len(open)].sym

ExpectsValue ==
  /\ pos < MaxTokens
  /\ \/ expect = "value"
     \/ expect = "first" /\ Innermost = "LB"

(* A value is complete; o and p are what encloses it.  A key is closed by
   its value, an array counts it. *)
ValueDone(o, p) ==
  IF o = <<>>
    THEN /\ open' = o
         /\ path' = p
         /\ expect' = "end"
    ELSE /\ expect' = "sep"
         /\ IF o[Len(o)].sym = "KY"
              THEN /\ open' = Front(o)
                   /\ path' = Front(p)
              ELSE /\ open' = o
                   /\ path' = [p EXCEPT ![Len(p)].idx = @ + 1]

Enter(sym) ==
  Append(open, [sym |-> sym, from |-> pos + 1, depth |-> Len(path)])

ReadLCB ==
  /\ ExpectsValue
  /\ pos' = pos + 1
  /\ open' = Enter("LCB")
  /\ expect' = "first"
  /\ UNCHANGED path

ReadRCB ==
  /\ pos < MaxTokens
  /\ expect \in {"first", "sep"} /\ Innermost = "LCB"
  /\ pos' = pos + 1
  /\ ValueDone(Front(open), path)

ReadLB ==
  /\ ExpectsValue
  /\ pos' = pos + 1
  /\ open' = Enter("LB")
  /\ path' = Append(path, [key |-> ARRAY, idx |-> 0])
  /\ expect' = "first"

ReadRB ==
  /\ pos < MaxTokens
  /\ expect \in {"first", "sep"} /\ Innermost = "LB"
  /\ pos' = pos + 1
  /\ ValueDone(Front(open), Front(path))

ReadCOM ==
  /\ pos < MaxTokens
  /\ expect = "sep"
  /\ pos' = pos + 1
  /\ expect' = IF Innermost = "LCB" THEN "key" ELSE "value"
  /\ UNCHANGED <<open, path>>

ReadKY(k) ==
  /\ pos < MaxTokens
  /\ expect \in {"first", "key"} /\ Innermost = "LCB"
  /\ pos' = pos + 1
  /\ open' = Enter("KY")
  /\ path' = Append(path, [key |-> k, idx |-> 0])
  /\ expect' = "value"

ReadPRI ==
  /\ ExpectsValue
  /\ pos' = pos + 1
  /\ ValueDone(open, path)

(* How many labels lead to the inside of the i-th open entry. *)
LabelsTo(i) == open[i].depth + (IF open[i].sym = "LCB" THEN 0 ELSE 1)

(* The stream is a prefix of a well-formed text: a key stands in an object,
   every other entry at the root, under a key or in an array, and the path
   has one label per open key and array. *)
StreamShape ==
  /\ Len(path) = IF open = <<>> THEN 0 ELSE LabelsTo(Len(open))
  /\ \A i \in DOMAIN open :
       /\ open[i].depth = IF i = 1 THEN 0 ELSE LabelsTo(i - 1)
       /\ IF open[i].sym = "KY" THEN i > 1 /\ open[i-1].sym = "LCB"
                                ELSE i > 1 => open[i-1].sym # "LCB"
  /\ expect \in {"first", "sep"} => open # <<>> /\ Innermost # "KY"
  /\ expect = "key" => open # <<>> /\ Innermost = "LCB"
  /\ expect = "value" => open = <<>> \/ Innermost # "LCB"
  /\ expect = "end" => open = <<>>
=============================================================================
