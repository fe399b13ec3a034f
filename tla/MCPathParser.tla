---------------------------- MODULE MCPathParser ----------------------------
(***************************************************************************)
(* The texts the parser is checked with: every one over these tokens, and  *)
(* longer ones that begin with a filter.                                   *)
(***************************************************************************)
EXTENDS PathParser

All(kinds) == {Plain(kind) : kind \in kinds}

Number == Token("NUMBER", "1")
NCName == {Token("NCNAME", "a"), Token("NCNAME", "b")}

FilterText == <<Plain("$"), Plain("["), Plain("?"), Plain("(")>>

AnyPath ==
  [beginning |-> <<>>,
   tokens    |-> NCName \union {Number, Token("STRING", "s")} \union
                 All({"$", ".", "..", "[", "]", "*", "?", "(", ")", ":", ",", "@", "-"}),
   max       |-> 8]

\* Four operands with an operator of every level between them, and signs.
Operations ==
  [beginning |-> FilterText,
   tokens    |-> {Number} \union All({")", "]", "!", "||", "&&", "==", "-", "*", "%"}),
   max       |-> 13]

\* Members of members, in parentheses and as operands.
Members ==
  [beginning |-> FilterText,
   tokens    |-> NCName \union All({"@", ".", "..", "*", "(", ")", "]", "!", "=="}),
   max       |-> 12]

Texts == {AnyPath, Operations, Members}
=============================================================================
