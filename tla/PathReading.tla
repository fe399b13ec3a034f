---------------------------- MODULE PathReading -----------------------------
(***************************************************************************)
(* How the text of a path expression is meant, said on its tokens from     *)
(* outside to inside: the steps of a path from left to right, the weakest  *)
(* operator of an expression outermost, and of several the last one.  '%'  *)
(* has no place among the operators in the grammar: what stands in front   *)
(* of it is one operand, and all that follows up to the end of the         *)
(* parentheses is the other.                                               *)
(*                                                                         *)
(* A token is a record [kind, text], a tree a record [type, data, left,    *)
(* right].  No proof uses this module: the definitions are RECURSIVE.      *)
(***************************************************************************)
EXTENDS Integers, SequencesExt

Nil     == [type |-> "nil"]
Nothing == [type |-> "nothing"]     \* what is no path expression

Leaf(type, data) == [type |-> type, data |-> data, left |-> Nil, right |-> Nil]

Join(type, data, left, right) ==
  IF Nothing \in {left, right}
    THEN Nothing
    ELSE [type |-> type, data |-> data, left |-> left, right |-> right]

Levels == <<{"||", "&&"}, {"==", "!=", "<", ">", "<=", ">="}, {"+", "-"}, {"*", "/"}>>

Operators == UNION ToSet(Levels) \union {"%"}

Dots == {".", ".."}

JoinedBy(dot) == IF dot = "." THEN "concat" ELSE "parent_concat"

EndsWithName(s) ==
  Len(s) >= 3 /\ s[Len(s)].kind \in {"NCNAME", "*"} /\ s[Len(s) - 1].kind \in Dots

Name(t) == IF t.kind = "*" THEN Leaf("wildcard", <<>>) ELSE Leaf("id", <<t.text>>)

Upto(s, n) == SubSeq(s, 1, n)
From(s, n) == SubSeq(s, n, Len(s))

Places(s, kinds) == {i \in DOMAIN s : s[i].kind \in kinds}

ReadNumber(s) ==
  CASE Len(s) = 1 /\ s[1].kind = "NUMBER" -> Leaf("number", <<s[1].text>>)
    [] Len(s) = 2 /\ s[1].kind = "-" /\ s[2].kind = "NUMBER"
                                          -> Leaf("number", <<"-", s[2].text>>)
    [] OTHER                              -> Nothing

ReadLiteral(s) ==
  IF Len(s) = 1 /\ s[1].kind = "STRING" THEN Leaf("string", <<s[1].text>>) ELSE ReadNumber(s)

(* The operators between two operands and outside all parentheses. *)
Between(s) ==
  LET depth(i) == Cardinality(Places(Upto(s, i), {"("})) - Cardinality(Places(Upto(s, i), {")"}))
      isName(i) == s[i].kind = "*" /\ i > 1 /\ s[i-1].kind \in Dots
      ends(i)  == s[i].kind \in {"@", "NUMBER", "STRING", "NCNAME", ")"} \/ isName(i)
  IN  {i \in Places(s, Operators) : i > 1 /\ ends(i-1) /\ depth(i) = 0}

RECURSIVE ReadExpr(_)
ReadExpr(s) ==
  LET n       == Len(s)
      modulo  == {i \in Between(s) : s[i].kind = "%"}
      split   == {i \in Between(s) : \A m \in modulo : i < m}
      weakest == Min({l \in DOMAIN Levels : \E i \in split : s[i].kind \in Levels[l]})
      at(i)   == Join("operator", <<s[i].kind>>, ReadExpr(Upto(s, i-1)), ReadExpr(From(s, i+1)))
  IN  CASE n = 0              -> Nothing
        [] split # {}         -> at(Max({i \in split : s[i].kind \in Levels[weakest]}))
        [] split = {} /\ s[1].kind = "!"
                              -> Join("operator", <<"!">>, ReadExpr(Tail(s)), Nil)
        [] split = {} /\ s[1].kind # "!" /\ modulo # {}
                              -> at(Min(modulo))
        [] OTHER              ->
             IF EndsWithName(s)
               THEN Join(JoinedBy(s[n-1].kind), <<>>, ReadExpr(Upto(s, n-2)), Name(s[n]))
             ELSE IF s[1].kind = "(" /\ s[n].kind = ")" THEN ReadExpr(SubSeq(s, 2, n-1))
             ELSE IF n = 1 /\ s[1].kind = "@" THEN Leaf("reference", <<>>)
             ELSE ReadLiteral(s)

RECURSIVE ReadList(_)
ReadList(s) ==
  LET commas == Places(s, {","})
  IN  IF commas = {} THEN ReadLiteral(s)
      ELSE Join("concat", <<>>, ReadList(Upto(s, Max(commas) - 1)),
                                ReadLiteral(From(s, Max(commas) + 1)))

ReadRange(s) ==
  LET colon    == Min(Places(s, {":"}))
      bound(t) == IF t = <<>> THEN Nil ELSE ReadNumber(t)
  IN  IF Len(s) = 1 THEN Nothing
      ELSE Join("range", <<>>, bound(Upto(s, colon - 1)), bound(From(s, colon + 1)))

ReadBracket(s) ==
  LET n == Len(s) IN
  CASE n = 0                                -> Nothing
    [] Places(s, {":"}) # {}                -> ReadRange(s)
    [] n = 1 /\ s[1].kind = "*"             -> Leaf("wildcard", <<>>)
    [] n > 2 /\ s[1].kind = "?" /\ s[2].kind = "(" /\ s[n].kind = ")"
                                            -> Join("fliter", <<>>, ReadExpr(SubSeq(s, 3, n-1)), Nil)
    [] n > 1 /\ s[1].kind = "(" /\ s[n].kind = ")"
                                            -> Join("script", <<>>, ReadExpr(SubSeq(s, 2, n-1)), Nil)
    [] OTHER                                -> ReadList(s)

RECURSIVE ReadPath(_)
ReadPath(s) ==
  LET n    == Len(s)
      open == Max(Places(s, {"["}))
  IN  CASE n = 1 /\ s[1].kind = "$" -> Leaf("root", <<>>)
        [] n > 1 /\ EndsWithName(s)
             -> Join(JoinedBy(s[n-1].kind), <<>>, ReadPath(Upto(s, n-2)), Name(s[n]))
        [] n > 1 /\ s[n].kind = "]" /\ Places(s, {"["}) # {}
             -> Join("predicate", <<>>, ReadPath(Upto(s, open-1)),
                                        ReadBracket(SubSeq(s, open+1, n-1)))
        [] OTHER -> Nothing

(* A member of the filtered element, or a member of such a member. *)
RECURSIVE IsMember(_)
IsMember(t) ==
  t.type = "concat" /\ t.right.type = "id" /\ (t.left.type = "reference" \/ IsMember(t.left))

RECURSIVE MemberName(_)
MemberName(t) == IF t.type = "reference" THEN <<>> ELSE MemberName(t.left) \o t.right.data

RECURSIVE WithVariables(_)
WithVariables(t) ==
  CASE t = Nil     -> Nil
    [] t # Nil /\ IsMember(t) -> Leaf("variable", MemberName(t))
    [] OTHER       -> [t EXCEPT !.left = WithVariables(t.left), !.right = WithVariables(t.right)]
=============================================================================
