----------------------------- MODULE PathParser -----------------------------
(***************************************************************************)
(* How the text of a path expression becomes a syntax tree:                *)
(* analysisJSONPath, the parser Bison makes of parser_j.y, with the nodes  *)
(* of jsonpath_model.h; then evaluatorModifyReference                      *)
(* (jsonpath_evaluator.h), which puts a variable in the place of every     *)
(* member @.x.y of a filtered element.                                     *)
(*                                                                         *)
(* A token is what jlex returns, with the text it carries; the next token  *)
(* is chosen when the parser asks for it, so that the texts are all that   *)
(* one of Inputs describes.                                                *)
(*                                                                         *)
(*   input, text      which texts, and the tokens read so far; the last    *)
(*                    one is the lookahead                                 *)
(*   stack            of the parser: symbols with the token's text or the  *)
(*                    node they stand for                                  *)
(*   heap, freed      the nodes in the order of ASTNodeCreate, so that a   *)
(*                    child comes before its parent; those free was called *)
(*                    for                                                  *)
(*   phase, root, at  what the parser does, the tree, and the node that    *)
(*                    evaluatorModifyReference comes to next               *)
(***************************************************************************)
EXTENDS PathReading

CONSTANT Inputs   \* records [beginning, tokens, max]: what a text begins with,
                  \* the tokens it goes on with, and its greatest length (a bound)

VARIABLES input, text, stack, heap, freed, phase, root, at

vars == <<input, text, stack, heap, freed, phase, root, at>>

Token(kind, txt) == [kind |-> kind, text |-> txt]
Plain(kind)      == Token(kind, kind)
END              == Plain("END")

NULL == 0
Node(type, data, left, right) ==
  [type |-> type, data |-> data, left |-> left, right |-> right]

-----------------------------------------------------------------------------
(* The grammar.  A rule makes a node of the given type, or none where the  *)
(* type is "": data, left and right are places on its right-hand side.     *)

Rule(lhs, rhs, type, data, left, right) ==
  [lhs |-> lhs, rhs |-> rhs, type |-> type, data |-> data, left |-> left, right |-> right]

Rules ==
  {Rule("LocationPath", <<"$">>, "root", <<>>, 0, 0),
   Rule("LocationPath", <<"LocationPath", ".", "Property">>, "concat", <<>>, 1, 3),
   Rule("LocationPath", <<"LocationPath", "..", "Property">>, "parent_concat", <<>>, 1, 3),
   Rule("LocationPath", <<"LocationPath", "[", "Predicate", "]">>, "predicate", <<>>, 1, 3),
   Rule("Property", <<"NCNAME">>, "id", <<1>>, 0, 0),
   Rule("Property", <<"*">>, "wildcard", <<>>, 0, 0),
   Rule("Predicate", <<"Number", ":", "Number">>, "range", <<>>, 1, 3),
   Rule("Predicate", <<":", "Number">>, "range", <<>>, 0, 2),
   Rule("Predicate", <<"Number", ":">>, "range", <<>>, 1, 0),
   Rule("Predicate", <<"*">>, "wildcard", <<>>, 0, 0),
   Rule("Predicate", <<"?", "(", "Expr", ")">>, "fliter", <<>>, 3, 0),
   Rule("Predicate", <<"(", "Expr", ")">>, "script", <<>>, 2, 0),
   Rule("Predicate", <<"IndexList">>, "", <<>>, 1, 0),
   Rule("IndexList", <<"Number">>, "", <<>>, 1, 0),
   Rule("IndexList", <<"STRING">>, "string", <<1>>, 0, 0),
   Rule("IndexList", <<"IndexList", ",", "Number">>, "concat", <<>>, 1, 3),
   Rule("IndexList", <<"IndexList", ",", "STRING">>, "concat", <<>>, 1, 3),
   Rule("Expr", <<"!", "Expr">>, "operator", <<1>>, 2, 0),
   Rule("Expr", <<"@">>, "reference", <<>>, 0, 0),
   Rule("Expr", <<"Number">>, "", <<>>, 1, 0),
   Rule("Expr", <<"STRING">>, "string", <<1>>, 0, 0),
   Rule("Expr", <<"(", "Expr", ")">>, "", <<>>, 2, 0),
   Rule("Expr", <<"Expr", ".", "Property">>, "concat", <<>>, 1, 3),
   Rule("Expr", <<"Expr", "..", "Property">>, "parent_concat", <<>>, 1, 3),
   Rule("Number", <<"NUMBER">>, "number", <<1>>, 0, 0),
   Rule("Number", <<"sign", "NUMBER">>, "number", <<1, 2>>, 0, 0)}
  \union {Rule("Expr", <<"Expr", op, "Expr">>, "operator", <<2>>, 1, 3) : op \in Operators}

(* Where a symbol of the left-hand sides is expected: behind which symbols. *)
Context ==
  LET operand == Operators \union {"(", "!"}
  IN  [LocationPath |-> {"bottom"},
       Property     |-> {".", ".."},
       Predicate    |-> {"["},
       IndexList    |-> {"["},
       Expr         |-> operand,
       Number       |-> operand \union {"[", ":", ","}]

(* %left and %right; the dots and '%' have no precedence. *)
Level(kind) ==
  CASE kind \in {"||", "&&"}                         -> 1
    [] kind \in {"==", "!=", "<", ">", "<=", ">="}   -> 2
    [] kind \in {"+", "-"}                           -> 3
    [] kind \in {"*", "/"}                           -> 4
    [] kind = "!"                                    -> 5
    [] OTHER                                         -> 0

-----------------------------------------------------------------------------
Lookahead == Last(text)

Below(n) == IF Len(stack) <= n THEN "bottom" ELSE stack[Len(stack) - n].sym
Top      == Below(0)

IsHandle(rule) ==
  LET n == Len(rule.rhs)
  IN  /\ Len(stack) >= n
      /\ \A i \in 1 .. n : stack[Len(stack) - n + i].sym = rule.rhs[i]
      /\ Below(n) \in Context[rule.lhs]

(* The tokens that may come behind the symbol on top, nothing reduced. *)
Follow ==
  LET number == {"NUMBER", "-"}
      expr   == number \union {"@", "STRING", "(", "!"}
  IN  CASE Top = "bottom"                       -> {"$"}
        [] Top = "LocationPath"                 -> {".", "..", "["}
        [] Top \in {".", ".."}                  -> {"NCNAME", "*"}
        [] Top = "["                            -> number \union {"STRING", ":", "*", "?", "("}
        [] Top = "?"                            -> {"("}
        [] Top = "Expr"                         -> Operators \union {".", ".."} \union
                                                   (IF Below(1) = "(" THEN {")"} ELSE {})
        [] Top = "*" /\ Below(1) # "Expr"       -> {}
        [] Top \in Operators \union {"(", "!"}  -> expr
        [] Top = "sign"                         -> {"NUMBER"}
        [] Top = "Number" /\ Below(1) = "["     -> {":"}
        [] Top = ":"                            -> number
        [] Top = "IndexList"                    -> {","}
        [] Top = ","                            -> number \union {"STRING"}
        [] Top = "Predicate"                    -> {"]"}
        [] OTHER                                -> {}

RightFirst(rule, kind) ==                                             \* fault
  \E i \in DOMAIN rule.rhs :
    /\ rule.rhs[i] \in Operators \union {"!"}
    /\ Level(kind) > 0 /\ Level(kind) < Level(rule.rhs[i])

(* Bison decides a conflict of a rule with a token that could be shifted by
   their precedence, all binary operators being left-associative; where one of
   the two has none, it shifts. *)
RuleFirst(rule, kind) ==
  \E i \in DOMAIN rule.rhs :
    /\ rule.rhs[i] \in Operators \union {"!"}
    /\ Level(kind) > 0 /\ Level(kind) <= Level(rule.rhs[i])

Reads(rule) ==
  IsHandle(rule) /\ (Lookahead.kind \in Follow => RuleFirst(rule, Lookahead.kind))

-----------------------------------------------------------------------------
(* jlex: the next token of the text. *)
Upcoming(n) ==
  CASE n <= Len(input.beginning)                    -> {input.beginning[n]}
    [] n > Len(input.beginning) /\ n <= input.max  -> input.tokens \union {END}
    [] OTHER                                        -> {END}

NextToken ==
  /\ \E t \in Upcoming(Len(text) + 1) : text' = Append(text, t)
  /\ UNCHANGED input

(* A minus sign behind an expression is an operator, else the sign of a
   number: the state of Bison's automaton tells them apart. *)
Shift ==
  /\ phase = "parse"
  /\ Lookahead.kind \in Follow
  /\ \A rule \in Rules : ~Reads(rule)
  /\ stack' = Append(stack,
       [sym  |-> IF Lookahead.kind = "-" /\ Top # "Expr" THEN "sign" ELSE Lookahead.kind,
        text |-> Lookahead.text, node |-> NULL])
  /\ NextToken
  /\ UNCHANGED <<heap, freed, phase, root, at>>

(* The action of a rule: the string in a list of indices gets its node here. *)
Reduce ==
  /\ phase = "parse"
  /\ \E rule \in Rules :
       /\ Reads(rule)
       /\ LET below   == Len(stack) - Len(rule.rhs)
              rhs(i)  == stack[below + i]
              string  == IF rule.lhs = "IndexList" /\ Last(rule.rhs) = "STRING" /\ rule.right # 0
                           THEN <<Node("string", <<rhs(3).text>>, NULL, NULL)>> ELSE <<>>
              child(i) == CASE i = 0                        -> NULL
                            [] i = rule.right /\ string # <<>> -> Len(heap) + 1
                            [] OTHER                        -> rhs(i).node
              made    == IF rule.type = "" THEN <<>>
                         ELSE <<Node(rule.type, [i \in DOMAIN rule.data |-> rhs(rule.data[i]).text],
                                     child(rule.left), child(rule.right))>>
          IN  /\ heap' = heap \o string \o made
              /\ stack' = Append(SubSeq(stack, 1, below),
                   [sym |-> rule.lhs, text |-> "",
                    node |-> IF made = <<>> THEN child(rule.left) ELSE Len(heap')])
  /\ UNCHANGED <<input, text, freed, phase, root, at>>

Accept ==
  /\ phase = "parse"
  /\ Lookahead = END
  /\ Len(stack) = 1 /\ Top = "LocationPath"
  /\ root' = stack[1].node
  /\ stack' = <<>>
  /\ phase' = "modify"
  /\ at' = 1
  /\ UNCHANGED <<input, text, heap, freed>>

(* jerror ends the program. *)
SyntaxError ==
  /\ phase = "parse"
  /\ Lookahead.kind \notin Follow
  /\ \A rule \in Rules : ~IsHandle(rule)
  /\ ~(Lookahead = END /\ Len(stack) = 1 /\ Top = "LocationPath")
  /\ phase' = "error"
  /\ UNCHANGED <<input, text, stack, heap, freed, root, at>>

-----------------------------------------------------------------------------
(* evaluatorModifyReference comes to a node behind its children; what it   *)
(* returns for the node is written into the parent.  It is called on the   *)
(* whole tree, as in jsonpath_test.c; the builder calls it on each filter. *)

Replaced(h, n, new) ==
  [i \in DOMAIN h |-> [h[i] EXCEPT !.left  = IF @ = n THEN new ELSE @,
                                   !.right = IF @ = n THEN new ELSE @]]

Visits(leftType) ==
  /\ phase = "modify" /\ at <= root
  /\ heap[at].type = "concat"
  /\ heap[heap[at].left].type = leftType
  /\ at' = at + 1
  /\ UNCHANGED <<input, text, stack, root>>

NewestName(outer, name) == name                                       \* fault

VariableName(outer, name) == outer \o name

LeftOnly(node) == {node.left}                                         \* fault

(* What a concat @.x is freed with; the variable is a new node. *)
FreedWith(node) == {node.left, node.right}

(* @.x; the length of the name of @.* is read off a string never set. *)
ReferenceMember ==
  /\ Visits("reference")
  /\ LET node == heap[at] IN
     IF heap[node.right].type = "wildcard"
       THEN phase' = "undefined" /\ UNCHANGED <<heap, freed>>
       ELSE /\ heap' = Append(Replaced(heap, at, Len(heap) + 1),
                              Node("variable", VariableName(<<>>, heap[node.right].data), NULL, NULL))
            /\ freed' = freed \union FreedWith(node) \union {at}
            /\ UNCHANGED phase

(* @.x.y: the variable @.x gets the longer name and the place of the concat,
   whose left is read once more behind free(node): free leaves it alone. *)
VariableMember ==
  /\ Visits("variable")
  /\ LET node == heap[at] IN
     IF heap[node.right].type = "wildcard"
       THEN phase' = "undefined" /\ UNCHANGED <<heap, freed>>
       ELSE /\ heap' = [Replaced(heap, at, node.left) EXCEPT
                         ![node.left].data = VariableName(@, heap[node.right].data)]
            /\ freed' = freed \union {node.right, at}
            /\ UNCHANGED phase

VisitOther ==
  /\ phase = "modify" /\ at <= root
  /\ heap[at].type = "concat" => heap[heap[at].left].type \notin {"reference", "variable"}
  /\ at' = at + 1
  /\ UNCHANGED <<input, text, stack, heap, freed, phase, root>>

Finish ==
  /\ phase = "modify" /\ at > root
  /\ phase' = "done"
  /\ UNCHANGED <<input, text, stack, heap, freed, root, at>>

Init ==
  /\ input \in Inputs
  /\ text \in {<<t>> : t \in Upcoming(1)}
  /\ stack = <<>>
  /\ heap = <<>>
  /\ freed = {}
  /\ phase = "parse"
  /\ root = NULL
  /\ at = 0

Next ==
  \/ Shift \/ Reduce \/ Accept \/ SyntaxError
  \/ ReferenceMember \/ VariableMember \/ VisitOther \/ Finish

Spec == Init /\ [][Next]_vars

-----------------------------------------------------------------------------
RECURSIVE TreeOf(_)
TreeOf(n) ==
  IF n = NULL THEN Nil
  ELSE [type |-> heap[n].type, data |-> heap[n].data,
        left |-> TreeOf(heap[n].left), right |-> TreeOf(heap[n].right)]

Written == ReadPath(SelectSeq(text, LAMBDA t : t # END))

(* The tree is the one the text stands for: the precedences and the default
   of Bison for conflicts they do not decide, one lookahead at a time from left
   to right, amount to splitting an expression at its weakest operator.  A text
   is accepted if it stands for a tree, and the program gives up (jerror) only
   over one that does not. *)
TreeReadsAsText ==
  /\ phase = "modify" /\ at = 1 => TreeOf(root) = Written
  /\ phase = "error" => Written = Nothing

(* After evaluatorModifyReference each member of the filtered element, however
   deep and wherever in the expression, is one variable named from outside to
   inside, by which the automaton builder and the evaluator know it; all else
   is as it was written. *)
MembersBecomeVariables ==
  phase = "done" => TreeOf(root) = WithVariables(Written)

(* Each node that was made and not freed has one owner, the parser's stack, the
   root or another node, and nothing points to one that was freed: while trees
   are joined, and while members are cut out of them and variables put in. *)
NodesHaveOneOwner ==
  LET live      == DOMAIN heap \ freed
      owners(n) == {<<i, 1>> : i \in {i \in live : heap[i].left = n}} \union
                   {<<i, 2>> : i \in {i \in live : heap[i].right = n}} \union
                   {<<i, 3>> : i \in {i \in DOMAIN stack : stack[i].node = n}} \union
                   {<<0, 4>> : i \in {root} \intersect {n}}
  IN  \A n \in DOMAIN heap : Cardinality(owners(n)) = IF n \in live THEN 1 ELSE 0
=============================================================================
