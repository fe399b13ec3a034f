------------------------------- MODULE MCLexer -------------------------------
(***************************************************************************)
(* Strings, literals and blanks the lexer is checked with.                 *)
(***************************************************************************)
EXTENDS Lexer

\* "\" ,", "\\"
SomeStrings == {<<"backslash", Quote, "blank", ",">>, <<"backslash", "backslash">>}
OneString   == {<<"alnum">>}

\* 1.5 and -5
Unsigned == {<<"alnum", "point", "alnum">>}
Negative == {<<"minus", "alnum">>}

Blank   == <<"blank">>
Newline == <<"newline">>

Spaced == [between |-> {<<>>, Newline}, behindKey |-> {<<>>, Blank},
           beforeLiteral |-> {Blank, Newline}, behindLiteral |-> {<<>>, Blank}]
Dense  == [between |-> {<<>>}, behindKey |-> {<<>>},
           beforeLiteral |-> {<<>>}, behindLiteral |-> {<<>>}]
=============================================================================
