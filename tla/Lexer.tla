-------------------------------- MODULE Lexer --------------------------------
(***************************************************************************)
(* nextToken (lexing.c): the characters of a stream as tokens.  A JSON     *)
(* text is written first, token by token as JsonStream orders them, with   *)
(* blanks between them; then the lexer reads it.                           *)
(*                                                                         *)
(* Characters are known by what the switch tells apart: the symbols, a     *)
(* quote, a backslash, a colon, a blank (space or tab), a letter or digit  *)
(* (alnum), and the rest (newline, minus sign, point, ...).                *)
(*                                                                         *)
(*   text, written   the stream, and the tokens it was written for         *)
(*   current_pointer, next_start    of Lexer, as indices of text           *)
(*   delivered       the tokens nextToken has returned                     *)
(*                                                                         *)
(* lex_state is 0 whenever nextToken returns, and lex_state 1 and 2 are    *)
(* the inside of a string and of a bare literal below.                     *)
(***************************************************************************)
EXTENDS JsonStream, FiniteSetsExt

CONSTANTS Strings,    \* the bodies of the strings
          Literals,   \* the numbers, and true, false, null
          Layout      \* the blanks a text may have: between tokens, behind a
                      \* key, in front of and behind a literal

Quote  == "quote"
Symbols == [LCB |-> "{", RCB |-> "}", LB |-> "[", RB |-> "]", COM |-> ","]
Char == Range(Symbols) \union {Quote, "backslash", "colon", "blank", "alnum",
                               "newline", "minus", "point"}

ASSUME StringsAssumption == Strings \subseteq Seq(Char)
ASSUME LiteralsAssumption == Literals \subseteq Seq(Char) \ {<<>>}
ASSUME LayoutAssumption ==
  Layout \in [{"between", "behindKey", "beforeLiteral", "behindLiteral"} ->
                SUBSET Seq({"blank", "newline"})]

VARIABLES text, written, current_pointer, next_start, delivered

lexerVars == <<current_pointer, next_start>>
vars == <<streamVars, text, written, lexerVars, delivered>>

(***************************************************************************)
(* The text.                                                               *)
(***************************************************************************)
Token(type, content) == [type |-> type, content |-> content]

Quoted(s) == <<Quote>> \o s \o <<Quote>>

(* A literal follows a key only if nothing but blanks is between them. *)
BlanksFor(type, literal) ==
  CASE literal /\ written # <<>> /\ Last(written).type = "KY"     -> Layout.beforeLiteral
    [] written # <<>> /\ Last(written).type = "PRI"
                      /\ Last(written).content[1] # Quote         -> Layout.behindLiteral
    [] OTHER                                                      -> Layout.between

Write(token, literal, chars) ==
  /\ \E blanks \in BlanksFor(token.type, literal) : text' = text \o blanks \o chars
  /\ written' = Append(written, token)
  /\ UNCHANGED <<lexerVars, delivered>>

WriteSymbol(type) == Write(Token(type, <<>>), FALSE, <<Symbols[type]>>)

(* A text that is a bare literal needs a blank at its end. *)
WriteToken ==
  \/ ReadLCB /\ WriteSymbol("LCB")
  \/ ReadRCB /\ WriteSymbol("RCB")
  \/ ReadLB /\ WriteSymbol("LB")
  \/ ReadRB /\ WriteSymbol("RB")
  \/ ReadCOM /\ WriteSymbol("COM")
  \/ \E k \in Keys, s \in Strings, blanks \in Layout.behindKey :
       /\ ReadKY(k)
       /\ Write(Token("KY", s), FALSE, Quoted(s) \o blanks \o <<"colon">>)
  \/ \E s \in Strings : ReadPRI /\ Write(Token("PRI", Quoted(s)), FALSE, Quoted(s))
  \/ \E l \in Literals :
       /\ open # <<>>
       /\ ReadPRI
       /\ Write(Token("PRI", l), TRUE, l)

(***************************************************************************)
(* nextToken: [type, content], and where the lexer is then.                *)
(***************************************************************************)
End == Len(text) + 1

(* The first of these positions from n on, End if there is none. *)
FirstFrom(n, positions) == Min({m \in positions : m >= n} \union {End})

At(chars) == {n \in 1 .. Len(text) : text[n] \in chars}

(* What is skipped in front of a token: blanks, and whatever begins none. *)
BeginsToken == At(Range(Symbols) \union {Quote, "alnum"})

token_begin == FirstFrom(next_start, BeginsToken)

(* start stays behind if nothing was skipped. *)
start == IF token_begin = next_start THEN current_pointer ELSE token_begin

Result(type, content, pointer, next) ==
  [type |-> type, content |-> content, pointer |-> pointer, next |-> next]

EndOfStream == Result("END", <<>>, current_pointer, next_start)

symbol ==
  Result(CHOOSE type \in DOMAIN Symbols : Symbols[type] = text[token_begin], <<>>,
         token_begin + 1, token_begin + 1)

(* A quote behind an odd number of backslashes belongs to the string. *)
OneBackslash(n) == n > 1 /\ text[n-1] = "backslash"                            \* fault

Escaped(n) ==
  (n - 1 - Max({0} \union {m \in 1 .. n - 1 : text[m] # "backslash"})) % 2 = 1

string ==
  LET close == FirstFrom(token_begin + 1, {n \in At({Quote}) : ~Escaped(n)})
      after == FirstFrom(close + 1, At(Char \ {"blank"}))
      body  == SubSeq(text, token_begin + 1, close - 1)
  IN  IF close = End THEN EndOfStream
      ELSE IF after < End /\ text[after] = "colon"
        THEN Result("KY", body, after, after + 1)
        ELSE Result("PRI", Quoted(body), current_pointer, after)

(* The text of a literal is as long as the distance from start to the character
   that ends it; a comma at its end is taken off. *)
literal ==
  LET stop == FirstFrom(token_begin + 1, At({"}", "]", ",", "blank"}))
      last == token_begin + (stop - start) - 1
  IN  IF stop = End THEN EndOfStream
      ELSE Result("PRI",
                  SubSeq(text, token_begin, IF text[last] = "," THEN last - 1 ELSE last),
                  stop + 1, stop)

nextToken ==
  IF token_begin = End THEN EndOfStream
  ELSE CASE text[token_begin] = Quote   -> string
         [] text[token_begin] = "alnum" -> literal
         [] OTHER                       -> symbol

ReadToken ==
  /\ expect = "end"
  /\ nextToken.type # "END"
  /\ delivered' = Append(delivered, Token(nextToken.type, nextToken.content))
  /\ current_pointer' = nextToken.pointer
  /\ next_start' = nextToken.next
  /\ UNCHANGED <<streamVars, text, written>>

(* initLexer *)
Init ==
  /\ StreamInit
  /\ text = <<>>
  /\ written = <<>>
  /\ current_pointer = 1
  /\ next_start = 1
  /\ delivered = <<>>

Next == WriteToken \/ ReadToken

Spec == Init /\ [][Next]_vars
-----------------------------------------------------------------------------
(***************************************************************************)
(* Properties.                                                             *)
(***************************************************************************)
(* The tokens nextToken returns are, in order, those the text was written for,
   with the text of each key and primitive, and END comes behind the last one:
   wherever blanks are, whatever characters a string has, and although a literal
   ends at a character that belongs to the next token. *)
DeliversTokens ==
  /\ IsPrefix(delivered, written)
  /\ expect = "end" /\ nextToken.type = "END" => delivered = written
=============================================================================
