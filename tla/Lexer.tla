------------------------------- MODULE Lexer -------------------------------
(***************************************************************************)
(* The lexer of src/parser_graphqlperl_runtime.h and the string decoding   *)
(* of src/parser_core.h.                                                   *)
(*                                                                         *)
(* A source is a sequence of characters.  A character is a one-character   *)
(* string or one of the names LF, CR, TAB, NUL, BOM (the three bytes of a  *)
(* byte order mark) and CTRL (any other control character).  Positions     *)
(* count from 0, as in the code.                                           *)
(***************************************************************************)
EXTENDS Integers, Sequences, FiniteSets, SequencesExt

CONSTANTS
  MaxTokens,   \* GQL_PARSER_MAX_TOKENS
  MaxDepth     \* GQL_PARSER_MAX_DEPTH

ASSUME LimitsAssumption == MaxTokens \in Nat \ {0} /\ MaxDepth \in Nat \ {0}

Digit == {"0", "1", "2", "3", "4", "5", "6", "7", "8", "9"}
Letter == {"a", "b", "c", "d", "e", "f", "n", "o", "r", "t", "u", "x",
           "A", "B", "C", "D", "E", "F"}
Hex == Digit \cup {"a", "b", "c", "d", "e", "f", "A", "B", "C", "D", "E", "F"}
NameStart == Letter \cup {"_"}
NameContinue == NameStart \cup Digit
Newline == {"LF", "CR"}
Forbidden == {"NUL", "CTRL"}
Control == Newline \cup Forbidden \cup {"TAB"}
Blank == Newline \cup {",", " ", "TAB", "BOM"}
SimpleEscape == {"\"", "\\", "/", "b", "f", "n", "r", "t"}

\* strchr looks the escape up in a C string, whose end is a NUL it also finds.
FoundEscape == SimpleEscape \cup {"NUL"}

Punctuator ==
  "!" :> "BANG" @@ "$" :> "DOLLAR" @@ "&" :> "AMP" @@ "(" :> "LPAREN" @@
  ")" :> "RPAREN" @@ ":" :> "COLON" @@ "=" :> "EQUALS" @@ "@" :> "AT" @@
  "[" :> "LBRACKET" @@ "]" :> "RBRACKET" @@ "{" :> "LBRACE" @@
  "}" :> "RBRACE" @@ "|" :> "PIPE"

TokenKind == {Punctuator[c] : c \in DOMAIN Punctuator} \cup
  {"EOF", "SPREAD", "NAME", "INT", "FLOAT", "STRING", "BLOCK_STRING"}

End == "END"
Ch(s, i) == IF i < Len(s) THEN s[i + 1] ELSE End

\* The first position from i on whose character is not in C.
RunEnd(s, i, C) ==
  CHOOSE j \in i..(IF i > Len(s) THEN i ELSE Len(s)) :
    /\ Ch(s, j) \notin C
    /\ \A k \in i..j - 1 : Ch(s, k) \in C

ThreeQuotes(s, i) == \A k \in 0..2 : Ch(s, i + k) = "\""

-----------------------------------------------------------------------------
(* Tokens *)

Lexeme(kind, start, end, vstart, vend) ==
  [kind |-> kind, start |-> start, end |-> end, vstart |-> vstart, vend |-> vend]
Invalid(start) == Lexeme("INVALID", start, start, start, start)

RECURSIVE skip_ignored(_, _)
skip_ignored(s, i) ==
  CASE Ch(s, i) \in Blank -> skip_ignored(s, i + 1)
    [] Ch(s, i) = "#" ->
         LET eol == CHOOSE j \in i..Len(s) :
                      /\ Ch(s, j) \in Newline \cup {End}
                      /\ \A k \in i..j - 1 : Ch(s, k) \notin Newline
         IN  skip_ignored(s, IF eol < Len(s) THEN eol + 1 ELSE eol)
    [] OTHER -> i

\* Where the body of a string that starts at i ends, or -1.
RECURSIVE string_end(_, _)
string_end(s, i) ==
  LET c == Ch(s, i)
  IN  CASE c = "\"" -> i
        [] c = "\\" /\ Ch(s, i + 1) \in FoundEscape -> string_end(s, i + 2)
        [] c = "\\" /\ Ch(s, i + 1) = "u" ->
             IF \A k \in 2..5 : Ch(s, i + k) \in Hex
             THEN string_end(s, i + 6) ELSE -1
        [] c = "\\" /\ Ch(s, i + 1) \notin FoundEscape \cup {"u"} -> -1
        [] c \in Control \cup {End} -> -1
        [] OTHER -> string_end(s, i + 1)

RECURSIVE block_string_end(_, _)
block_string_end(s, i) ==
  CASE i >= Len(s) -> -1
    [] ThreeQuotes(s, i) -> i
    [] Ch(s, i) \in Forbidden -> -1
    [] Ch(s, i) = "\\" /\ ThreeQuotes(s, i + 1) -> block_string_end(s, i + 4)
    [] OTHER -> block_string_end(s, i + 1)

lex_string(s, i) ==
  IF ThreeQuotes(s, i)
  THEN LET e == block_string_end(s, i + 3)
       IN  IF e < 0 THEN Invalid(i) ELSE Lexeme("BLOCK_STRING", i, e + 3, i + 3, e)
  ELSE LET e == string_end(s, i + 1)
       IN  IF e < 0 THEN Invalid(i) ELSE Lexeme("STRING", i, e + 1, i + 1, e)

\* Where the parts of a number that starts at i end; each part may be missing.
NumberParts(s, i) ==
  LET first == IF Ch(s, i) = "-" THEN i + 1 ELSE i
      int   == IF Ch(s, first) = "0" THEN first + 1 ELSE RunEnd(s, first, Digit)
      point == Ch(s, int) = "."
      frac  == IF point THEN RunEnd(s, int + 1, Digit) ELSE int
      exp   == Ch(s, frac) \in {"e", "E"}
      digits == IF Ch(s, frac + 1) \in {"+", "-"} THEN frac + 2 ELSE frac + 1
  IN  [first |-> first, int |-> int, point |-> point, frac |-> frac, exp |-> exp,
       digits |-> digits, end |-> IF exp THEN RunEnd(s, digits, Digit) ELSE frac]

Number(s, i, n) ==
  Lexeme(IF n.point \/ n.exp THEN "FLOAT" ELSE "INT", i, n.end, i, n.end)

lex_number(s, i) ==
  LET n == NumberParts(s, i)
  IN  IF \/ Ch(s, n.first) \notin Digit
         \/ Ch(s, n.first) = "0" /\ Ch(s, n.int) \in Digit
         \/ n.point /\ n.frac = n.int + 1
         \/ n.exp /\ n.end = n.digits
      THEN Invalid(i) ELSE Number(s, i, n)

lex_token(s, i) ==
  LET c == Ch(s, i)
  IN  CASE c = End -> Lexeme("EOF", i, i, i, i)
        [] c \in DOMAIN Punctuator -> Lexeme(Punctuator[c], i, i + 1, i, i)
        [] c = "." ->
             IF Ch(s, i + 1) = "." /\ Ch(s, i + 2) = "."
             THEN Lexeme("SPREAD", i, i + 3, i, i) ELSE Invalid(i)
        [] c = "\"" -> lex_string(s, i)
        [] c \in Digit \cup {"-"} -> lex_number(s, i)
        [] c \in NameStart ->
             LET e == RunEnd(s, i, NameContinue) IN Lexeme("NAME", i, e, i, e)
        [] OTHER -> Invalid(i)

-----------------------------------------------------------------------------
(* Lines *)

\* gql_parser_init: where each line starts; CR LF is one line break.
line_starts(s) ==
  <<0>> \o SelectSeq([i \in 1..Len(s) |-> i],
     LAMBDA i : \/ Ch(s, i - 1) = "LF"
                \/ (Ch(s, i - 1) = "CR" /\ Ch(s, i) # "LF"))

\* The binary search of gql_line_column_from_pos; low and high are indices
\* into the line starts, counted from 0.
RECURSIVE find_line(_, _, _, _, _)
find_line(starts, pos, low, high, found) ==
  IF low > high THEN found
  ELSE LET mid == low + ((high - low) \div 2)
       IN  IF starts[mid + 1] <= pos
           THEN find_line(starts, pos, mid + 1, high, mid)
           ELSE find_line(starts, pos, low, mid - 1, found)

\* Position -1 stands for "nothing was read yet".
line_column_from_pos(s, pos, base) ==
  IF pos = -1 THEN [line |-> 1, column |-> 0]
  ELSE LET starts == line_starts(s)
           found  == find_line(starts, pos, 0, Len(starts) - 1, 0)
       IN  [line |-> found + 1, column |-> pos - starts[found + 1] + base]

-----------------------------------------------------------------------------
(* Escapes of a string that the lexer accepted.  A decoded character is     *)
(* <<"char", c>> or, for a numbered code point, <<"code", n>>.              *)

HexValue ==
  [d \in Digit |-> CHOOSE n \in 0..9 : ToString(n) = d] @@
  "a" :> 10 @@ "b" :> 11 @@ "c" :> 12 @@ "d" :> 13 @@ "e" :> 14 @@ "f" :> 15 @@
  "A" :> 10 @@ "B" :> 11 @@ "C" :> 12 @@ "D" :> 13 @@ "E" :> 14 @@ "F" :> 15

hex4_to_uv(s, i) ==
  HexValue[Ch(s, i)] * 4096 + HexValue[Ch(s, i + 1)] * 256
    + HexValue[Ch(s, i + 2)] * 16 + HexValue[Ch(s, i + 3)]

Unescaped ==
  "\"" :> "\"" @@ "\\" :> "\\" @@ "/" :> "/" @@ "b" :> "BS" @@ "f" :> "FF" @@
  "n" :> "LF" @@ "r" :> "CR" @@ "t" :> "TAB"

\* A pair of surrogates becomes one character; a lone one is kept as it is.
RECURSIVE unescape_from(_, _)
unescape_from(s, i) ==
  IF i >= Len(s) THEN <<>>
  ELSE IF Ch(s, i) = "\\" /\ Ch(s, i + 1) \in SimpleEscape
  THEN <<<<"char", Unescaped[Ch(s, i + 1)]>>>> \o unescape_from(s, i + 2)
  ELSE IF Ch(s, i) = "\\" /\ Ch(s, i + 1) = "u" /\ i + 5 < Len(s)
  THEN LET high == hex4_to_uv(s, i + 2)
           pair == /\ high \in 55296..56319
                   /\ i + 11 < Len(s)
                   /\ Ch(s, i + 6) = "\\" /\ Ch(s, i + 7) = "u"
           low  == IF pair THEN hex4_to_uv(s, i + 8) ELSE 0
       IN  IF pair /\ low \in 56320..57343
           THEN <<<<"code", 65536 + (high - 55296) * 1024 + (low - 56320)>>>>
                \o unescape_from(s, i + 12)
           ELSE <<<<"code", high>>>> \o unescape_from(s, i + 6)
  ELSE <<<<"char", Ch(s, i)>>>> \o unescape_from(s, i + 1)

unescape_string(s) == unescape_from(s, 0)

-----------------------------------------------------------------------------
(* The lexer at work: p is the parser's cursor, tokens what it has produced *)

VARIABLES source, p, tokens

lexVars == <<source, p, tokens>>

LexInit(Sources) ==
  /\ source \in Sources
  /\ p = [pos |-> 0, last_pos |-> -1, count |-> 0, status |-> "preflight"]
  /\ tokens = <<>>

\* The tokens of a whole scan, up to the first that is refused.
RECURSIVE scan_tokens(_, _)
scan_tokens(s, i) ==
  LET t == lex_token(s, skip_ignored(s, i))
  IN  IF t.kind \in {"EOF", "INVALID"} THEN <<t>>
      ELSE <<t>> \o scan_tokens(s, t.end)

\* A source of no more bytes than MaxTokens is not scanned in advance.
preflight_token_limit ==
  /\ p.status = "preflight"
  /\ LET all == scan_tokens(source, 0)
     IN  p' = [p EXCEPT !.status =
                 IF /\ Len(source) > MaxTokens
                    /\ \/ Len(all) - 1 > MaxTokens
                       \/ Last(all).kind = "INVALID"
                 THEN "refused" ELSE "lexing"]
  /\ UNCHANGED <<source, tokens>>

\* Mutant: the end of the document counts as a token.
advance_counting_eof ==
  /\ p.status = "lexing"
  /\ LET t     == lex_token(source, skip_ignored(source, p.pos))
         count == p.count + 1
     IN  IF count > MaxTokens \/ t.kind = "INVALID"
         THEN /\ p' = [p EXCEPT !.status = "refused", !.count = count]
              /\ UNCHANGED tokens
         ELSE /\ p' = [pos |-> t.end, count |-> count,
                       last_pos |-> IF p.pos > 0 THEN p.pos - 1 ELSE p.last_pos,
                       status |-> IF t.kind = "EOF" THEN "lexed" ELSE "lexing"]
              /\ tokens' = Append(tokens, t)
  /\ UNCHANGED source

\* gql_advance: an end of input is not counted, any other token is, before it is read.
advance ==
  /\ p.status = "lexing"
  /\ LET i     == skip_ignored(source, p.pos)
         t     == lex_token(source, i)
         count == p.count + (IF t.kind = "EOF" THEN 0 ELSE 1)
     IN  IF count > MaxTokens \/ t.kind = "INVALID"
         THEN /\ p' = [p EXCEPT !.status = "refused", !.count = count]
              /\ UNCHANGED tokens
         ELSE /\ p' = [pos |-> t.end, count |-> count,
                       last_pos |-> IF p.pos > 0 THEN p.pos - 1 ELSE p.last_pos,
                       status |-> IF t.kind = "EOF" THEN "lexed" ELSE "lexing"]
              /\ tokens' = Append(tokens, t)
  /\ UNCHANGED source

LexNext == preflight_token_limit \/ advance

=============================================================================
