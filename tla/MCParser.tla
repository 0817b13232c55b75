------------------------------ MODULE MCParser ------------------------------
(***************************************************************************)
(* Short sources over the characters each lexical rule is about, sentences *)
(* of every definition and all their one-token changes, and small arenas,  *)
(* arrays and line tables.                                                 *)
(***************************************************************************)
EXTENDS ParserRules

UpTo(n, C) == UNION {[1..k -> C] : k \in 0..n}

Quoted(w) == <<"\"">> \o w \o <<"\"">>
CodePoints ==
  UpTo(2, {<<"char", c>> : c \in {"a", "\"", "\\", "LF", "/"}}
          \cup {<<"code", n>> : n \in {233, 55357, 56832, 128512}})
\* A high surrogate right before a low one is a pair, not two characters.
Encodable == {cs \in CodePoints : cs # <<<<"code", 55357>>, <<"code", 56832>>>>}

MCSources ==
  UpTo(4, {"0", "1", "-", ".", "e", "+", "a"})
  \cup UpTo(4, {"a", "#", "LF", "CR", "BOM", "$"})
  \cup UpTo(2, {"_", "0", "!", "&", "(", ")", ":", "=", "@", "[", "]", "{", "}", "|", ".",
                "CTRL", "NUL", "TAB", " ", ",", "?"})
  \cup {<<"\"">> \o w : w \in UpTo(4, {"\"", "\\", "u", "n", "a", "LF", "NUL"})}
  \cup {<<"\"", "\"", "\"">> \o w : w \in UpTo(4, {"\"", "\\", "LF", "NUL"})}
  \cup {<<"\"", "\"", "\"">> \o w \o <<"\"", "\"", "\"">> : w \in UpTo(3, {"\"", "\\"})}
  \cup {<<"\"", "\\", "u">> \o w \o <<"\"">> : w \in [1..4 -> {"0", "F", "n"}]}
  \cup {Quoted(Escape(cs)) : cs \in Encodable}

\* A string of escapes reads back as the characters it was written for
\* (gql_unescape_string_sv, gql_hex4_to_uv).
EscapesDecode ==
  p.status = "lexed" /\ Len(tokens) = 2 /\ tokens[1].kind = "STRING" =>
    \A cs \in Encodable :
      source = Quoted(Escape(cs)) =>
        unescape_string(SubSeq(source, 2, Len(source) - 1)) = cs

\* The one escape that the lexer takes and the grammar does not know.
EscapesNul(s) == \E k \in 1..Len(s) - 1 : s[k] = "\\" /\ s[k + 1] = "NUL"

\* A source is cut into the lexemes the grammar says, up to the token limit, at
\* the lines they are on, and a string holds what its escapes stand for
\* (gql_lex_token, gql_advance, gql_line_column_from_pos, gql_unescape_string).
\* Sources with a backslash before a NUL are InvalidEscapesAreRejected's.
LexingFollowsTheGrammar ==
  /\ ~EscapesNul(source) => LexemesAreTheGrammars /\ TokenLimitIsExact
  /\ LinesAreCounted
  /\ EscapesDecode

-----------------------------------------------------------------------------

Tok(w) ==
  IF w \in DOMAIN Punctuator THEN [kind |-> Punctuator[w], text |-> w]
  ELSE CASE w = "..." -> [kind |-> "SPREAD", text |-> w]
         [] w = "1" -> [kind |-> "INT", text |-> w]
         [] w = "1.5" -> [kind |-> "FLOAT", text |-> w]
         [] w = "'s" -> [kind |-> "STRING", text |-> w]
         [] w = "'b" -> [kind |-> "BLOCK_STRING", text |-> w]
         [] OTHER -> [kind |-> "NAME", text |-> w]

Sentences == {
  <<"{", "a", "}">>,
  <<"{", "a", ":", "b", "(", "x", ":", "$", "v", "y", ":", "1", ")", "}">>,
  <<"{", "a", "@", "d", "@", "e", "(", "x", ":", "1.5", ")", "{", "b", "}", "}">>,
  <<"{", "...", "on", "T", "@", "d", "{", "a", "}", "...", "F", "}">>,
  <<"{", "...", "{", "a", "}", "...", "@", "d", "{", "a", "}", "}">>,
  <<"{", "a", "(", "x", ":", "[", "1", "true", "null", "E", "]", ")", "}">>,
  <<"{", "a", "(", "x", ":", "{", "k", ":", "'s", "l", ":", "[", "]", "}", ")", "}">>,
  <<"{", "a", "{", "b", "(", "x", ":", "[", "1", "]", ")", "}", "}">>,
  <<"{", "a", "(", "x", ":", "1", "y", ":", "1", "x", ":", "$", "v", ")", "}">>,
  <<"query", "q", "(", "$", "v", ":", "T", "@", "d", "(", "x", ":", "{", "k", ":", "1", "}", ")",
    "$", "w", ":", "T", "=", "'s", ")", "{", "a", "}">>,
  <<"query", "q", "(", "$", "v", ":", "[", "T", "!", "]", "!", "=", "[", "1", "]",
    "@", "d", ")", "@", "e", "{", "a", "}">>,
  <<"query", "(", "$", "v", ":", "T", "=", "[", "{", "k", ":", "$", "w", "}", "]", ")",
    "{", "a", "}">>,
  <<"{", "a", "(", "x", ":", "[", "{", "k", ":", "[", "]", "}", "]", ")", "}">>,
  <<"{", "a", "(", "x", ":", "[", "[", "]", "[", "]", "]", ")", "{", "b", "}", "}">>,
  <<"mutation", "(", "'s", "$", "v", ":", "T", "$", "w", ":", "T", ")", "{", "a", "}">>,
  <<"subscription", "{", "a", "}", "{", "b", "}">>,
  <<"'s", "fragment", "F", "on", "T", "@", "d", "{", "a", "}">>,
  <<"schema", "@", "d", "{", "query", ":", "Q", "mutation", ":", "M", "}">>,
  <<"'b", "scalar", "S", "@", "d", "(", "x", ":", "1", ")">>,
  <<"type", "T", "implements", "&", "A", "&", "B", "@", "d", "{", "f", ":", "T", "}">>,
  <<"type", "T", "{", "'s", "f", "(", "x", ":", "T", "=", "1", ")", ":", "T", "@", "d",
    "g", ":", "T", "f", ":", "T", "}">>,
  <<"interface", "I", "scalar", "S">>,
  <<"input", "I", "{", "a", ":", "T", "=", "{", "k", ":", "1", "}", "b", ":", "T", "}">>,
  <<"union", "U", "@", "d", "=", "|", "A", "|", "B">>,
  <<"enum", "E", "@", "d", "{", "'s", "A", "B", "@", "d", "A", "}">>,
  <<"directive", "@", "d", "(", "x", ":", "T", "x", ":", "T", ")", "repeatable", "on",
    "|", "A", "|", "B">>,
  <<"extend", "type", "T", "{", "f", ":", "T", "}">>,
  <<"extend", "schema", "@", "d", "{", "query", ":", "Q", "}">>,
  <<"extend", "scalar", "S", "@", "d">>,
  <<"extend", "interface", "I", "implements", "A">>,
  <<"extend", "union", "U", "=", "A">>,
  <<"extend", "enum", "E", "{", "A", "}">>,
  <<"extend", "input", "I", "{", "a", ":", "T", "}">>,
  <<"extend", "directive", "@", "d", "on", "A">>}

Others == {"{", "}", "(", ")", ":", "$", "@", "[", "a", "on", "null", "1", "'s", "..."}
OneChange(w) ==
  {w} \cup {RemoveAt(w, k) : k \in DOMAIN w}
      \cup {ReplaceAt(w, k, o) : k \in DOMAIN w, o \in Others}
      \cup {InsertAt(w, k, w[k]) : k \in DOMAIN w}

DocumentOf(w, validating) ==
  [t |-> [k \in DOMAIN w |-> Tok(w[k])], line |-> [k \in 1..Len(w) + 1 |-> 1 + k \div 3],
   trailing |-> Len(w) % 2 = 0, validating |-> validating]
MCDocuments ==
  {DocumentOf(w, TRUE) : w \in UNION {OneChange(s) : s \in Sentences}}
  \cup {DocumentOf(w, TRUE) : w \in UNION {OneChange(v) :
          v \in UNION {OneChange(s) : s \in {t \in Sentences : Len(t) <= 6}}}}
  \cup {DocumentOf(w, FALSE) : w \in Sentences}

-----------------------------------------------------------------------------

MCLineStarts == <<0, 3, 4, 9>>
Rewrite(o, a, b, d) ==
  [original_start |-> o, rewritten_start |-> a, rewritten_end |-> b, delta_after |-> d]
MCRewrites == {<<>>, <<Rewrite(2, 2, 5, -2), Rewrite(8, 10, 11, 1)>>}

VARIABLES job

vars == <<job, lexVars, parseVars, memoryVars>>

IdleLexer == source = <<>> /\ tokens = <<>> /\
  p = [pos |-> 0, last_pos |-> -1, count |-> 0, status |-> "idle"]
IdleParser == document = <<>> /\
  parsing = [i |-> 1, definitions |-> <<>>, errors |-> <<>>, status |-> "idle"]
IdleMemory == arena = <<>> /\ blocks = <<>> /\ array = NoArray /\ answers = <<>> /\
  ctx = [rewrites |-> <<>>, has_last |-> FALSE, last_pos |-> 0, last_line |-> 0]

Init ==
  \/ job = "lex" /\ LexInit(MCSources) /\ IdleParser /\ IdleMemory
  \/ job = "parse" /\ ParseInit(MCDocuments) /\ IdleLexer /\ IdleMemory
  \/ job = "memory" /\ MemoryInit /\ IdleLexer /\ IdleParser

\* Blocks, arrays and locations do not meet, so each is tried from a fresh start.
Alone ==
  \/ array = NoArray /\ ~ctx.has_last
  \/ arena = <<>> /\ ~ctx.has_last
  \/ arena = <<>> /\ array = NoArray

Next ==
  /\ UNCHANGED job
  /\ \/ LexNext /\ UNCHANGED <<parseVars, memoryVars>>
     \/ parse_definitions /\ UNCHANGED <<lexVars, memoryVars>>
     \/ /\ job = "memory" /\ MemoryNext /\ Alone'
        /\ UNCHANGED <<lexVars, parseVars>>

Spec == Init /\ [][Next]_vars

=============================================================================
