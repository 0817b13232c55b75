---------------------------- MODULE ParserRules ----------------------------
(***************************************************************************)
(* What the parser is meant to do, stated without its algorithms: the      *)
(* lexemes as sets of character sequences, the grammar as data, and what   *)
(* the second pipeline and its memory have to agree with.                  *)
(***************************************************************************)
EXTENDS ParserIR, ParserMemory

-----------------------------------------------------------------------------
(* Lexemes *)

AllIn(w, C) == \A k \in DOMAIN w : w[k] \in C

IsName(w) == Len(w) > 0 /\ w[1] \in NameStart /\ AllIn(w, NameContinue)

IsDigits(w) == Len(w) > 0 /\ AllIn(w, Digit)
IsInteger(w) ==
  LET n == IF Len(w) > 0 /\ w[1] = "-" THEN Tail(w) ELSE w
  IN  IsDigits(n) /\ (n[1] = "0" => Len(n) = 1)
IsFraction(w) == Len(w) > 1 /\ w[1] = "." /\ IsDigits(Tail(w))
IsExponent(w) ==
  /\ Len(w) > 1 /\ w[1] \in {"e", "E"}
  /\ \/ IsDigits(Tail(w))
     \/ w[2] \in {"+", "-"} /\ IsDigits(SubSeq(w, 3, Len(w)))
IsFloat(w) ==
  \E a \in DOMAIN w : \E b \in a..Len(w) :
    LET frac == SubSeq(w, a + 1, b)
        exp  == SubSeq(w, b + 1, Len(w))
    IN  /\ IsInteger(SubSeq(w, 1, a))
        /\ IF frac = <<>> THEN IsExponent(exp)
           ELSE IsFraction(frac) /\ (exp = <<>> \/ IsExponent(exp))

\* A character is escaped if an odd run of backslashes ends right before it.
Escaped(w, k) ==
  LET plain == {j \in 1..k - 1 : w[j] # "\\"}
      from  == IF plain = {} THEN 0 ELSE CHOOSE j \in plain : \A i \in plain : i <= j
  IN  (k - 1 - from) % 2 = 1

IsString(w) ==
  LET body == SubSeq(w, 2, Len(w) - 1)
  IN  /\ Len(w) >= 2 /\ w[1] = "\"" /\ w[Len(w)] = "\""
      /\ \A k \in DOMAIN body :
           /\ body[k] \notin Control
           /\ body[k] = "\"" => Escaped(body, k)
           /\ Escaped(body, k) =>
                \/ body[k] \in SimpleEscape
                \/ /\ body[k] = "u" /\ k + 4 <= Len(body)
                   /\ \A h \in k + 1..k + 4 : body[h] \in Hex
      /\ ~Escaped(body, Len(body) + 1)

\* Three quotes close a block unless they belong to an escaped three.
Closes(w, k) ==
  LET three(i) == i + 2 <= Len(w) /\ \A h \in i..i + 2 : w[h] = "\""
  IN  three(k) /\ \A e \in k - 3..k - 1 : e > 3 /\ w[e] = "\\" => ~three(e + 1)
IsBlock(w) ==
  /\ Len(w) >= 6 /\ \A k \in 1..3 : w[k] = "\""
  /\ {k \in 4..Len(w) : Closes(w, k)} = {Len(w) - 2}
  /\ \A k \in 4..Len(w) - 3 : w[k] \notin Forbidden

IsLexeme(kind, w) ==
  CASE kind = "NAME" -> IsName(w)
    [] kind = "INT" -> IsInteger(w)
    [] kind = "FLOAT" -> IsFloat(w)
    [] kind = "STRING" -> IsString(w)
    [] kind = "BLOCK_STRING" -> IsBlock(w)
    [] kind = "SPREAD" -> w = <<".", ".", ".">>
    [] kind = "EOF" -> FALSE
    [] OTHER -> Len(w) = 1 /\ w[1] \in DOMAIN Punctuator /\ Punctuator[w[1]] = kind

\* A number is not followed by what would continue it (the letters that the GraphQL
\* specification also excludes are taken), two quotes not by a third.
MayEnd(kind, w, next) ==
  CASE kind = "INT" -> next \notin Digit \cup {".", "e", "E"}
    [] kind = "FLOAT" ->
         next \notin Digit /\ (AllIn(w, Digit \cup {"-", "."}) => next \notin {"e", "E"})
    [] kind = "STRING" -> Len(w) > 2 \/ next # "\""
    [] OTHER -> TRUE

LexemesAt(s, i) ==
  {l \in TokenKind \X (i + 1..Len(s)) :
     LET w == SubSeq(s, i + 1, l[2])
     IN  IsLexeme(l[1], w) /\ MayEnd(l[1], w, Ch(s, l[2]))}

Longest(ls) == CHOOSE l \in ls : \A k \in ls : k[2] <= l[2]

\* Only blanks and comments lie between two positions.
IsIgnored(s, i, j) ==
  \A k \in i..j - 1 :
    \/ Ch(s, k) \in Blank
    \/ \E h \in i..k : Ch(s, h) = "#" /\ \A m \in h..k : Ch(s, m) \notin Newline

FirstNotIgnored(s, i) ==
  CHOOSE j \in i..Len(s) :
    /\ IsIgnored(s, i, j)
    /\ \A k \in j + 1..Len(s) : ~IsIgnored(s, i, k)

\* The lexemes of a source up to the end or to the first character that starts none.
RECURSIVE Lexemes(_, _)
Lexemes(s, i) ==
  LET at == FirstNotIgnored(s, i)
      ls == LexemesAt(s, at)
  IN  IF at = Len(s) THEN <<<<"EOF", at>>>>
      ELSE IF ls = {} THEN <<<<"INVALID", at>>>>
      ELSE <<Longest(ls)>> \o Lexemes(s, Longest(ls)[2])

-----------------------------------------------------------------------------
(* The grammar, as data *)

T(kind) == <<"token", kind>>
Word1(text) == <<"word", text>>
NameBut(texts) == <<"other", texts>>
Not(kind) == <<"not", kind>>
Rule(name) == <<"rule", name>>
Row(es) == <<"row", es>>
Either(es) == <<"either", es>>
Star(e) == <<"star", e>>
Opt(e) == Either({Row(<<>>), e})
Plus(e) == Row(<<e, Star(e)>>)
Deeper(e) == <<"deeper", e>>

Name == T("NAME")
Braced(e) == Row(<<T("LBRACE"), Plus(e), T("RBRACE")>>)
Paren(e) == Row(<<T("LPAREN"), Plus(e), T("RPAREN")>>)
ListOf(sep, e) == Row(<<Opt(T(sep)), e, Star(Row(<<T(sep), e>>))>>)
Described(e) == Row(<<Opt(Rule("Description")), e>>)

Values(leaf, value) ==
  Either({T("INT"), T("FLOAT"), T("STRING"), T("BLOCK_STRING"), Name,
          Deeper(Row(<<T("LBRACKET"), Star(Rule(value)), T("RBRACKET")>>)),
          Deeper(Row(<<T("LBRACE"), Star(Row(<<Name, T("COLON"), Rule(value)>>)),
                       T("RBRACE")>>))} \cup leaf)

Directive(arguments) ==
  Star(Row(<<T("AT"), Name, Opt(Rule(arguments))>>))
DirectiveC1 == Row(<<T("AT"), Name, Opt(Rule("ConstArguments"))>>)

\* A body that is left out is not followed by an opening brace.
BodyOrNone(body) == Either({body, Not("LBRACE")})

Keyword(word) == Row(<<Word1(word), Name>>)
DirsC == Rule("ConstDirectives")
FieldsBody == Braced(Rule("FieldDefinition"))
InputBody == Braced(Rule("InputValue"))
EnumBody == Braced(Rule("EnumValue"))
Implements == Row(<<Word1("implements"), ListOf("AMP", Name)>>)
Members == Row(<<T("EQUALS"), ListOf("PIPE", Name)>>)
RootOperation == Row(<<Name, T("COLON"), Name>>)
KnownRoot ==
  Row(<<Either({Word1("query"), Word1("mutation"), Word1("subscription")}),
        T("COLON"), Name>>)

\* An extension adds at least one thing.
Adds(word, body) ==
  Row(<<word, Either({Row(<<Plus(DirectiveC1), BodyOrNone(body)>>), body})>>)

Grammar == [
  Value |-> Values({Row(<<T("DOLLAR"), Name>>)}, "Value"),
  ConstValue |-> Values({}, "ConstValue"),
  Type |-> Row(<<Either({Name, Row(<<T("LBRACKET"), Rule("Type"), T("RBRACKET")>>)}),
                 Opt(T("BANG"))>>),
  Arguments |-> Paren(Row(<<Name, T("COLON"), Rule("Value")>>)),
  ConstArguments |-> Paren(Row(<<Name, T("COLON"), Rule("ConstValue")>>)),
  Directives |-> Directive("Arguments"),
  ConstDirectives |-> Directive("ConstArguments"),
  Description |-> Either({T("STRING"), T("BLOCK_STRING")}),
  SelectionSet |-> Deeper(Braced(Rule("Selection"))),
  Selection |-> Either({
    Row(<<Opt(Row(<<Name, T("COLON")>>)), Name, Opt(Rule("Arguments")),
          Rule("Directives"), BodyOrNone(Rule("SelectionSet"))>>),
    Row(<<T("SPREAD"), NameBut({"on"}), Rule("Directives")>>),
    Row(<<T("SPREAD"), Opt(Row(<<Word1("on"), Name>>)), Rule("Directives"),
          Rule("SelectionSet")>>)}),
  InputValue |-> Described(Row(<<Name, T("COLON"), Rule("Type"),
    Opt(Row(<<T("EQUALS"), Rule("ConstValue")>>)), DirsC>>)),
  FieldDefinition |-> Described(Row(<<Name, Opt(Paren(Rule("InputValue"))), T("COLON"),
    Rule("Type"), DirsC>>)),
  EnumValue |-> Described(Row(<<NameBut({"true", "false", "null"}), DirsC>>)),
  Variable |-> Described(Row(<<T("DOLLAR"), Name, T("COLON"), Rule("Type"),
    Opt(Row(<<T("EQUALS"), Rule("ConstValue")>>)), DirsC>>)),
  Executable |-> Described(Either({
    Row(<<Either({Word1("query"), Word1("mutation"), Word1("subscription")}), Opt(Name),
          Opt(Paren(Rule("Variable"))), Rule("Directives"), Rule("SelectionSet")>>),
    Row(<<Word1("fragment"), NameBut({"on"}), Word1("on"), Name, Rule("Directives"),
          Rule("SelectionSet")>>)})),
  TypeSystem |-> Described(Either({
    Row(<<Word1("schema"), DirsC, Braced(RootOperation)>>),
    Row(<<Keyword("scalar"), DirsC>>),
    Row(<<Either({Keyword("type"), Keyword("interface")}), Opt(Implements), DirsC,
          BodyOrNone(FieldsBody)>>),
    Row(<<Keyword("input"), DirsC, BodyOrNone(InputBody)>>),
    Row(<<Keyword("enum"), DirsC, BodyOrNone(EnumBody)>>),
    Row(<<Keyword("union"), DirsC, Opt(Members)>>),
    Row(<<Word1("directive"), T("AT"), Name, Opt(Paren(Rule("InputValue"))),
          Opt(Word1("repeatable")), Word1("on"), ListOf("PIPE", Name)>>)})),
  Extension |-> Described(Row(<<Word1("extend"), Either({
    Adds(Word1("schema"), Row(<<T("LBRACE"), Star(RootOperation), KnownRoot,
                                Star(RootOperation), T("RBRACE")>>)),
    Row(<<Word1("schema"), Plus(DirectiveC1), Braced(RootOperation)>>),
    Row(<<Keyword("scalar"), Plus(DirectiveC1)>>),
    Adds(Either({Keyword("type"), Keyword("interface")}), FieldsBody),
    Row(<<Either({Keyword("type"), Keyword("interface")}), Implements, DirsC,
          BodyOrNone(FieldsBody)>>),
    Adds(Keyword("input"), InputBody),
    Adds(Keyword("enum"), EnumBody),
    Row(<<Keyword("union"), Either({Row(<<Plus(DirectiveC1), Opt(Members)>>), Members})>>)
    })>>)),
  Document |-> Star(Either({Rule("SelectionSet"), Rule("Executable"),
                            Rule("TypeSystem"), Rule("Extension")}))]

\* Where a derivation of e that starts at token i may end, b levels deep at most.
RECURSIVE Ends(_, _, _, _)
Ends(doc, e, i, b) ==
  LET tok == At(doc, i)
      is  == CASE e[1] = "token" -> tok.kind = e[2]
               [] e[1] = "word" -> tok.kind = "NAME" /\ tok.text = e[2]
               [] e[1] = "other" -> tok.kind = "NAME" /\ tok.text \notin e[2]
               [] OTHER -> FALSE
  IN  CASE e[1] \in {"token", "word", "other"} -> IF is THEN {i + 1} ELSE {}
        [] e[1] = "not" -> IF tok.kind = e[2] THEN {} ELSE {i}
        [] e[1] = "rule" -> Ends(doc, Grammar[e[2]], i, b)
        [] e[1] = "row" ->
             IF e[2] = <<>> THEN {i}
             ELSE UNION {Ends(doc, Row(Tail(e[2])), j, b) : j \in Ends(doc, Head(e[2]), i, b)}
        [] e[1] = "either" -> UNION {Ends(doc, x, i, b) : x \in e[2]}
        [] e[1] = "star" ->
             {i} \cup UNION {Ends(doc, e, j, b) : j \in Ends(doc, e[2], i, b) \ {i}}
        [] e[1] = "deeper" -> IF b = 0 THEN {} ELSE Ends(doc, e[2], i, b - 1)

Derives(doc) == Len(doc.t) + 1 \in Ends(doc, Rule("Document"), 1, MaxDepth)

-----------------------------------------------------------------------------
(* How many tokens a syntax tree stands for *)

Total(f) == FoldFunction(LAMBDA a, b : a + b, 0, f)
Part(h, key, Size(_)) == IF Has(h, key) THEN Size(h[key]) ELSE 0

RECURSIVE TypeTokens(_)
TypeTokens(t) ==
  CASE t[1] = "named" -> 1
    [] t[1] = "list" -> 2 + TypeTokens(t[2])
    [] t[1] = "non_null" -> 1 + TypeTokens(t[2])

RECURSIVE ValueTokens(_)
PairTokens(h) == Total([n \in DOMAIN h |-> 2 + ValueTokens(h[n])])
ValueTokens(v) ==
  CASE v[1] = "var" -> 2
    [] v[1] = "list" -> 2 + Total([k \in DOMAIN v[2] |-> ValueTokens(v[2][k])])
    [] v[1] = "object" -> 2 + PairTokens(v[2])
    [] OTHER -> 1

ArgumentTokens(h) == 2 + PairTokens(h)
DirectiveTokens(ds) ==
  Total([k \in DOMAIN ds |-> 2 + Part(ds[k], "arguments", ArgumentTokens)])
One(x) == 1
DefaultTokens(v) == 1 + ValueTokens(v)

\* A named entry: its description, name, colon, type, default and directives.
RECURSIVE EntryTokens(_)
EntriesTokens(h) == 2 + Total([n \in DOMAIN h |-> EntryTokens(h[n])])
EntryTokens(h) ==
  1 + Part(h, "description", One) + Part(h, "args", EntriesTokens)
    + Part(h, "type", LAMBDA t : 1 + TypeTokens(t))
    + Part(h, "default_value", DefaultTokens) + Part(h, "directives", DirectiveTokens)

VariableTokens(h) == EntriesTokens(h) + Cardinality(DOMAIN h)
BodyTokens(h) == IF DOMAIN h = {} THEN 0 ELSE EntriesTokens(h)

RECURSIVE SelectionTokens(_)
SelectionsTokens(ss) == 2 + Total([k \in DOMAIN ss |-> SelectionTokens(ss[k])])
SelectionTokens(s) ==
  (CASE s["kind"] = "field" -> 1
     [] s["kind"] = "fragment_spread" -> 2
     [] s["kind"] = "inline_fragment" -> 1)
  + Part(s, "alias", LAMBDA n : 2) + Part(s, "on", LAMBDA n : 2)
  + Part(s, "arguments", ArgumentTokens) + Part(s, "directives", DirectiveTokens)
  + Part(s, "selections", SelectionsTokens)

SeparatedTokens(ns) == 2 * Len(ns)
DefinitionTokens(h) ==
  LET kind == h["kind"]
      shared == Part(h, "description", One) + Part(h, "extension", One)
                + Part(h, "directives", DirectiveTokens)
  IN  shared + CASE
      kind = "operation" ->
        Part(h, "name", One) + Part(h, "variables", VariableTokens)
        + SelectionsTokens(h["selections"])
        + Part(h, "operationType", One)
   [] kind = "fragment" -> 4 + SelectionsTokens(h["selections"])
   [] kind = "schema" ->
        LET roots == DOMAIN h \ {"kind", "location", "directives", "extension", "description"}
        IN  1 + (IF roots = {} THEN 0 ELSE 2) + 3 * Cardinality(roots)
   [] kind = "directive" ->
        4 + Part(h, "args", EntriesTokens) + Part(h, "repeatable", One)
        + 2 * Len(h["locations"]) - 1
   [] OTHER ->
        2 + Part(h, "interfaces", SeparatedTokens) + Part(h, "types", SeparatedTokens)
        + Part(h, "fields", BodyTokens) + Part(h, "values", BodyTokens)

\* A separator in front of the first name leaves no trace.
LeadingSeparators(doc) ==
  Cardinality({k \in 2..Len(doc.t) :
    \/ /\ doc.t[k].kind = "AMP" /\ peek_name(doc, k - 1, "implements")
       /\ ~(Is(doc, k - 2, "AMP") \/ peek_name(doc, k - 2, "implements"))
    \/ /\ doc.t[k].kind = "PIPE"
       /\ \/ Is(doc, k - 1, "EQUALS")
          \/ peek_name(doc, k - 1, "on") /\ At(doc, k - 2).kind \notin {"PIPE", "EQUALS"}})

-----------------------------------------------------------------------------
(* Escapes: a string written with every character escaped that can be *)

HexDigits == <<"0", "1", "2", "3", "4", "5", "6", "7", "8", "9",
               "a", "B", "c", "D", "e", "F">>
UnicodeEscape(n) ==
  <<"\\", "u">> \o [k \in 1..4 |-> HexDigits[((n \div (16 ^ (4 - k))) % 16) + 1]]
EscapeOf(c) ==
  LET n == c[2] - 65536
  IN  IF c[1] = "char"
      THEN (IF \E e \in SimpleEscape : Unescaped[e] = c[2]
            THEN <<"\\", CHOOSE e \in SimpleEscape : Unescaped[e] = c[2]>> ELSE <<c[2]>>)
      ELSE IF c[2] < 65536 THEN UnicodeEscape(c[2])
      ELSE UnicodeEscape(55296 + (n \div 1024)) \o UnicodeEscape(56320 + (n % 1024))
Escape(cs) == FlattenSeq([k \in DOMAIN cs |-> EscapeOf(cs[k])])

-----------------------------------------------------------------------------
(* What the lexer promises *)

Finished == p.status \in {"lexed", "refused"}

\* Every token is the longest lexeme of the grammar that starts where the blanks and
\* comments after the previous token end (gql_lex_token, gql_skip_ignored).
LexemesAreTheGrammars ==
  Finished =>
    LET ls == Lexemes(source, 0)
    IN  \A k \in DOMAIN tokens :
          /\ k <= Len(ls) /\ <<tokens[k].kind, tokens[k].end>> = ls[k]
          /\ tokens[k].start =
               FirstNotIgnored(source, IF k = 1 THEN 0 ELSE tokens[k - 1].end)

\* A string that is read has no escapes but those of the grammar: an invalid escape
\* is rejected (gql_lex_token's table of escapes, then its \u).
InvalidEscapesAreRejected ==
  \A k \in DOMAIN tokens :
    tokens[k].kind = "STRING" =>
      IsString(SubSeq(source, tokens[k].start + 1, tokens[k].end))

\* A source is refused exactly when something in it is no lexeme or it has more
\* than MaxTokens tokens, whether the scan in advance ran or not (gql_advance,
\* gql_preflight_token_limit); the end of input is not a token.
TokenLimitIsExact ==
  Finished =>
    LET ls == Lexemes(source, 0)
    IN  p.status = "lexed" <=> Last(ls)[1] = "EOF" /\ Len(ls) - 1 <= MaxTokens

\* The line of a position is one more than the line breaks before it, CR LF being
\* one, and its column is its distance from the last (gql_line_column_from_pos).
LinesAreCounted ==
  p.status = "preflight" =>
    \A pos \in 0..Len(source) :
      LET breaks == {k \in 0..pos - 1 : /\ Ch(source, k) \in Newline
                                        /\ ~(Ch(source, k) = "CR" /\ Ch(source, k + 1) = "LF")}
          start  == IF breaks = {} THEN 0 ELSE 1 + CHOOSE k \in breaks : \A j \in breaks : j <= k
      IN  line_column_from_pos(source, pos, 1) =
            [line |-> 1 + Cardinality(breaks), column |-> pos - start + 1]

-----------------------------------------------------------------------------
(* What the parser promises *)

\* A document is parsed exactly when the grammar derives it with no more than
\* MaxDepth selection sets, lists and objects inside each other, constants where
\* constants are due, and extensions that add something (gql_parse_definition and
\* everything below it).
AcceptsTheGrammar ==
  parsing.status \in {"parsed", "refused"} => (parsing.status = "parsed" <=> Derives(document))

\* When diagnostics are collected and there are none, the tree stands for every
\* token of the document; when something was given twice and lost, there are some
\* (the validation sink of gql_parse_arguments, gql_parse_object_value and the
\* definitions).  Only a repeated root operation goes unnoticed.
NothingIsLostUnnoticed ==
  parsing.status = "parsed" /\ document.validating =>
    LET roots(h) == DOMAIN h \ {"kind", "location", "directives", "extension", "description"}
        kept == Total([k \in DOMAIN parsing.definitions |->
                         DefinitionTokens(parsing.definitions[k])])
        said == Len(document.t) - LeadingSeparators(document)
        schema == \E k \in DOMAIN parsing.definitions :
                    parsing.definitions[k]["kind"] = "schema"
    IN  schema \/ (parsing.errors = <<>> <=> kept = said)

-----------------------------------------------------------------------------
(* What the retained pipeline promises *)

RECURSIVE Bare(_)
Bare(selections) ==
  [k \in DOMAIN selections |->
     LET s == selections[k]
     IN  [key \in DOMAIN s \ {"location"} |->
            IF key = "selections" THEN Bare(s[key]) ELSE s[key]]]

\* The document is one selection set, and both pipelines read it whole.
RootSet ==
  {r \in ir_parse_selection_set(document, 1) : r.i = Len(document.t) + 1}
IsQueryShorthand ==
  /\ parsing.status = "parsed" /\ Len(parsing.definitions) = 1
  /\ Is(document, 1, "LBRACE")

\* Nothing reads variable definitions into the representation any more; what is
\* built from them is tried on those of a query that starts with them.
IRVariable(k) ==
  Then(expect(document, k, "DOLLAR"), LAMBDA d :
    Then(ir_parse_name_span(document, d.i), LAMBDA n :
      Then(expect(document, n.i, "COLON"), LAMBDA c :
        Then(ir_parse_type_reference(document, c.i), LAMBDA t :
          Then(IF Is(document, t.i, "EQUALS")
               THEN Apply(ir_parse_value(document, t.i + 1, TRUE), LAMBDA v : <<v>>)
               ELSE Ok(<<>>, t.i), LAMBDA v :
            Apply(ir_parse_directives(document, v.i), LAMBDA ds :
              [start_pos |-> k, name_pos |-> n.v, name |-> n.v, type |-> t.v,
               default_value |-> v.v, directives |-> ds]))))))
IRVariables ==
  IF /\ parsing.status = "parsed" /\ Len(parsing.definitions) = 1
     /\ peek_name(document, 1, "query") /\ Is(document, 3, "LPAREN")
  THEN Many1(document, 4, "RPAREN", IRVariable) ELSE {}

ConvertedVariable(node) ==
  (IF Has(node, "defaultValue")
   THEN "default_value" :> convert_value(document, node["defaultValue"]) ELSE EmptyHash)
  @@ "type" :> convert_type(node["type"]) @@ ConvertDirectives(document, node)

\* The tree built through the representation, lazily or not, converts to the tree
\* the direct parser builds (gqlperl_convert_selections_from_gqljs).
LegacyLaneAgrees ==
  /\ IsQueryShorthand =>
       /\ RootSet # {}
       /\ \A r \in RootSet : \A lazy \in BOOLEAN :
            convert_selections(document, build_selection_set_from_ir("none", document, r.v, lazy))
              = Bare(parsing.definitions[1]["selections"])
  /\ \A r \in IRVariables : \A lazy \in BOOLEAN :
       LET nodes == build_variable_definitions_from_ir("none", document, r.v, lazy)
       IN  Hash([k \in DOMAIN nodes |->
                   <<name_value(nodes[k]["variable"]), ConvertedVariable(nodes[k])>>])
             = parsing.definitions[1]["variables"]

\* A tree built without locations and located by walking its tokens is the tree
\* built with them, if no name is given twice (gql_parser_locate_selection_node).
LocatingAgrees ==
  IsQueryShorthand /\ document.validating /\ parsing.errors = <<>> =>
    \A r \in RootSet :
      locate_selection_set_node(document,
        build_selection_set_from_ir("none", document, r.v, FALSE), 1)
      = Ok(build_selection_set_from_ir("full", document, r.v, FALSE), Len(document.t) + 1)

\* The arrays that parsing a selection set allocates, by where their owners start.
FirstOfRun(k) ==
  ~ \/ k > 2 /\ Is(document, k - 2, "AT") /\ Is(document, k - 1, "NAME")
    \/ \E m \in 3..k - 1 :
         /\ Is(document, k - 1, "RPAREN") /\ Is(document, m, "LPAREN")
         /\ Is(document, m - 2, "AT")
         /\ \A j \in m + 1..k - 2 : ~Is(document, j, "LPAREN")
Allocated ==
  Cardinality({k \in DOMAIN document.t :
    \/ Is(document, k, "LPAREN")
    \/ Is(document, k, "LBRACKET") /\ ~Is(document, k + 1, "RBRACKET")
    \/ Is(document, k, "LBRACE") /\ ~Is(document, k + 1, "RBRACE")
    \/ Is(document, k, "AT") /\ FirstOfRun(k)})

\* Freeing releases every array once and no array twice (gql_ir_free_value and the
\* functions around it).
ArraysAreFreedOnce ==
  IsQueryShorthand =>
    \A r \in RootSet :
      LET freed == ir_free_document(<<[start_pos |-> 0, variable_definitions |-> <<>>,
                                       directives |-> <<>>, selection_set |-> r.v]>>)
      IN  /\ Len(freed) = Allocated + 1
          /\ Cardinality(ToSet(freed)) = Len(freed)

-----------------------------------------------------------------------------
(* What the run checks. *)

\* However a document becomes a tree - built lazily or at once, with its
\* locations or located afterwards - it becomes the same tree, and every array of
\* it is freed once (fetch_array, locate_document, gql_ir_free_value).
PipelinesAgree == LegacyLaneAgrees /\ LocatingAgrees /\ ArraysAreFreedOnce

=============================================================================
