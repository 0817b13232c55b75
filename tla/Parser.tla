------------------------------- MODULE Parser -------------------------------
(***************************************************************************)
(* The recursive descent parser of src/parser_graphqlperl_runtime.h, from  *)
(* tokens to the graphql-perl syntax tree.                                 *)
(*                                                                         *)
(* A document is a record                                                  *)
(*   t          : sequence of tokens [kind, text]                          *)
(*   line       : the line of each token and, last, of the end of input    *)
(*   trailing   : whether anything ignored follows the last token          *)
(*   validating : whether diagnostics are collected (validation_errors)    *)
(* The place of token i is [line |-> its line, column |-> i].              *)
(*                                                                         *)
(* A parsing function returns the set of its results: a singleton, or      *)
(* empty where the code throws.  A result is [v, i, e]: the value, the     *)
(* index of the next token, and the diagnostics in order.  A syntax tree   *)
(* node is a function on strings; a Perl hash keeps one value per name.    *)
(***************************************************************************)
EXTENDS Lexer

EmptyHash == [k \in {} |-> k]
Has(h, k) == k \in DOMAIN h

EOF == [kind |-> "EOF", text |-> ""]
At(doc, i) == IF i <= Len(doc.t) THEN doc.t[i] ELSE EOF
Is(doc, i, kind) == At(doc, i).kind = kind
peek_name(doc, i, name) == At(doc, i) = [kind |-> "NAME", text |-> name]

Fail == {}
Ok(v, i) == {[v |-> v, i |-> i, e |-> <<>>]}
Then(rs, F(_)) == UNION {{[q EXCEPT !.e = r.e \o q.e] : q \in F(r)} : r \in rs}
Apply(rs, G(_)) == {[r EXCEPT !.v = G(r.v)] : r \in rs}

\* What F reads after rs is added to the node read so far.
Extend(rs, F(_)) == Then(rs, LAMBDA r : Apply(F(r.i), LAMBDA h : h @@ r.v))

\* F applies if the next token has the kind; its value goes under the key.
Optional(doc, i, kind, key, F(_)) ==
  IF Is(doc, i, kind) THEN Apply(F(i), LAMBDA v : key :> v) ELSE Ok(EmptyHash, i)

\* F again and again up to the closing token.
Many(doc, i, close, F(_)) ==
  LET rest[k \in 1..Len(doc.t) + 1] ==
        IF Is(doc, k, close) THEN Ok(<<>>, k + 1)
        ELSE Then(F(k), LAMBDA r : Apply(rest[r.i], LAMBDA vs : <<r.v>> \o vs))
  IN  rest[i]
Many1(doc, i, close, F(_)) ==
  IF Is(doc, i, close) THEN Fail ELSE Many(doc, i, close, F)

\* F, then F again after each separator.
Separated(doc, i, sep, F(_)) ==
  LET more[k \in 1..Len(doc.t) + 1] ==
        IF Is(doc, k, sep)
        THEN Then(F(k + 1), LAMBDA r : Apply(more[r.i], LAMBDA vs : <<r.v>> \o vs))
        ELSE Ok(<<>>, k)
  IN  Then(F(IF Is(doc, i, sep) THEN i + 1 ELSE i),
           LAMBDA r : Apply(more[r.i], LAMBDA vs : <<r.v>> \o vs))

\* A Perl hash of name and value pairs keeps the last value of a name.
Hash(pairs) ==
  [n \in {pairs[i][1] : i \in DOMAIN pairs} |->
     pairs[SelectLastInSeq(pairs, LAMBDA q : q[1] = n)][2]]

Repeats(what, pairs) ==
  LET again == SelectSeq([i \in DOMAIN pairs |-> i],
                 LAMBDA i : \E j \in 1..i - 1 : pairs[j][1] = pairs[i][1])
  IN  [k \in DOMAIN again |-> <<what, pairs[again[k]][1]>>]

\* Mutant: a name given twice is noticed only when it comes twice in a row.
KeyedNeighbours(doc, what, rs) ==
  {[r EXCEPT !.v = Hash(r.v),
             !.e = IF doc.validating
                   THEN r.e \o SelectSeq(Repeats(what, r.v),
                     LAMBDA d : \E i \in 2..Len(r.v) :
                       r.v[i][1] = d[2] /\ r.v[i - 1][1] = d[2])
                   ELSE r.e] : r \in rs}

Keyed(doc, what, rs) ==
  {[r EXCEPT !.v = Hash(r.v),
             !.e = IF doc.validating THEN r.e \o Repeats(what, r.v) ELSE r.e] : r \in rs}

-----------------------------------------------------------------------------
(* Locations: where the parser is when it finishes a node *)

last_location(doc, i) ==
  IF i = 1 THEN [line |-> 1, column |-> 0]
  ELSE [line |-> doc.line[i - 1], column |-> i - 1]

current_location(doc, i) ==
  IF Is(doc, i, "EOF") /\ ~doc.trailing THEN last_location(doc, i)
  ELSE [line |-> doc.line[i], column |-> i]

endline_location(doc, i) == [last_location(doc, i) EXCEPT !.column = 0]

current_or_endline_location(doc, i) ==
  IF Is(doc, i, "EOF") \/ doc.line[i] = last_location(doc, i).line
  THEN current_location(doc, i) ELSE endline_location(doc, i)

Node(doc, kind, rs, Location(_, _)) ==
  {[r EXCEPT !.v = "kind" :> kind @@ "location" :> Location(doc, r.i) @@ r.v] : r \in rs}

-----------------------------------------------------------------------------
(* Names, types and values *)

expect(doc, i, kind) == IF Is(doc, i, kind) THEN Ok(kind, i + 1) ELSE Fail

parse_name(doc, i) ==
  IF Is(doc, i, "NAME") THEN Ok(At(doc, i).text, i + 1) ELSE Fail

parse_fragment_name(doc, i) ==
  IF peek_name(doc, i, "on") THEN Fail ELSE parse_name(doc, i)

make_type_wrapper(type, kind) == <<kind, type>>

\* Nothing bounds the nesting of lists in a type.
RECURSIVE parse_type_reference(_, _)
parse_type_reference(doc, i) ==
  LET inner == IF Is(doc, i, "LBRACKET")
               THEN Then(parse_type_reference(doc, i + 1), LAMBDA r :
                      Apply(expect(doc, r.i, "RBRACKET"),
                            LAMBDA c : make_type_wrapper(r.v, "list")))
               ELSE Apply(parse_name(doc, i), LAMBDA n : <<"named", n>>)
  IN  Then(inner, LAMBDA r :
        IF Is(doc, r.i, "BANG")
        THEN Ok(make_type_wrapper(r.v, "non_null"), r.i + 1) ELSE Ok(r.v, r.i))

\* d is the number of selection sets and values that are open.
RECURSIVE parse_value(_, _, _, _)

\* Mutant: what is below a name is no longer constant.
NameAndAnyValue(doc, i, const, d) ==
  Then(parse_name(doc, i), LAMBDA n :
    Then(expect(doc, n.i, "COLON"), LAMBDA c :
      Apply(parse_value(doc, c.i, FALSE, d), LAMBDA v : <<n.v, v>>)))

NameAndValue(doc, i, const, d) ==
  Then(parse_name(doc, i), LAMBDA n :
    Then(expect(doc, n.i, "COLON"), LAMBDA c :
      Apply(parse_value(doc, c.i, const, d), LAMBDA v : <<n.v, v>>)))

parse_list_value(doc, i, const, d) ==
  IF d + 1 > MaxDepth THEN Fail
  ELSE Many(doc, i + 1, "RBRACKET", LAMBDA k : parse_value(doc, k, const, d + 1))

parse_object_value(doc, i, const, d) ==
  IF d + 1 > MaxDepth THEN Fail
  ELSE Keyed(doc, "Input field",
         Many(doc, i + 1, "RBRACE", LAMBDA k : NameAndValue(doc, k, const, d + 1)))

parse_value(doc, i, const, d) ==
  LET text == At(doc, i).text
  IN  CASE Is(doc, i, "DOLLAR") ->
             IF const THEN Fail
             ELSE Apply(parse_name(doc, i + 1), LAMBDA n : <<"var", n>>)
        [] Is(doc, i, "INT") -> Ok(<<"int", text>>, i + 1)
        [] Is(doc, i, "FLOAT") -> Ok(<<"float", text>>, i + 1)
        [] Is(doc, i, "STRING") -> Ok(<<"string", text>>, i + 1)
        [] Is(doc, i, "BLOCK_STRING") -> Ok(<<"block", text>>, i + 1)
        [] peek_name(doc, i, "true") -> Ok(<<"bool", TRUE>>, i + 1)
        [] peek_name(doc, i, "false") -> Ok(<<"bool", FALSE>>, i + 1)
        [] peek_name(doc, i, "null") -> Ok(<<"null", "">>, i + 1)
        [] Is(doc, i, "NAME") /\ text \notin {"true", "false", "null"} ->
             Ok(<<"enum", text>>, i + 1)
        [] Is(doc, i, "LBRACKET") ->
             Apply(parse_list_value(doc, i, const, d), LAMBDA vs : <<"list", vs>>)
        [] Is(doc, i, "LBRACE") ->
             Apply(parse_object_value(doc, i, const, d), LAMBDA h : <<"object", h>>)
        [] OTHER -> Fail

parse_arguments(doc, i, const, d) ==
  Keyed(doc, "Argument",
    Many1(doc, i + 1, "RPAREN", LAMBDA k : NameAndValue(doc, k, const, d)))

parse_directive(doc, i, const, d) ==
  Extend(Apply(parse_name(doc, i + 1), LAMBDA n : "name" :> n),
    LAMBDA k : Optional(doc, k, "LPAREN", "arguments",
      LAMBDA j : parse_arguments(doc, j, const, d)))

\* const tells gql_parse_const_directives from gql_parse_directives.
parse_directives(doc, i, const, d) ==
  LET more[k \in 1..Len(doc.t) + 1] ==
        IF Is(doc, k, "AT")
        THEN Then(parse_directive(doc, k, const, d),
                  LAMBDA r : Apply(more[r.i], LAMBDA vs : <<r.v>> \o vs))
        ELSE Ok(<<>>, k)
  IN  more[i]

Directives(doc, i, const, d) ==
  Optional(doc, i, "AT", "directives", LAMBDA j : parse_directives(doc, j, const, d))

-----------------------------------------------------------------------------
(* Selections *)

RECURSIVE parse_selection_set(_, _, _)

Selections(doc, i, d) ==
  Apply(parse_selection_set(doc, i, d), LAMBDA vs : "selections" :> vs)

parse_field(doc, i, d) ==
  LET names == Then(parse_name(doc, i), LAMBDA first :
                 IF Is(doc, first.i, "COLON")
                 THEN Apply(parse_name(doc, first.i + 1),
                            LAMBDA n : "alias" :> first.v @@ "name" :> n)
                 ELSE Ok("name" :> first.v, first.i))
      args  == Extend(names, LAMBDA k : Optional(doc, k, "LPAREN", "arguments",
                 LAMBDA j : parse_arguments(doc, j, FALSE, d)))
      dirs  == Extend(args, LAMBDA k : Directives(doc, k, FALSE, d))
      body  == Extend(dirs, LAMBDA k : Optional(doc, k, "LBRACE", "selections",
                 LAMBDA j : parse_selection_set(doc, j, d)))
      Place(dc, k) ==
        IF \E r \in body : Has(r.v, "directives") /\ ~Has(r.v, "selections")
        THEN current_or_endline_location(dc, k) ELSE current_location(dc, k)
  IN  Node(doc, "field", body, Place)

parse_fragment_spread(doc, i, d) ==
  LET all == Extend(Apply(parse_fragment_name(doc, i), LAMBDA n : "name" :> n),
                    LAMBDA k : Directives(doc, k, FALSE, d))
      Place(dc, k) ==
        IF \E r \in all : Has(r.v, "directives")
        THEN current_or_endline_location(dc, k) ELSE current_location(dc, k)
  IN  Node(doc, "fragment_spread", all, Place)

\* After "on" one token is read ahead on a copy of the parser.
parse_inline_fragment(doc, i, d) ==
  LET on == IF peek_name(doc, i, "on")
            THEN Apply(parse_name(doc, i + 1), LAMBDA n : "on" :> n)
            ELSE Ok(EmptyHash, i)
      dirs == Extend(on, LAMBDA k : Directives(doc, k, FALSE, d))
  IN  Node(doc, "inline_fragment", Extend(dirs, LAMBDA k : Selections(doc, k, d)),
           current_location)

parse_selection(doc, i, d) ==
  IF ~Is(doc, i, "SPREAD") THEN parse_field(doc, i, d)
  ELSE IF \/ peek_name(doc, i + 1, "on")
          \/ Is(doc, i + 1, "LBRACE") \/ Is(doc, i + 1, "AT")
  THEN parse_inline_fragment(doc, i + 1, d)
  ELSE parse_fragment_spread(doc, i + 1, d)

parse_selection_set(doc, i, d) ==
  IF d + 1 > MaxDepth THEN Fail
  ELSE Then(expect(doc, i, "LBRACE"), LAMBDA r :
         Many1(doc, r.i, "RBRACE", LAMBDA k : parse_selection(doc, k, d + 1)))

-----------------------------------------------------------------------------
(* Executable definitions *)

parse_description(doc, i) ==
  IF Is(doc, i, "STRING") \/ Is(doc, i, "BLOCK_STRING")
  THEN Ok("description" :> At(doc, i).text, i + 1) ELSE Ok(EmptyHash, i)

DefaultAndDirectives(doc, rs, d) ==
  LET typed == Extend(rs, LAMBDA k : Then(expect(doc, k, "COLON"), LAMBDA c :
                 Apply(parse_type_reference(doc, c.i), LAMBDA t : "type" :> t)))
      default == Extend(typed, LAMBDA k : Optional(doc, k, "EQUALS", "default_value",
                   LAMBDA j : parse_value(doc, j + 1, TRUE, d)))
  IN  Extend(default, LAMBDA k : Directives(doc, k, TRUE, d))

\* A name kept under "key" while the rest of its definition is read.
WithoutKey(h) == [k \in DOMAIN h \ {"key"} |-> h[k]]
KeyAndRest(rs) == Apply(rs, LAMBDA h : <<h["key"], WithoutKey(h)>>)

variable_definition(doc, i) ==
  LET named == Extend(parse_description(doc, i), LAMBDA k :
                 Then(expect(doc, k, "DOLLAR"), LAMBDA c :
                   Apply(parse_name(doc, c.i), LAMBDA n : "key" :> n)))
  IN  KeyAndRest(DefaultAndDirectives(doc, named, 0))

parse_variable_definitions(doc, i) ==
  Keyed(doc, "Variable",
    Many1(doc, i + 1, "RPAREN", LAMBDA k : variable_definition(doc, k)))

OperationKeyword(doc, i) ==
  \E n \in {"query", "mutation", "subscription"} : peek_name(doc, i, n)

parse_operation_definition(doc, i, description) ==
  LET head == Ok("operationType" :> At(doc, i).text @@ description, i + 1)
      name == Extend(head, LAMBDA k :
                Optional(doc, k, "NAME", "name", LAMBDA j : parse_name(doc, j)))
      vars == Extend(name, LAMBDA k : Optional(doc, k, "LPAREN", "variables",
                LAMBDA j : parse_variable_definitions(doc, j)))
      dirs == Extend(vars, LAMBDA k : Directives(doc, k, FALSE, 0))
      body == IF Is(doc, i, "LBRACE") THEN Selections(doc, i, 0)
              ELSE IF OperationKeyword(doc, i)
              THEN Extend(dirs, LAMBDA k : Selections(doc, k, 0)) ELSE Fail
  IN  Node(doc, "operation", body, current_location)

parse_fragment_definition(doc, i, description) ==
  LET name == Apply(parse_fragment_name(doc, i + 1),
                    LAMBDA n : "name" :> n @@ description)
      on   == Extend(name, LAMBDA k :
                IF peek_name(doc, k, "on")
                THEN Apply(parse_name(doc, k + 1), LAMBDA n : "on" :> n) ELSE Fail)
      dirs == Extend(on, LAMBDA k : Directives(doc, k, FALSE, 0))
  IN  Node(doc, "fragment", Extend(dirs, LAMBDA k : Selections(doc, k, 0)),
           current_location)

-----------------------------------------------------------------------------
(* Type system definitions *)

\* What follows the keyword: a name and constant directives.
NamedDefinition(doc, i) ==
  Extend(Apply(parse_name(doc, i + 1), LAMBDA n : "name" :> n),
         LAMBDA k : Directives(doc, k, TRUE, 0))

input_value_definition(doc, i) ==
  LET named == Extend(parse_description(doc, i), LAMBDA k :
                 Apply(parse_name(doc, k), LAMBDA n : "key" :> n))
  IN  KeyAndRest(DefaultAndDirectives(doc, named, 0))

parse_arguments_definition(doc, i) ==
  Keyed(doc, "Argument",
    Many1(doc, i + 1, "RPAREN", LAMBDA k : input_value_definition(doc, k)))

field_definition(doc, i) ==
  LET named == Extend(parse_description(doc, i), LAMBDA k :
                 Apply(parse_name(doc, k), LAMBDA n : "key" :> n))
      args  == Extend(named, LAMBDA k : Optional(doc, k, "LPAREN", "args",
                 LAMBDA j : parse_arguments_definition(doc, j)))
      typed == Extend(args, LAMBDA k : Then(expect(doc, k, "COLON"), LAMBDA c :
                 Apply(parse_type_reference(doc, c.i), LAMBDA t : "type" :> t)))
  IN  KeyAndRest(Extend(typed, LAMBDA k : Directives(doc, k, TRUE, 0)))

\* Where a definition with a body or with directives is placed, and one without.
EndlineIf(keys, rs) ==
  \E r \in rs : \E k \in keys : Has(r.v, k) /\ r.v[k] # EmptyHash

root_operation(doc, i) ==
  Then(parse_name(doc, i), LAMBDA n :
    Then(expect(doc, n.i, "COLON"), LAMBDA c :
      Apply(parse_name(doc, c.i), LAMBDA t : <<n.v, t>>)))

\* A repeated root operation keeps its last type and is not diagnosed.
parse_schema_definition(doc, i, allow_empty_body) ==
  LET dirs == Directives(doc, i + 1, TRUE, 0)
      body == Extend(dirs, LAMBDA k :
                IF allow_empty_body /\ ~Is(doc, k, "LBRACE") THEN Ok(EmptyHash, k)
                ELSE Then(expect(doc, k, "LBRACE"), LAMBDA b :
                       Apply(Many1(doc, b.i, "RBRACE",
                                   LAMBDA j : root_operation(doc, j)), Hash)))
      Place(dc, k) == IF \E r \in body : DOMAIN r.v # {}
                      THEN endline_location(dc, k) ELSE current_location(dc, k)
  IN  Node(doc, "schema", body, Place)

parse_scalar_type_definition(doc, i) ==
  LET all == NamedDefinition(doc, i)
      Place(dc, k) == IF EndlineIf({"directives"}, all)
                      THEN endline_location(dc, k) ELSE current_location(dc, k)
  IN  Node(doc, "scalar", all, Place)

parse_object_type_definition(doc, i, kind) ==
  LET name == Apply(parse_name(doc, i + 1), LAMBDA n : "name" :> n)
      interfaces == Extend(name, LAMBDA k :
        IF kind \in {"type", "interface"} /\ peek_name(doc, k, "implements")
        THEN Apply(Separated(doc, k + 1, "AMP", LAMBDA j : parse_name(doc, j)),
                   LAMBDA ns : "interfaces" :> ns)
        ELSE Ok(EmptyHash, k))
      dirs == Extend(interfaces, LAMBDA k : Directives(doc, k, TRUE, 0))
      item(k) == IF kind = "input" THEN input_value_definition(doc, k)
                 ELSE field_definition(doc, k)
      fields == Extend(dirs, LAMBDA k :
        IF Is(doc, k, "LBRACE")
        THEN Apply(Keyed(doc, "Field", Many1(doc, k + 1, "RBRACE", item)),
                   LAMBDA h : "fields" :> h)
        ELSE Ok("fields" :> EmptyHash, k))
      Place(dc, k) == IF EndlineIf({"directives", "fields"}, fields)
                      THEN endline_location(dc, k) ELSE current_location(dc, k)
  IN  Node(doc, kind, fields, Place)

parse_union_type_definition(doc, i) ==
  LET all == Extend(NamedDefinition(doc, i), LAMBDA k :
        IF Is(doc, k, "EQUALS")
        THEN Apply(Separated(doc, k + 1, "PIPE", LAMBDA j : parse_name(doc, j)),
                   LAMBDA ns : "types" :> ns)
        ELSE Ok(EmptyHash, k))
      Place(dc, k) ==
        IF EndlineIf({"directives"}, all) /\ ~EndlineIf({"types"}, all)
        THEN endline_location(dc, k) ELSE current_location(dc, k)
  IN  Node(doc, "union", all, Place)

enum_value(doc, i) ==
  LET named == Extend(parse_description(doc, i), LAMBDA k :
                 IF At(doc, k).text \in {"true", "false", "null"} THEN Fail
                 ELSE Apply(parse_name(doc, k), LAMBDA n : "key" :> n))
  IN  KeyAndRest(Extend(named, LAMBDA k : Directives(doc, k, TRUE, 0)))

parse_enum_type_definition(doc, i) ==
  LET all == Extend(NamedDefinition(doc, i), LAMBDA k :
        IF Is(doc, k, "LBRACE")
        THEN Apply(Keyed(doc, "Enum value", Many1(doc, k + 1, "RBRACE",
                         LAMBDA j : enum_value(doc, j))), LAMBDA h : "values" :> h)
        ELSE Ok("values" :> EmptyHash, k))
      Place(dc, k) == IF EndlineIf({"directives", "values"}, all)
                      THEN endline_location(dc, k) ELSE current_location(dc, k)
  IN  Node(doc, "enum", all, Place)

parse_directive_definition(doc, i) ==
  LET name == Then(expect(doc, i + 1, "AT"), LAMBDA a :
                Apply(parse_name(doc, a.i), LAMBDA n : "name" :> n))
      args == Extend(name, LAMBDA k : Optional(doc, k, "LPAREN", "args",
                LAMBDA j : parse_arguments_definition(doc, j)))
      rep  == Extend(args, LAMBDA k :
                IF peek_name(doc, k, "repeatable")
                THEN Ok("repeatable" :> TRUE, k + 1) ELSE Ok(EmptyHash, k))
      all  == Extend(rep, LAMBDA k :
                IF peek_name(doc, k, "on")
                THEN Apply(Separated(doc, k + 1, "PIPE", LAMBDA j : parse_name(doc, j)),
                           LAMBDA ns : "locations" :> ns)
                ELSE Fail)
  IN  Node(doc, "directive", all, endline_location)

\* An extension has to add something; a directive definition never does.
HasContent(node) ==
  \/ \E k \in {"directives", "interfaces", "types"} : Has(node, k) /\ node[k] # <<>>
  \/ \E k \in {"fields", "values"} : Has(node, k) /\ DOMAIN node[k] # {}
  \/ /\ node["kind"] = "schema"
     /\ \E k \in {"query", "mutation", "subscription"} : Has(node, k)

parse_type_system_definition(doc, i, description) ==
  LET is_extend == peek_name(doc, i, "extend")
      k    == IF is_extend THEN i + 1 ELSE i
      word == IF Is(doc, k, "NAME") THEN At(doc, k).text ELSE ""
      node == CASE word = "schema" -> parse_schema_definition(doc, k, is_extend)
                [] word = "scalar" -> parse_scalar_type_definition(doc, k)
                [] word \in {"type", "interface", "input"} ->
                     parse_object_type_definition(doc, k, word)
                [] word = "union" -> parse_union_type_definition(doc, k)
                [] word = "enum" -> parse_enum_type_definition(doc, k)
                [] word = "directive" -> parse_directive_definition(doc, k)
                [] OTHER -> Fail
  IN  IF is_extend
      THEN Apply({r \in node : HasContent(r.v)},
                 LAMBDA h : description @@ "extension" :> 1 @@ h)
      ELSE Apply(node, LAMBDA h : description @@ h)

parse_definition(doc, i) ==
  LET described == Is(doc, i, "STRING") \/ Is(doc, i, "BLOCK_STRING")
  IN  Then(parse_description(doc, i), LAMBDA r :
        IF Is(doc, r.i, "LBRACE") /\ ~described
        THEN parse_operation_definition(doc, r.i, r.v)
        ELSE IF peek_name(doc, r.i, "fragment")
        THEN parse_fragment_definition(doc, r.i, r.v)
        ELSE IF OperationKeyword(doc, r.i)
        THEN parse_operation_definition(doc, r.i, r.v)
        ELSE parse_type_system_definition(doc, r.i, r.v))

-----------------------------------------------------------------------------
(* Parsing a document: one step for each definition *)

\* ReadDefinition(doc, i) is parse_definition(doc, i).  It is a constant so that
\* TLC does not unfold the whole grammar into the action below.
CONSTANT ReadDefinition(_, _)

VARIABLES document, parsing

parseVars == <<document, parsing>>

ParseInit(Documents) ==
  /\ document \in Documents
  /\ parsing = [i |-> 1, definitions |-> <<>>, errors |-> <<>>, status |-> "parsing"]

parse_definitions ==
  /\ parsing.status = "parsing"
  /\ IF Is(document, parsing.i, "EOF")
     THEN parsing' = [parsing EXCEPT !.status = "parsed"]
     ELSE \/ \E r \in ReadDefinition(document, parsing.i) :
               parsing' = [parsing EXCEPT !.i = r.i,
                             !.definitions = Append(@, r.v), !.errors = @ \o r.e]
          \/ /\ ReadDefinition(document, parsing.i) = {}
             /\ parsing' = [parsing EXCEPT !.status = "refused"]
  /\ UNCHANGED document

=============================================================================
