------------------------------ MODULE ParserIR ------------------------------
(***************************************************************************)
(* The retained executable pipeline of src/parser_ir_runtime.h,            *)
(* src/parser_ast_runtime.h and src/parser_shared_ast.h: tokens to the     *)
(* intermediate representation, from there to the graphql-js shaped tree,  *)
(* located, and from there to the graphql-perl tree of Parser.             *)
(*                                                                         *)
(* A span and a position are the index of a token; 0 is the empty span.    *)
(* An array of pointers is a sequence.  A context is "none", "full" (every *)
(* name has a location) or "compact" (only the nodes have one).            *)
(***************************************************************************)
EXTENDS Parser

NoSpan == 0
Text(doc, span) == doc.t[span].text

\* A name is kept as its span.
ir_parse_name_span(doc, i) ==
  IF Is(doc, i, "NAME") THEN Ok(i, i + 1) ELSE Fail
ir_parse_fragment_name_span(doc, i) ==
  IF peek_name(doc, i, "on") THEN Fail ELSE ir_parse_name_span(doc, i)

RECURSIVE ir_parse_type_reference(_, _)
ir_parse_type_reference(doc, i) ==
  LET bare == IF Is(doc, i, "LBRACKET")
              THEN Then(ir_parse_type_reference(doc, i + 1), LAMBDA r :
                     Apply(expect(doc, r.i, "RBRACKET"), LAMBDA c :
                       [kind |-> "LIST", start_pos |-> i, inner |-> r.v]))
              ELSE Apply(ir_parse_name_span(doc, i), LAMBDA n :
                     [kind |-> "NAMED", start_pos |-> i, name |-> n])
  IN  Then(bare, LAMBDA r :
        IF Is(doc, r.i, "BANG")
        THEN Ok([kind |-> "NON_NULL", start_pos |-> i, inner |-> r.v], r.i + 1)
        ELSE Ok(r.v, r.i))

RECURSIVE ir_parse_value(_, _, _)

\* An argument and an object field have the same three parts.
ir_parse_argument(doc, i, const) ==
  Then(ir_parse_name_span(doc, i), LAMBDA n :
    Then(expect(doc, n.i, "COLON"), LAMBDA c :
      Apply(ir_parse_value(doc, c.i, const), LAMBDA v :
        [start_pos |-> i, name |-> n.v, value |-> v])))

IRLeaf(kind, i) == Ok([kind |-> kind, start_pos |-> i, as |-> i], i + 1)

ir_parse_value(doc, i, const) ==
  LET kind == At(doc, i).kind
      Of(k, rs) == Apply(rs, LAMBDA v : [kind |-> k, start_pos |-> i, as |-> v])
  IN  CASE kind = "DOLLAR" ->
             IF const THEN Fail
             ELSE Of("VARIABLE", ir_parse_name_span(doc, i + 1))
        [] kind \in {"INT", "FLOAT"} -> IRLeaf(kind, i)
        [] kind \in {"STRING", "BLOCK_STRING"} -> IRLeaf("STRING", i)
        [] kind = "NAME" /\ At(doc, i).text \in {"true", "false"} -> IRLeaf("BOOL", i)
        [] kind = "NAME" /\ At(doc, i).text = "null" -> IRLeaf("NULL", i)
        [] kind = "NAME" /\ At(doc, i).text \notin {"true", "false", "null"} ->
             IRLeaf("ENUM", i)
        [] kind = "LBRACKET" ->
             Of("LIST", Many(doc, i + 1, "RBRACKET",
                             LAMBDA k : ir_parse_value(doc, k, const)))
        [] kind = "LBRACE" ->
             Of("OBJECT", Many(doc, i + 1, "RBRACE",
                               LAMBDA k : ir_parse_argument(doc, k, const)))
        [] OTHER -> Fail

ir_parse_arguments(doc, i, const) ==
  Many1(doc, i + 1, "RPAREN", LAMBDA k : ir_parse_argument(doc, k, const))

ArgumentsOrNone(doc, i) ==
  IF Is(doc, i, "LPAREN") THEN ir_parse_arguments(doc, i, FALSE) ELSE Ok(<<>>, i)

ir_parse_directives(doc, i) ==
  LET more[k \in 1..Len(doc.t) + 1] ==
        IF ~Is(doc, k, "AT") THEN Ok(<<>>, k)
        ELSE Then(ir_parse_name_span(doc, k + 1), LAMBDA n :
               Then(ArgumentsOrNone(doc, n.i), LAMBDA a :
                 Apply(more[a.i], LAMBDA vs :
                   <<[start_pos |-> k, name_pos |-> n.v, name |-> n.v,
                      arguments |-> a.v]>> \o vs)))
  IN  more[i]

RECURSIVE ir_parse_selection_set(_, _)

NoSelections == [start_pos |-> 0, selections |-> <<>>]

ir_parse_inline_fragment(doc, i, start) ==
  LET on == IF peek_name(doc, i, "on") THEN ir_parse_name_span(doc, i + 1)
            ELSE Ok(NoSpan, i)
  IN  Then(on, LAMBDA n :
        Then(ir_parse_directives(doc, n.i), LAMBDA dirs :
          Apply(ir_parse_selection_set(doc, dirs.i), LAMBDA set :
            [kind |-> "INLINE_FRAGMENT", start_pos |-> start,
             type_condition |-> n.v, directives |-> dirs.v, selection_set |-> set])))

ir_parse_field(doc, i) ==
  Then(ir_parse_name_span(doc, i), LAMBDA first :
    LET aliased == Is(doc, first.i, "COLON")
    IN  Then(IF aliased THEN ir_parse_name_span(doc, first.i + 1)
             ELSE Ok(first.v, first.i), LAMBDA name :
          Then(ArgumentsOrNone(doc, name.i), LAMBDA args :
            Then(ir_parse_directives(doc, args.i), LAMBDA dirs :
              Apply(IF Is(doc, dirs.i, "LBRACE") THEN ir_parse_selection_set(doc, dirs.i)
                    ELSE Ok(NoSelections, dirs.i), LAMBDA set :
                [kind |-> "FIELD", start_pos |-> i,
                 alias |-> IF aliased THEN first.v ELSE NoSpan, name |-> name.v,
                 arguments |-> args.v, directives |-> dirs.v,
                 selection_set |-> set])))))

ir_parse_selection(doc, i) ==
  IF ~Is(doc, i, "SPREAD") THEN ir_parse_field(doc, i)
  ELSE IF \/ peek_name(doc, i + 1, "on")
          \/ Is(doc, i + 1, "LBRACE") \/ Is(doc, i + 1, "AT")
  THEN ir_parse_inline_fragment(doc, i + 1, i)
  ELSE Then(ir_parse_fragment_name_span(doc, i + 1), LAMBDA n :
         Apply(ir_parse_directives(doc, n.i), LAMBDA dirs :
           [kind |-> "FRAGMENT_SPREAD", start_pos |-> i, name |-> n.v,
            directives |-> dirs]))

ir_parse_selection_set(doc, i) ==
  Then(expect(doc, i, "LBRACE"), LAMBDA r :
    Apply(Many1(doc, r.i, "RBRACE", LAMBDA k : ir_parse_selection(doc, k)),
          LAMBDA vs : [start_pos |-> i, selections |-> vs]))

-----------------------------------------------------------------------------
(* From the representation to the graphql-js shaped tree *)

Located(ctx, node, pos) == IF ctx = "none" THEN node ELSE "loc" :> pos @@ node
LocatedName(ctx, node, pos) == IF ctx = "full" THEN "loc" :> pos @@ node ELSE node

new_name_node(text) == "kind" :> "Name" @@ "value" :> text
NameAt(ctx, doc, span, pos) == LocatedName(ctx, new_name_node(Text(doc, span)), pos)

new_named_type_node(ctx, doc, span, pos) ==
  Located(ctx, "kind" :> "NamedType" @@ "name" :> NameAt(ctx, doc, span, pos), pos)

new_variable_node(ctx, doc, span, pos) ==
  Located(ctx, "kind" :> "Variable" @@ "name" :> NameAt(ctx, doc, span, span), pos)

RECURSIVE build_type_from_ir(_, _, _)
build_type_from_ir(ctx, doc, type) ==
  IF type.kind = "NAMED" THEN new_named_type_node(ctx, doc, type.name, type.start_pos)
  ELSE Located(ctx, "kind" :> (IF type.kind = "LIST" THEN "ListType" ELSE "NonNullType")
                    @@ "type" :> build_type_from_ir(ctx, doc, type.inner), type.start_pos)

\* A lazy array remembers what it is to be built from.
Lazy(what, ctx, items) == <<"lazy", what, ctx, items>>
Array(nodes) == <<"array", nodes>>
ArrayOrLazy(lazy, what, ctx, items, nodes) ==
  IF lazy /\ items # <<>> THEN Lazy(what, ctx, items) ELSE Array(nodes)

RECURSIVE build_value_from_ir(_, _, _, _)

BuildPair(ctx, doc, kind, item, lazy) ==
  Located(ctx, "kind" :> kind @@ "name" :> NameAt(ctx, doc, item.name, item.start_pos)
               @@ "value" :> build_value_from_ir(ctx, doc, item.value, lazy),
          item.start_pos)

build_object_fields_from_ir(ctx, doc, fields, lazy) ==
  [k \in DOMAIN fields |-> BuildPair(ctx, doc, "ObjectField", fields[k], lazy)]
build_arguments_from_ir(ctx, doc, arguments, lazy) ==
  [k \in DOMAIN arguments |-> BuildPair(ctx, doc, "Argument", arguments[k], lazy)]

LeafNode ==
  "INT" :> "IntValue" @@ "FLOAT" :> "FloatValue" @@ "STRING" :> "StringValue" @@
  "ENUM" :> "EnumValue"

build_value_from_ir(ctx, doc, value, lazy) ==
  LET node ==
    CASE value.kind = "NULL" -> "kind" :> "NullValue"
      [] value.kind = "BOOL" ->
           "kind" :> "BooleanValue" @@ "value" :> (Text(doc, value.as) = "true")
      [] value.kind \in DOMAIN LeafNode ->
           "kind" :> LeafNode[value.kind] @@ "value" :> doc.t[value.as]
      [] value.kind = "VARIABLE" -> new_variable_node(ctx, doc, value.as, value.start_pos)
      [] value.kind = "LIST" ->
           "kind" :> "ListValue" @@ "values" :>
             Array([k \in DOMAIN value.as |->
                      build_value_from_ir(ctx, doc, value.as[k], lazy)])
      [] value.kind = "OBJECT" ->
           "kind" :> "ObjectValue" @@ "fields" :>
             ArrayOrLazy(lazy, "object_fields", ctx, value.as,
                         build_object_fields_from_ir(ctx, doc, value.as, lazy))
  IN  Located(ctx, node, value.start_pos)

build_directives_from_ir(ctx, doc, directives, lazy) ==
  [k \in DOMAIN directives |->
     LET d == directives[k]
     IN  Located(ctx, "kind" :> "Directive"
                 @@ "name" :> NameAt(ctx, doc, d.name, d.name_pos)
                 @@ "arguments" :> ArrayOrLazy(lazy, "arguments", ctx, d.arguments,
                      build_arguments_from_ir(ctx, doc, d.arguments, lazy)),
                 d.start_pos)]

materialize_lazy_array(doc, what, ctx, items) ==
  CASE what = "arguments" -> build_arguments_from_ir(ctx, doc, items, TRUE)
    [] what = "directives" -> build_directives_from_ir(ctx, doc, items, TRUE)
    [] what = "object_fields" -> build_object_fields_from_ir(ctx, doc, items, TRUE)

\* Mutant: the array that was tied is read, and it is empty.
fetch_array_tied(doc, array) == IF array[1] = "lazy" THEN <<>> ELSE array[2]

fetch_array(doc, array) ==
  IF array[1] = "lazy" THEN materialize_lazy_array(doc, array[2], array[3], array[4])
  ELSE array[2]

Directed(ctx, doc, directives, lazy) ==
  "directives" :> ArrayOrLazy(lazy, "directives", ctx, directives,
                    build_directives_from_ir(ctx, doc, directives, lazy))

RECURSIVE build_selection_set_from_ir(_, _, _, _)

build_selection_from_ir(ctx, doc, sel, lazy) ==
  LET Set == "selectionSet" :>
               build_selection_set_from_ir(ctx, doc, sel.selection_set, lazy)
      node ==
    CASE sel.kind = "FIELD" ->
           (IF sel.alias = NoSpan THEN EmptyHash
            ELSE "alias" :> NameAt(ctx, doc, sel.alias, sel.alias))
           @@ (IF sel.selection_set = NoSelections THEN EmptyHash ELSE Set)
           @@ "kind" :> "Field" @@ "name" :> NameAt(ctx, doc, sel.name, sel.name)
           @@ "arguments" :> ArrayOrLazy(lazy, "arguments", ctx, sel.arguments,
                build_arguments_from_ir(ctx, doc, sel.arguments, lazy))
           @@ Directed(ctx, doc, sel.directives, lazy)
      [] sel.kind = "FRAGMENT_SPREAD" ->
           "kind" :> "FragmentSpread" @@ "name" :> NameAt(ctx, doc, sel.name, sel.name)
           @@ Directed(ctx, doc, sel.directives, lazy)
      [] sel.kind = "INLINE_FRAGMENT" ->
           (IF sel.type_condition = NoSpan THEN EmptyHash
            ELSE "typeCondition" :> new_named_type_node(ctx, doc, sel.type_condition,
                                                        sel.type_condition))
           @@ "kind" :> "InlineFragment" @@ Directed(ctx, doc, sel.directives, lazy)
           @@ Set
  IN  Located(ctx, node, sel.start_pos)

build_selection_set_from_ir(ctx, doc, set, lazy) ==
  Located(ctx, "kind" :> "SelectionSet" @@ "selections" :>
            Array([k \in DOMAIN set.selections |->
                     build_selection_from_ir(ctx, doc, set.selections[k], lazy)]),
          set.start_pos)

\* A variable definition shares its place with the variable it defines.
build_variable_definitions_from_ir(ctx, doc, definitions, lazy) ==
  [k \in DOMAIN definitions |->
     LET d == definitions[k]
         variable == Located(ctx, "kind" :> "Variable"
                       @@ "name" :> NameAt(ctx, doc, d.name, d.name_pos), d.start_pos)
     IN  Located(ctx,
           (IF d.default_value = <<>> THEN EmptyHash
            ELSE "defaultValue" :> build_value_from_ir(ctx, doc, d.default_value[1], lazy))
           @@ "kind" :> "VariableDefinition" @@ "variable" :> variable
           @@ "type" :> build_type_from_ir(ctx, doc, d.type)
           @@ Directed(ctx, doc, d.directives, lazy), d.start_pos)]

-----------------------------------------------------------------------------
(* Freeing: the arrays that are released, in order.  An array is named by   *)
(* where the node that owns it starts; an empty array was never allocated.  *)

Released(pos, what, items) == IF items = <<>> THEN <<>> ELSE <<<<pos, what>>>>

RECURSIVE ir_free_value(_)
ir_free_argument(argument) == ir_free_value(argument.value)
ir_free_each(items, Free(_)) == FlattenSeq([k \in DOMAIN items |-> Free(items[k])])

ir_free_value(value) ==
  CASE value.kind = "LIST" ->
         ir_free_each(value.as, ir_free_value)
         \o Released(value.start_pos, "items", value.as)
    [] value.kind = "OBJECT" ->
         ir_free_each(value.as, ir_free_argument)
         \o Released(value.start_pos, "items", value.as)
    [] OTHER -> <<>>

\* The arguments of a directive or of a field belong to the node at pos.
ir_free_arguments(pos, arguments) ==
  ir_free_each(arguments, ir_free_argument) \o Released(pos, "arguments", arguments)
ir_free_directive(directive) == ir_free_arguments(directive.start_pos, directive.arguments)
ir_free_directives(pos, directives) ==
  ir_free_each(directives, ir_free_directive) \o Released(pos, "directives", directives)

RECURSIVE ir_free_selection(_)
ir_free_selection_set(set) ==
  ir_free_each(set.selections, ir_free_selection)
  \o Released(set.start_pos, "items", set.selections)
ir_free_selection(sel) ==
  (IF sel.kind = "FIELD" THEN ir_free_arguments(sel.start_pos, sel.arguments) ELSE <<>>)
  \o ir_free_directives(sel.start_pos, sel.directives)
  \o (IF sel.kind \in {"FIELD", "INLINE_FRAGMENT"}
      THEN ir_free_selection_set(sel.selection_set) ELSE <<>>)

ir_free_variable_definition(d) ==
  ir_free_each(d.default_value, ir_free_value)
  \o ir_free_directives(d.start_pos, d.directives)

\* A fragment definition is an operation definition without variables.
ir_free_operation_definition(d) ==
  ir_free_each(d.variable_definitions, ir_free_variable_definition)
  \o Released(d.start_pos, "variables", d.variable_definitions)
  \o ir_free_directives(d.start_pos, d.directives)
  \o ir_free_selection_set(d.selection_set)

ir_free_document(definitions) ==
  ir_free_each(definitions, ir_free_operation_definition)
  \o Released(0, "definitions", definitions)

-----------------------------------------------------------------------------
(* From the graphql-js shaped tree to the graphql-perl tree *)

name_value(node) == node["name"]["value"]

RECURSIVE convert_type(_)
convert_type(node) ==
  CASE node["kind"] = "NamedType" -> <<"named", name_value(node)>>
    [] node["kind"] = "ListType" -> <<"list", convert_type(node["type"])>>
    [] node["kind"] = "NonNullType" -> <<"non_null", convert_type(node["type"])>>

RECURSIVE convert_value(_, _)
ConvertPairs(doc, nodes) ==
  Hash([k \in DOMAIN nodes |->
          <<name_value(nodes[k]), convert_value(doc, nodes[k]["value"])>>])

convert_value(doc, node) ==
  LET kind == node["kind"]
  IN  CASE kind = "Variable" -> <<"var", name_value(node)>>
        [] kind = "IntValue" -> <<"int", node["value"].text>>
        [] kind = "FloatValue" -> <<"float", node["value"].text>>
        [] kind = "StringValue" ->
             <<IF node["value"].kind = "STRING" THEN "string" ELSE "block",
               node["value"].text>>
        [] kind = "BooleanValue" -> <<"bool", node["value"]>>
        [] kind = "NullValue" -> <<"null", "">>
        [] kind = "EnumValue" -> <<"enum", node["value"].text>>
        [] kind = "ListValue" ->
             LET nodes == fetch_array(doc, node["values"])
             IN  <<"list", [k \in DOMAIN nodes |-> convert_value(doc, nodes[k])]>>
        [] kind = "ObjectValue" ->
             <<"object", ConvertPairs(doc, fetch_array(doc, node["fields"]))>>

\* No arguments and no directives leave no key behind.
ConvertArguments(doc, node) ==
  LET nodes == fetch_array(doc, node["arguments"])
  IN  IF nodes = <<>> THEN EmptyHash ELSE "arguments" :> ConvertPairs(doc, nodes)

StoreLocation(node) ==
  IF Has(node, "loc") THEN "location" :> node["loc"] ELSE EmptyHash

ConvertDirectives(doc, node) ==
  LET nodes == fetch_array(doc, node["directives"])
  IN  IF nodes = <<>> THEN EmptyHash
      ELSE "directives" :> [k \in DOMAIN nodes |->
             "name" :> name_value(nodes[k]) @@ ConvertArguments(doc, nodes[k])
               @@ StoreLocation(nodes[k])]

RECURSIVE convert_selection(_, _)
convert_selections(doc, set) ==
  LET nodes == fetch_array(doc, set["selections"])
  IN  [k \in DOMAIN nodes |-> convert_selection(doc, nodes[k])]

convert_selection(doc, node) ==
  CASE node["kind"] = "Field" ->
         "kind" :> "field" @@ "name" :> name_value(node)
         @@ (IF Has(node, "alias") THEN "alias" :> node["alias"]["value"] ELSE EmptyHash)
         @@ ConvertArguments(doc, node) @@ ConvertDirectives(doc, node)
         @@ (IF Has(node, "selectionSet")
             THEN "selections" :> convert_selections(doc, node["selectionSet"])
             ELSE EmptyHash)
         @@ StoreLocation(node)
    [] node["kind"] = "FragmentSpread" ->
         "kind" :> "fragment_spread" @@ "name" :> name_value(node)
         @@ ConvertDirectives(doc, node) @@ StoreLocation(node)
    [] node["kind"] = "InlineFragment" ->
         "kind" :> "inline_fragment"
         @@ (IF Has(node, "typeCondition")
             THEN "on" :> name_value(node["typeCondition"]) ELSE EmptyHash)
         @@ ConvertDirectives(doc, node)
         @@ "selections" :> convert_selections(doc, node["selectionSet"])
         @@ StoreLocation(node)

-----------------------------------------------------------------------------
(* Locating a tree that was built without locations: a walk over its tokens *)

SetLoc(node, i) == "loc" :> i @@ node

\* F locates the child under the key; the node keeps the place it started at.
Child(rs, key, F(_, _)) ==
  Then(rs, LAMBDA r : Apply(F(r.v[key], r.i), LAMBDA c : key :> c @@ r.v))
Skip(doc, rs, kind) == Then(rs, LAMBDA r : Apply(expect(doc, r.i, kind), LAMBDA c : r.v))

locate_name_node(doc, node, i) ==
  IF Is(doc, i, "NAME") THEN Ok(SetLoc(node, i), i + 1) ELSE Fail

RECURSIVE locate_type_node(_, _, _)
locate_type_node(doc, node, i) ==
  LET Name(n, k) == locate_name_node(doc, n, k)
      Type(n, k) == locate_type_node(doc, n, k)
      start == Ok(SetLoc(node, i), i)
  IN  CASE node["kind"] = "NamedType" -> Child(start, "name", Name)
        [] node["kind"] = "ListType" ->
             Skip(doc, Child(Skip(doc, start, "LBRACKET"), "type", Type), "RBRACKET")
        [] node["kind"] = "NonNullType" -> Skip(doc, Child(start, "type", Type), "BANG")

RECURSIVE locate_value_node(_, _, _), locate_pairs(_, _, _, _)

\* Each token that names a pair goes to the first node of that name.
locate_pairs(doc, nodes, i, close) ==
  IF Is(doc, i, close) THEN Ok(nodes, i + 1)
  ELSE LET k == SelectInSeq(nodes, LAMBDA n : name_value(n) = At(doc, i).text)
           Name(n, j) == locate_name_node(doc, n, j)
           Value(n, j) == locate_value_node(doc, n, j)
       IN  IF k = 0 THEN Fail
           ELSE Then(Child(Skip(doc, Child(Ok(SetLoc(nodes[k], i), i), "name", Name),
                                "COLON"), "value", Value), LAMBDA r :
                  locate_pairs(doc, [nodes EXCEPT ![k] = r.v], r.i, close))

LocateEach(doc, nodes, i, F(_, _)) ==
  LET f[k \in 1..Len(nodes) + 1, j \in 1..Len(doc.t) + 1] ==
        IF k > Len(nodes) THEN Ok(<<>>, j)
        ELSE Then(F(nodes[k], j), LAMBDA r :
               Apply(f[k + 1, r.i], LAMBDA vs : <<r.v>> \o vs))
  IN  f[1, i]

InArray(doc, array, i, F(_, _)) ==
  Apply(F(fetch_array(doc, array), i), Array)

locate_value_node(doc, node, i) ==
  LET start == Ok(SetLoc(node, i), i)
      Name(n, k) == locate_name_node(doc, n, k)
      Values(array, k) == InArray(doc, array, k, LAMBDA ns, j :
        LocateEach(doc, ns, j, LAMBDA n, m : locate_value_node(doc, n, m)))
      Fields(array, k) == InArray(doc, array, k, LAMBDA ns, j :
        locate_pairs(doc, ns, j, "RBRACE"))
      Leaf(kinds) == IF At(doc, i).kind \in kinds THEN Ok(SetLoc(node, i), i + 1) ELSE Fail
      kind == node["kind"]
  IN  CASE kind = "Variable" -> Child(Skip(doc, start, "DOLLAR"), "name", Name)
        [] kind \in {"IntValue", "FloatValue"} -> Leaf({"INT", "FLOAT"})
        [] kind = "StringValue" -> Leaf({"STRING", "BLOCK_STRING"})
        [] kind \in {"BooleanValue", "NullValue", "EnumValue"} -> Leaf({"NAME"})
        [] kind = "ListValue" ->
             Skip(doc, Child(Skip(doc, start, "LBRACKET"), "values", Values), "RBRACKET")
        [] kind = "ObjectValue" -> Child(Skip(doc, start, "LBRACE"), "fields", Fields)

locate_arguments_nodes(doc, array, i) ==
  IF fetch_array(doc, array) = <<>> THEN Ok(array, i)
  ELSE Then(expect(doc, i, "LPAREN"), LAMBDA r :
         InArray(doc, array, r.i, LAMBDA ns, j : locate_pairs(doc, ns, j, "RPAREN")))

locate_directives_nodes(doc, array, i) ==
  LET Name(n, k) == locate_name_node(doc, n, k)
      Arguments(a, k) == locate_arguments_nodes(doc, a, k)
      One(n, k) == Child(Child(Skip(doc, Ok(SetLoc(n, k), k), "AT"), "name", Name),
                         "arguments", Arguments)
  IN  InArray(doc, array, i, LAMBDA ns, j : LocateEach(doc, ns, j, One))

RECURSIVE locate_selection_set_node(_, _, _)
locate_selection_node(doc, node, i) ==
  LET start == Ok(SetLoc(node, i), i)
      Name(n, k) == locate_name_node(doc, n, k)
      Type(n, k) == locate_type_node(doc, n, k)
      Set(n, k) == locate_selection_set_node(doc, n, k)
      Arguments(a, k) == locate_arguments_nodes(doc, a, k)
      Directed1(rs) ==
        Child(rs, "directives", LAMBDA a, k : locate_directives_nodes(doc, a, k))
      If(key, rs, after) == IF Has(node, key) THEN after ELSE rs
  IN  CASE node["kind"] = "Field" ->
             LET alias == If("alias", start,
                             Skip(doc, Child(start, "alias", Name), "COLON"))
                 head == Directed1(Child(Child(alias, "name", Name), "arguments", Arguments))
             IN  If("selectionSet", head, Child(head, "selectionSet", Set))
        [] node["kind"] = "FragmentSpread" ->
             Directed1(Child(Skip(doc, start, "SPREAD"), "name", Name))
        [] node["kind"] = "InlineFragment" ->
             LET dots == Skip(doc, start, "SPREAD")
                 on   == If("typeCondition", dots,
                            Child(Skip(doc, dots, "NAME"), "typeCondition", Type))
             IN  Child(Directed1(on), "selectionSet", Set)

locate_selection_set_node(doc, node, i) ==
  LET Each(array, k) == InArray(doc, array, k, LAMBDA ns, j :
        LocateEach(doc, ns, j, LAMBDA n, m : locate_selection_node(doc, n, m)))
  IN  Skip(doc, Child(Skip(doc, Ok(SetLoc(node, i), i), "LBRACE"), "selections", Each),
           "RBRACE")

=============================================================================
