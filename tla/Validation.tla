----------------------------- MODULE Validation -----------------------------
(***************************************************************************)
(* Executable document validation of src/validation.h: the passes of       *)
(* gql_validation_validate in their order, and gql_validation_check_cost.  *)
(*                                                                         *)
(* AST nodes are records with the keys of the canonical AST; a key that    *)
(* the parser leaves out is not in the record.  Literals are records       *)
(*   [v |-> "int" | "bigint" | "float" | "string" | "bool" | "enum" |      *)
(*          "var" | "null", lit |-> text],                                 *)
(*   [v |-> "list", items |-> sequence], [v |-> "object", fields |-> hash]. *)
(* Variable types are <<"named", n>>, <<"list", t>>, <<"non_null", t>>.    *)
(* Errors are tuples in a set: no rule looks at their order or repetition, *)
(* and locations are left out.                                             *)
(***************************************************************************)
EXTENDS SchemaCompiler

CONSTANTS Requests,   \* what a caller may ask: a schema, a document, a cost limit
          MergeDepth  \* bound on the recursion of field merging

VARIABLES pc,          \* the pass that runs next
          request,     \* the schema and document under validation
          compiled,    \* the compiled schema
          fragments,   \* name -> last fragment definition of that name
          seeds,       \* errors of subscription operations, per operation
          cycleErrors, \* errors of fragment cycles, appended after the directives
          errors       \* the result

vars == <<pc, request, compiled, fragments, seeds, cycleErrors, errors>>

-----------------------------------------------------------------------------
(* Lookups *)

compiled_type(c, n) == IF Has(c.types, n) THEN c.types[n] ELSE [kind |-> "none"]
IsType(c, n) == Has(c.types, n)
KindOf(c, n) == compiled_type(c, n).kind
Fields(type) == Fetch(type, "fields", EmptyHash)

NoType == [kind |-> "none"]

RECURSIVE named_type_name(_)
named_type_name(t) ==
  CASE t.kind = "NAMED" -> t.name
    [] Has(t, "of") -> named_type_name(t.of)
    [] OTHER -> Undef

type_is_non_null(t) == t.kind = "NON_NULL"

RECURSIVE type_is_list(_)
type_is_list(t) ==
  \/ t.kind = "LIST"
  \/ t.kind = "NON_NULL" /\ type_is_list(t.of)

\* lookup_type and compile_type_ref on a variable's type; NoType if it dies.
RECURSIVE VariableTypeRef(_, _)
VariableTypeRef(c, t) ==
  IF t[1] = "named"
  THEN IF IsType(c, t[2]) THEN [kind |-> "NAMED", name |-> t[2]] ELSE NoType
  ELSE LET inner == VariableTypeRef(c, t[2])
       IN  IF inner = NoType THEN NoType
           ELSE [kind |-> IF t[1] = "list" THEN "LIST" ELSE "NON_NULL",
                 of |-> inner]

RECURSIVE possible_object_names(_, _)
possible_object_names(c, n) ==
  CASE KindOf(c, n) = "OBJECT" -> {n}
    [] KindOf(c, n) \in {"INTERFACE", "UNION"} ->
         UNION {possible_object_names(c, m) :
                  m \in ToSet(Fetch(c.possible_types, n, <<>>))}
    [] OTHER -> {}

selection_types_overlap(c, left, right) ==
  \/ left = right
  \/ possible_object_names(c, left) \cap possible_object_names(c, right) # {}

ResponseKey(field) == Fetch(field, "alias", field.name)
SelectionsOf(node) == Fetch(node, "selections", <<>>)
Arguments(node) == Fetch(node, "arguments", EmptyHash)
Directives(node) == Fetch(node, "directives", <<>>)

Operations(ast) == SelectSeq(ast, LAMBDA n : n.kind = "operation")
FragmentNodes(ast) == SelectSeq(ast, LAMBDA n : n.kind = "fragment")

\* The map of fragments: a later definition replaces an earlier one.
build_fragments_map(ast) ==
  LET nodes == FragmentNodes(ast)
  IN  [n \in {nodes[i].name : i \in DOMAIN nodes} |->
         nodes[SelectLastInSeq(nodes, LAMBDA f : f.name = n)]]

-----------------------------------------------------------------------------
(* Names of operations and fragments *)

NameErrors(ops, i) ==
  IF ~Has(ops[i], "name")
  THEN IF Len(ops) > 1 THEN {<<"AnonymousNotAlone">>} ELSE {}
  ELSE IF \E j \in 1..(i - 1) : Has(ops[j], "name") /\ ops[j].name = ops[i].name
       THEN {<<"DuplicateOperation", ops[i].name>>} ELSE {}

push_operation_errors(ops) ==
  IF ops = <<>> THEN {<<"NoOperations">>}
  ELSE UNION {NameErrors(ops, i) : i \in DOMAIN ops}

push_fragment_name_errors(ast) ==
  LET nodes == FragmentNodes(ast)
  IN  {<<"DuplicateFragment", nodes[i].name>> :
         i \in {k \in DOMAIN nodes : \E j \in 1..(k - 1) : nodes[j].name = nodes[k].name}}

NotExecutable(ast) ==
  {<<"NotExecutable">> : i \in {k \in DOMAIN ast : ast[k].kind \notin {"operation", "fragment"}}}

-----------------------------------------------------------------------------
(* Variables and fragments that are used *)

\* The walk skips these keys of every hash it meets, argument hashes included.
SkippedKeys == {"variables", "location"}

RECURSIVE ValueUses(_)
ValueUses(v) ==
  CASE v.v = "var" -> {v.lit}
    [] v.v = "list" -> UNION {ValueUses(v.items[i]) : i \in DOMAIN v.items}
    [] v.v = "object" ->
         UNION {ValueUses(v.fields[k]) : k \in DOMAIN v.fields \ SkippedKeys}
    [] OTHER -> {}

ArgumentUses(args) == UNION {ValueUses(args[a]) : a \in DOMAIN args \ SkippedKeys}

\* Mutant: the directives are not searched.
NodeUsesInArguments(node) == ArgumentUses(Arguments(node))

NodeUses(node) ==
  ArgumentUses(Arguments(node))
    \cup UNION {ArgumentUses(Arguments(Directives(node)[i])) :
                  i \in DOMAIN Directives(node)}

\* acc: variables and spreads met so far; a spread is entered the first time.
RECURSIVE collect_usage(_, _, _)
collect_usage(frags, node, acc) ==
  LET Spread == Fetch(node, "kind", "") = "fragment_spread"
      here == [vars |-> acc.vars \cup NodeUses(node),
               spreads |-> acc.spreads \cup (IF Spread THEN {node.name} ELSE {})]
      walk(sels, a) == FoldLeft(LAMBDA b, n : collect_usage(frags, n, b), a, sels)
  IN  IF Spread /\ node.name \notin acc.spreads /\ Has(frags, node.name)
      THEN walk(frags[node.name].selections, here)
      ELSE walk(SelectionsOf(node), here)

Usage(frags, op) == collect_usage(frags, op, [vars |-> {}, spreads |-> {}])

push_usage_errors(ast, ops, frags) ==
  LET NeverUsed(op) ==
        {<<"VariableNeverUsed", x>> :
           x \in DOMAIN Fetch(op, "variables", EmptyHash) \ Usage(frags, op).vars}
      reachable == UNION {Usage(frags, ops[i]).spreads : i \in DOMAIN ops}
  IN  UNION {NeverUsed(ops[i]) : i \in DOMAIN ops}
        \cup {<<"FragmentNeverUsed", n>> : n \in DOMAIN frags \ reachable}

\* A later field of the same response key replaces the earlier one's name.
RECURSIVE collect_subscription_fields(_, _, _, _)
collect_subscription_fields(frags, sels, visited, fields) ==
  FoldLeft(LAMBDA acc, sel :
      CASE sel.kind = "field" ->
             [k \in DOMAIN acc \cup {ResponseKey(sel)} |->
                IF k = ResponseKey(sel) THEN sel.name ELSE acc[k]]
        [] sel.kind = "inline_fragment" ->
             collect_subscription_fields(frags, sel.selections, visited, acc)
        [] OTHER ->
             IF sel.name \in visited \/ ~Has(frags, sel.name) THEN acc
             ELSE collect_subscription_fields(frags, frags[sel.name].selections,
                                              visited \cup {sel.name}, acc),
    fields, sels)

IntrospectionNames == {"__typename", "__schema", "__type"}

SubscriptionErrors(frags, op) ==
  LET fields == collect_subscription_fields(frags, op.selections, {}, EmptyHash)
  IN  IF Fetch(op, "operationType", "query") # "subscription" THEN {}
      ELSE IF Cardinality(DOMAIN fields) # 1
           THEN {<<"SubscriptionFields", DOMAIN fields>>}
           ELSE IF \E k \in DOMAIN fields : fields[k] \in IntrospectionNames
                THEN {<<"SubscriptionIntrospection">>} ELSE {}

push_subscription_errors(ops, frags) ==
  [i \in DOMAIN ops |-> SubscriptionErrors(frags, ops[i])]

RECURSIVE collect_fragment_spreads(_)
collect_fragment_spreads(sels) ==
  FlattenSeq([i \in DOMAIN sels |->
    IF sels[i].kind = "fragment_spread" THEN <<sels[i].name>>
    ELSE collect_fragment_spreads(SelectionsOf(sels[i]))])

\* A depth-first visit; st: the states of the fragments and the cycles found.
RECURSIVE visit_fragment_cycles(_, _, _)
visit_fragment_cycles(frags, n, st) ==
  CASE ~Has(frags, n) -> st
    [] Has(frags, n) /\ st.state[n] = "done" -> st
    [] Has(frags, n) /\ st.state[n] = "visiting" ->
         [st EXCEPT !.errors = @ \cup {<<"FragmentCycle", n>>}]
    [] OTHER ->
         LET inside == FoldLeft(LAMBDA acc, m : visit_fragment_cycles(frags, m, acc),
                                [st EXCEPT !.state[n] = "visiting"],
                                collect_fragment_spreads(frags[n].selections))
         IN  [inside EXCEPT !.state[n] = "done"]

\* The fragments are visited in the order of their names; any order finds the
\* same cycles' back edges up to their starting point, the model takes one.
push_fragment_cycle_errors(frags) ==
  FoldLeft(LAMBDA acc, n : visit_fragment_cycles(frags, n, acc),
           [state |-> [n \in DOMAIN frags |-> "unseen"], errors |-> {}],
           SetToSeq(DOMAIN frags)).errors

-----------------------------------------------------------------------------
(***************************************************************************)
(* Values and arguments.  env is the variables hash a rule is given, null  *)
(* for a missing hash.  The variables of a fragment are looked up once per *)
(* operation that spreads it; its own definition is checked with a hash of *)
(* one marked name, and whatever hash holds that name defers.              *)
(***************************************************************************)
DeferName == "__defer_fragment_variables"

Env(op) == [null |-> ~Has(op, "variables"),
            defs |-> Fetch(op, "variables", EmptyHash)]
NullEnv == [null |-> TRUE, defs |-> EmptyHash]
DeferredEnv == [null |-> FALSE, defs |-> [x \in {DeferName} |-> EmptyHash]]

\* The hash has a definition, not the mark, under the name.
Defines(env, x) == Has(env.defs, x) /\ Has(env.defs[x], "type")

RECURSIVE variable_type_compatible(_, _)
variable_type_compatible(vt, lt) ==
  CASE lt.kind = "NON_NULL" ->
         vt[1] = "non_null" /\ variable_type_compatible(vt[2], lt.of)
    [] lt.kind # "NON_NULL" /\ vt[1] = "non_null" ->
         variable_type_compatible(vt[2], lt)
    [] lt.kind = "LIST" /\ vt[1] # "non_null" ->
         vt[1] = "list" /\ variable_type_compatible(vt[2], lt.of)
    [] OTHER -> lt.kind = "NAMED" /\ vt[1] = "named" /\ vt[2] = lt.name

\* Mutant: a default of null stands in for a missing value.
EffectiveTypeOfAnyDefault(def, type, hasDefault) ==
  IF /\ type_is_non_null(type) /\ def.type[1] # "non_null"
     /\ Has(def, "default_value") \/ hasDefault
  THEN type.of ELSE type

\* A default, of the variable or of the position, stands in for a missing value.
EffectiveType(def, type, hasDefault) ==
  IF /\ type_is_non_null(type)
     /\ def.type[1] # "non_null"
     /\ \/ Has(def, "default_value") /\ def.default_value.v # "null"
        \/ hasDefault
  THEN type.of ELSE type

validate_nested_variable_position(env, v, type, hasDefault, position) ==
  IF /\ v.v = "var" /\ Defines(env, v.lit)
     /\ ~variable_type_compatible(env.defs[v.lit].type,
                                  EffectiveType(env.defs[v.lit], type, hasDefault))
  THEN {<<"VariablePosition", v.lit, position>>} ELSE {}

BuiltinScalars == {"Int", "Float", "String", "Boolean", "ID"}

\* The literal kinds a built-in scalar takes: the flags the parser leaves on
\* the value.  A bigint is an integer outside of 32 bits.
LiteralKinds(n) ==
  CASE n = "Int" -> {"int"}
    [] n = "Float" -> {"int", "bigint", "float"}
    [] n = "String" -> {"string"}
    [] n = "Boolean" -> {"bool"}
    [] n = "ID" -> {"string", "int", "bigint"}

\* The tail of validate_value: a leaf literal against a named type.
ValidateLeaf(c, v, n) ==
  LET kind == KindOf(c, n)
      bad == {<<"InvalidLiteral", n>>}
  IN  CASE kind = "ENUM" ->
             IF v.v = "enum" /\ Has(c.types[n].values, v.lit) THEN {} ELSE bad
        [] kind = "INPUT_OBJECT" -> {<<"ScalarForInputObject", n>>}
        [] n \in BuiltinScalars ->
             IF v.v \in LiteralKinds(n) THEN {} ELSE bad
        [] kind = "SCALAR" /\ n \notin BuiltinScalars ->
             IF Has(c.types[n], "parse_value") /\ v.v \notin c.types[n].parse_value
             THEN bad ELSE {}
        [] OTHER -> {}

RequiredMissing(defs, given) ==
  {f \in DOMAIN defs \ given :
     type_is_non_null(defs[f].type) /\ ~defs[f].has_default_value}

OneOfErrors(type, v) ==
  IF ~type.is_one_of THEN {}
  ELSE IF Cardinality(DOMAIN v.fields) # 1 THEN {<<"OneOfKeys", type.name>>}
  ELSE {<<"OneOfNull", type.name>> :
          k \in {f \in DOMAIN v.fields : v.fields[f].v = "null"}}

RECURSIVE validate_value(_, _, _, _)

ValidateList(c, env, v, type) ==
  LET list == IF type_is_non_null(type) THEN type.of ELSE type
  IN  IF list.kind # "LIST" THEN {<<"ListForNonList">>}
      ELSE UNION {validate_nested_variable_position(env, v.items[i], list.of, FALSE, "item")
                    \cup validate_value(c, env, v.items[i], list.of) :
                  i \in DOMAIN v.items}

ValidateObject(c, env, v, n) ==
  LET type == compiled_type(c, n)
      given == DOMAIN v.fields
      FieldErrors(f) ==
        IF ~Has(type.fields, f) THEN {<<"UnknownInputField", n, f>>}
        ELSE LET def == type.fields[f]
             IN  validate_nested_variable_position(env, v.fields[f], def.type,
                                                   def.has_default_value, "field")
                   \cup validate_value(c, env, v.fields[f], def.type)
  IN  IF type = NoType THEN {}
      ELSE IF type.kind # "INPUT_OBJECT" THEN {<<"ObjectForNonInputObject">>}
      ELSE OneOfErrors(type, v)
             \cup UNION {FieldErrors(f) : f \in given}
             \cup {<<"RequiredInputField", n, f>> : f \in RequiredMissing(type.fields, given)}

validate_value(c, env, v, type) ==
  CASE v.v = "null" ->
         IF type_is_non_null(type) THEN {<<"NullForNonNull">>} ELSE {}
    [] v.v = "list" -> ValidateList(c, env, v, type)
    [] v.v = "object" -> ValidateObject(c, env, v, named_type_name(type))
    [] v.v = "var" ->
         IF Has(env.defs, v.lit) \/ Has(env.defs, DeferName) THEN {}
         ELSE {<<"VariableUndefined", v.lit>>}
    [] OTHER -> ValidateLeaf(c, v, named_type_name(type))

\* Argument positions are checked like the nested ones, argument by argument.
validate_arguments(c, env, args, defs) ==
  LET Each(a) ==
        IF ~Has(defs, a) THEN {<<"UnknownArgument", a>>}
        ELSE validate_nested_variable_position(env, args[a], defs[a].type,
                                               defs[a].has_default_value, a)
               \cup validate_value(c, env, args[a], defs[a].type)
  IN  UNION {Each(a) : a \in DOMAIN args}
        \cup {<<"RequiredArgument", a>> : a \in RequiredMissing(defs, DOMAIN args)}

-----------------------------------------------------------------------------
(* Field merging *)

\* Scalars are compared as strings: 1 and "1" are the same value here.
RECURSIVE values_equal(_, _)
values_equal(l, r) ==
  LET Ref(x) == x.v \in {"list", "object", "var", "enum", "bool"}
  IN  CASE l.v = "null" \/ r.v = "null" -> l.v = r.v
        [] l.v = "list" /\ r.v = "list" ->
             /\ Len(l.items) = Len(r.items)
             /\ \A i \in DOMAIN l.items : values_equal(l.items[i], r.items[i])
        [] l.v = "object" /\ r.v = "object" ->
             /\ DOMAIN l.fields = DOMAIN r.fields
             /\ \A k \in DOMAIN l.fields : values_equal(l.fields[k], r.fields[k])
        [] l.v \in {"list", "object"} \/ r.v \in {"list", "object"} -> l.v = r.v
        [] OTHER -> l.lit = r.lit /\ (Ref(l) \/ Ref(r) => l.v = r.v)

\* Arguments are absent or a hash.
SameArguments(f, g) ==
  /\ Has(f, "arguments") = Has(g, "arguments")
  /\ DOMAIN Arguments(f) = DOMAIN Arguments(g)
  /\ \A a \in DOMAIN Arguments(f) : values_equal(Arguments(f)[a], Arguments(g)[a])

\* acc: the fields met, each with its parent type, and the fragments entered.
RECURSIVE collect_merge_fields(_, _, _, _)
collect_merge_fields(frags, sels, parent, acc) ==
  FoldLeft(LAMBDA a, sel :
      CASE sel.kind = "field" ->
             [a EXCEPT !.out = Append(@, [field |-> sel, parent |-> parent])]
        [] sel.kind = "inline_fragment" ->
             collect_merge_fields(frags, sel.selections, Fetch(sel, "on", parent), a)
        [] OTHER ->
             IF sel.name \in a.visited \/ ~Has(frags, sel.name) THEN a
             ELSE collect_merge_fields(frags, frags[sel.name].selections,
                    frags[sel.name].on, [a EXCEPT !.visited = @ \cup {sel.name}]),
    acc, sels)

field_type(c, parent, name) ==
  LET fields == Fields(compiled_type(c, parent))
  IN  IF Has(fields, name) THEN fields[name].type ELSE NoType

IsLeaf(c, n) == KindOf(c, n) \in {"SCALAR", "ENUM"}
IsComposite(c, n) == KindOf(c, n) \in {"OBJECT", "INTERFACE", "UNION"}

RECURSIVE same_response_shape(_, _, _)
same_response_shape(c, l, r) ==
  CASE l = NoType \/ r = NoType -> FALSE
    [] l.kind \in {"NON_NULL", "LIST"} \/ r.kind \in {"NON_NULL", "LIST"} ->
         l.kind = r.kind /\ same_response_shape(c, l.of, r.of)
    [] OTHER -> IF IsLeaf(c, l.name) \/ IsLeaf(c, r.name) THEN l.name = r.name ELSE TRUE

EntryType(c, e) == field_type(c, e.parent, e.field.name)

\* Mutant: the arguments are not compared.
ConflictOfNames(c, e, p) ==
  \/ ~same_response_shape(c, EntryType(c, e), EntryType(c, p))
  \/ selection_types_overlap(c, e.parent, p.parent) /\ e.field.name # p.field.name

Conflict(c, e, p) ==
  \/ ~same_response_shape(c, EntryType(c, e), EntryType(c, p))
  \/ /\ selection_types_overlap(c, e.parent, p.parent)
     /\ e.field.name # p.field.name \/ ~SameArguments(e.field, p.field)

\* One representative is kept of the entries with one signature and parent.
Represented(e, p) ==
  /\ e.parent = p.parent
  /\ e.field.name = p.field.name
  /\ SameArguments(e.field, p.field)

NewBucket == [entries |-> <<>>, merge_entries |-> <<>>, conflicted |-> FALSE]

AddToBucket(c, bucket, e) ==
  IF bucket.conflicted THEN bucket
  ELSE LET conflict == \E i \in DOMAIN bucket.entries : Conflict(c, e, bucket.entries[i])
           known == \E i \in DOMAIN bucket.entries : Represented(e, bucket.entries[i])
       IN  [entries |-> IF conflict \/ known THEN bucket.entries
                        ELSE Append(bucket.entries, e),
            merge_entries |-> Append(bucket.merge_entries, e),
            conflicted |-> conflict]

FieldBuckets(c, fields) ==
  FoldLeft(LAMBDA acc, e :
      LET k == ResponseKey(e.field)
      IN  [x \in DOMAIN acc \cup {k} |->
             IF x = k THEN AddToBucket(c, Fetch(acc, k, NewBucket), e) ELSE acc[x]],
    EmptyHash, fields)

\* The selections of the entries of a bucket, as inline fragments.
Combined(c, bucket) ==
  LET nested == SelectSeq(bucket.merge_entries,
                  LAMBDA e : Has(e.field, "selections") /\ EntryType(c, e) # NoType)
  IN  [i \in DOMAIN nested |->
         [kind |-> "inline_fragment",
          on |-> named_type_name(EntryType(c, nested[i])),
          selections |-> nested[i].field.selections]]

\* The code follows the nested selections as deep as they go, fragment cycles
\* included.  The model stops after MergeDepth levels and leaves a mark: no
\* document is accepted, and no rule-following one refused, for want of depth.
RECURSIVE validate_field_merging(_, _, _, _, _)
validate_field_merging(c, frags, sels, parent, fuel) ==
  LET fields == collect_merge_fields(frags, sels, parent,
                                     [out |-> <<>>, visited |-> {}]).out
      buckets == FieldBuckets(c, fields)
      Nested(k) ==
        LET combined == Combined(c, buckets[k])
        IN  IF Len(combined) < 2 THEN {}
            ELSE IF fuel = 0 THEN {<<"MergingGoesOn">>}
            ELSE validate_field_merging(c, frags, combined, combined[1].on, fuel - 1)
  IN  UNION {IF buckets[k].conflicted THEN {<<"FieldConflict", k>>} ELSE Nested(k) :
               k \in DOMAIN buckets}

-----------------------------------------------------------------------------
(* Selections, fragments and operations *)

\* What a fragment is revalidated for once per operation that spreads it.
VariableErrors == {"VariablePosition", "VariableUndefined"}

\* The meta fields are no entries of the compiled types.
IsMetaField(c, parent, name) ==
  \/ name = "__typename"
  \/ name \in {"__schema", "__type"} /\ c.roots["query"] = parent

RECURSIVE validate_selections(_, _, _, _, _, _)

validate_field_selection(c, frags, env, visited, sel, parent) ==
  LET fields == Fields(compiled_type(c, parent))
  IN  IF ~Has(fields, sel.name)
      THEN IF IsMetaField(c, parent, sel.name) THEN {}
           ELSE {<<"UnknownField", parent, sel.name>>}
      ELSE LET def == fields[sel.name]
               next == named_type_name(def.type)
               nested == Has(sel, "selections")
           IN  validate_arguments(c, env, Arguments(sel), def.args)
                 \cup (IF IsLeaf(c, next) /\ nested
                       THEN {<<"LeafWithSelection", sel.name>>} ELSE {})
                 \cup (IF IsComposite(c, next) /\ ~nested
                       THEN {<<"CompositeWithoutSelection", sel.name>>} ELSE {})
                 \cup (IF nested /\ ~IsLeaf(c, next)
                       THEN validate_selections(c, frags, env, visited, sel.selections, next)
                       ELSE {})

\* visited is the path; the code marks a fragment for the whole operation, and
\* as errors are a set a second visit would add none.
ValidateSpread(c, frags, env, visited, sel, parent) ==
  IF ~Has(frags, sel.name) THEN {<<"UnknownFragment", sel.name>>}
  ELSE LET frag == frags[sel.name]
           again == ~visited.null /\ sel.name \notin visited.names
           inner == validate_selections(c, frags, env,
                      [visited EXCEPT !.names = @ \cup {sel.name}],
                      frag.selections, frag.on)
       IN  (IF IsType(c, frag.on) /\ ~selection_types_overlap(c, parent, frag.on)
            THEN {<<"ImpossibleSpread", sel.name>>} ELSE {})
             \cup (IF again THEN {e \in inner : e[1] \in VariableErrors} ELSE {})

ValidateInline(c, frags, env, visited, sel, parent) ==
  LET target == Fetch(sel, "on", parent)
  IN  IF ~IsType(c, target) THEN {<<"UnknownInlineType", target>>}
      ELSE IF ~selection_types_overlap(c, parent, target)
           THEN {<<"ImpossibleInline", target>>}
           ELSE validate_selections(c, frags, env, visited, sel.selections, target)

validate_selections(c, frags, env, visited, sels, parent) ==
  IF ~IsType(c, parent) THEN {}
  ELSE validate_field_merging(c, frags, sels, parent, MergeDepth)
         \cup UNION {CASE sels[i].kind = "field" ->
                            validate_field_selection(c, frags, env, visited, sels[i], parent)
                       [] sels[i].kind = "fragment_spread" ->
                            ValidateSpread(c, frags, env, visited, sels[i], parent)
                       [] OTHER ->
                            ValidateInline(c, frags, env, visited, sels[i], parent) :
                     i \in DOMAIN sels}

RECURSIVE IsInputTypeRef(_, _)
IsInputTypeRef(c, t) ==
  IF t.kind = "NAMED" THEN c.types[t.name].is_input ELSE IsInputTypeRef(c, t.of)

validate_variable_definitions(c, defs) ==
  LET Each(x) ==
        LET type == VariableTypeRef(c, defs[x].type)
        IN  CASE type = NoType -> {<<"VariableInvalidType", x>>}
              [] type # NoType /\ ~IsInputTypeRef(c, type) -> {<<"VariableNotInput", x>>}
              [] OTHER ->
                   IF Has(defs[x], "default_value")
                   THEN validate_value(c, NullEnv, defs[x].default_value, type) ELSE {}
  IN  UNION {Each(x) : x \in DOMAIN defs}

\* Variables are deferred, and no fragment is entered from a fragment.
validate_fragments(c, frags) ==
  LET Each(n) ==
        CASE ~IsType(c, frags[n].on) -> {<<"FragmentUnknownType", n>>}
          [] IsType(c, frags[n].on) /\ ~IsComposite(c, frags[n].on) ->
               {<<"FragmentNonComposite", n>>}
          [] OTHER -> validate_selections(c, frags, DeferredEnv,
                        [null |-> TRUE, names |-> {}], frags[n].selections, frags[n].on)
  IN  UNION {Each(n) : n \in DOMAIN frags}

OperationType(op) == Fetch(op, "operationType", "query")

validate_operation(c, frags, op) ==
  LET root == c.roots[OperationType(op)]
  IN  IF root = Undef THEN {<<"NoRootType", OperationType(op)>>}
      ELSE validate_variable_definitions(c, Env(op).defs)
             \cup validate_selections(c, frags, Env(op), [null |-> FALSE, names |-> {}],
                                      op.selections, root)

-----------------------------------------------------------------------------
(* Directives *)

directive_has_location(def, location) == Contains(def.locations, location)

RECURSIVE value_contains_variable(_)
value_contains_variable(v) ==
  \/ v.v = "var"
  \/ v.v = "list" /\ \E i \in DOMAIN v.items : value_contains_variable(v.items[i])
  \/ v.v = "object" /\ \E k \in DOMAIN v.fields : value_contains_variable(v.fields[k])

\* The directives of a fragment are checked structurally where it is defined,
\* and for their variables once per operation that spreads it.
DirectiveArgument(c, env, structure, name, def, args, a) ==
  IF ~Has(args, a)
  THEN IF structure /\ a \in RequiredMissing(def.args, DOMAIN args)
       THEN {<<"DirectiveRequiredArgument", name, a>>} ELSE {}
  ELSE LET variable == value_contains_variable(args[a])
           bad == validate_value(c, env, args[a], def.args[a].type)
       IN  IF (~structure /\ ~variable) \/ (env.null /\ variable) THEN {}
           ELSE validate_nested_variable_position(env, args[a], def.args[a].type,
                  def.args[a].has_default_value, "directive")
                  \cup (IF variable \/ bad = {} THEN bad
                        ELSE {<<"DirectiveInvalidValue", name, a>>})

validate_directive_list(c, env, structure, directives, location) ==
  LET Each(i) ==
        LET d == directives[i]
            name == d.name
            def == c.directives[name]
        IN  IF ~Has(c.directives, name)
            THEN IF structure THEN {<<"UnknownDirective", name>>} ELSE {}
            ELSE {<<"DirectiveLocation", name, location>> :
                    x \in IF structure /\ ~directive_has_location(def, location)
                          THEN {1} ELSE {}}
                 \cup {<<"DirectiveRepeated", name>> :
                    x \in IF /\ structure /\ ~def.repeatable
                             /\ \E j \in 1..(i - 1) : directives[j].name = name
                          THEN {1} ELSE {}}
                 \cup {<<"DirectiveUnknownArgument", name, a>> :
                    a \in IF structure THEN DOMAIN Arguments(d) \ DOMAIN def.args ELSE {}}
                 \cup UNION {DirectiveArgument(c, env, structure, name, def, Arguments(d), a) :
                    a \in DOMAIN def.args}
  IN  UNION {Each(i) : i \in DOMAIN directives}

DirectiveLocation(sel) ==
  CASE sel.kind = "field" -> "FIELD"
    [] sel.kind = "fragment_spread" -> "FRAGMENT_SPREAD"
    [] OTHER -> "INLINE_FRAGMENT"

RECURSIVE validate_directives_in_selections(_, _, _, _, _, _)
validate_directives_in_selections(c, frags, env, visited, structure, sels) ==
  LET Each(sel) ==
        validate_directive_list(c, env, structure, Directives(sel), DirectiveLocation(sel))
          \cup (IF /\ sel.kind = "fragment_spread" /\ ~visited.null /\ ~env.null
                   /\ sel.name \notin visited.names /\ Has(frags, sel.name)
                THEN validate_directives_in_selections(c, frags, env,
                       [visited EXCEPT !.names = @ \cup {sel.name}], FALSE,
                       frags[sel.name].selections)
                ELSE {})
          \cup validate_directives_in_selections(c, frags, env, visited, structure,
                 SelectionsOf(sel))
  IN  UNION {Each(sels[i]) : i \in DOMAIN sels}

NodeLocation(node) ==
  CASE node.kind # "operation" -> "FRAGMENT_DEFINITION"
    [] OperationType(node) = "mutation" -> "MUTATION"
    [] OperationType(node) = "subscription" -> "SUBSCRIPTION"
    [] OTHER -> "QUERY"

validate_document_directives(c, ast, frags) ==
  LET Each(node) ==
        LET op == node.kind = "operation"
            env == IF op THEN Env(node) ELSE NullEnv
        IN  UNION {validate_directive_list(c, env, TRUE, Directives(env.defs[x]),
                                           "VARIABLE_DEFINITION") : x \in DOMAIN env.defs}
              \cup validate_directive_list(c, env, TRUE, Directives(node), NodeLocation(node))
              \cup validate_directives_in_selections(c, frags, env,
                     [null |-> ~op, names |-> {}], TRUE, SelectionsOf(node))
  IN  UNION {Each(ast[i]) : i \in DOMAIN ast}

-----------------------------------------------------------------------------
(* Cost *)

DefaultListSize == 10

\* A sum that saturates just above the limit.
cost_add(total, add, max) == IF add > max - total THEN max + 1 ELSE total + add

\* Mutant: the division rounds, and the limit itself is refused.
FieldCostAtTheLimit(def, child, max, size, total) ==
  LET own == cost_add(total, Fetch(def, "cost", 1), max)
      times == IF type_is_list(def.type) THEN Fetch(def, "list_size", size) ELSE 1
      each == IF type_is_list(def.type) /\ child = 0 THEN 1 ELSE child
  IN  IF own > max \/ each = 0 THEN own
      ELSE IF times >= (max - own) \div each THEN max + 1 ELSE own + times * each

FieldCost(def, child, max, size, total) ==
  LET list == type_is_list(def.type)
      times == IF list THEN Fetch(def, "list_size", size) ELSE 1
      each == IF list /\ child = 0 THEN 1 ELSE child
      own == cost_add(total, Fetch(def, "cost", 1), max)
  IN  IF own > max THEN own
      ELSE IF each = 0 THEN own
      ELSE IF times > (max - own) \div each THEN max + 1
      ELSE own + times * each

\* Above the limit the walk stops; a fragment counts once on every path to it.
RECURSIVE selection_cost(_, _, _, _, _, _, _)
selection_cost(c, frags, sels, parent, visited, max, size) ==
  LET fields == Fields(compiled_type(c, parent))
      Cost(total, sel) ==
        CASE total > max -> total
          [] total <= max /\ sel.kind = "field" ->
               IF ~Has(fields, sel.name) THEN cost_add(total, 1, max)
               ELSE LET def == fields[sel.name]
                        child == selection_cost(c, frags, SelectionsOf(sel),
                                   named_type_name(def.type), visited, max, size)
                    IN  FieldCost(def, child, max, size, total)
          [] total <= max /\ sel.kind = "inline_fragment" ->
               cost_add(total, selection_cost(c, frags, sel.selections,
                          Fetch(sel, "on", parent), visited, max, size), max)
          [] OTHER ->
               IF sel.name \in visited \/ ~Has(frags, sel.name) THEN total
               ELSE cost_add(total, selection_cost(c, frags, frags[sel.name].selections,
                      frags[sel.name].on, visited \cup {sel.name}, max, size), max)
  IN  FoldLeft(Cost, 0, sels)

check_cost(c, frags, ast, options) ==
  LET Chosen(op) == Has(options, "operation_name") =>
        Has(op, "name") /\ op.name = options.operation_name
      Cost(op) == selection_cost(c, frags, op.selections, c.roots[OperationType(op)], {},
                    options.max_cost, Fetch(options, "default_list_size", DefaultListSize))
      ops == {op \in ToSet(Operations(ast)) : Chosen(op)}
  IN  {<<"CostExceeded", Fetch(op, "name", "anonymous")>> :
         op \in {o \in ops : Cost(o) > options.max_cost}}

\* Options that are refused before the document is looked at.
OptionsCroak(options) ==
  \/ ~Has(options, "max_cost") \/ options.max_cost < 0
  \/ Has(options, "default_list_size") /\ options.default_list_size < 1

-----------------------------------------------------------------------------
(* gql_validation_validate, pass by pass, and gql_validation_check_cost *)

Init ==
  /\ request \in Requests
  /\ pc = "start"
  /\ compiled = EmptyHash /\ fragments = EmptyHash
  /\ seeds = <<>> /\ cycleErrors = {} /\ errors = {}

IsCost == request.entry = "cost"

\* parse_ast hands over an AST, or what the validation parser found in a text.
Compile ==
  /\ pc = "start"
  /\ IF SchemaCroaks(request.schema) \/ (IsCost /\ OptionsCroak(request.options))
     THEN pc' = "croaked" /\ UNCHANGED <<compiled, fragments, errors>>
     ELSE /\ pc' = IF IsCost THEN "cost" ELSE "names"
          /\ compiled' = compile_schema(request.schema)
          /\ fragments' = build_fragments_map(request.ast)
          /\ errors' = IF IsCost THEN {}
                       ELSE request.duplicates \cup NotExecutable(request.ast)
  /\ UNCHANGED <<request, seeds, cycleErrors>>

CheckNames ==
  /\ pc = "names" /\ pc' = "usage"
  /\ errors' = errors \cup push_operation_errors(Operations(request.ast))
                      \cup push_fragment_name_errors(request.ast)
  /\ UNCHANGED <<request, compiled, fragments, seeds, cycleErrors>>

CheckUsage ==
  /\ pc = "usage" /\ pc' = "fragments"
  /\ errors' = errors \cup push_usage_errors(request.ast, Operations(request.ast), fragments)
  /\ seeds' = push_subscription_errors(Operations(request.ast), fragments)
  /\ cycleErrors' = push_fragment_cycle_errors(fragments)
  /\ UNCHANGED <<request, compiled, fragments>>

CheckFragments ==
  /\ pc = "fragments" /\ pc' = "directives"
  /\ errors' = errors \cup validate_fragments(compiled, fragments)
  /\ UNCHANGED <<request, compiled, fragments, seeds, cycleErrors>>

CheckDirectives ==
  /\ pc = "directives" /\ pc' = "operations"
  /\ errors' = errors \cup validate_document_directives(compiled, request.ast, fragments)
                      \cup cycleErrors
  /\ UNCHANGED <<request, compiled, fragments, seeds, cycleErrors>>

CheckOperations ==
  /\ pc = "operations" /\ pc' = "done"
  /\ LET ops == Operations(request.ast)
     IN  errors' = errors \cup UNION {seeds[i] \cup validate_operation(compiled, fragments, ops[i]) :
                                        i \in DOMAIN ops}
  /\ UNCHANGED <<request, compiled, fragments, seeds, cycleErrors>>

CheckCost ==
  /\ pc = "cost" /\ pc' = "done"
  /\ errors' = check_cost(compiled, fragments, request.ast, request.options)
  /\ UNCHANGED <<request, compiled, fragments, seeds, cycleErrors>>

Done == pc \in {"done", "croaked"} /\ UNCHANGED vars

Next == \/ Compile \/ CheckNames \/ CheckUsage \/ CheckFragments
        \/ CheckDirectives \/ CheckOperations \/ CheckCost \/ Done

Spec == Init /\ [][Next]_vars

=============================================================================
