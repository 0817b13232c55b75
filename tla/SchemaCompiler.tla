--------------------------- MODULE SchemaCompiler ---------------------------
(***************************************************************************)
(* The compiled schema index of src/schema_compiler.h: what validation and *)
(* the cost limit look types, fields, arguments and directives up in.      *)
(*                                                                         *)
(* A Perl hash is a function on strings; an optional entry is a string     *)
(* that is or is not in its domain.  A schema is a record                  *)
(*   query, mutation, subscription : a root type object, where there is one *)
(*   name2type  : name -> attributes of the type, its class among them     *)
(*   directives : sequence of directive objects                            *)
(* A type object is written <<"Named", n>>; its attributes are in name2type. *)
(* Descriptions, deprecations, classes and the references back to the      *)
(* source objects are copied and never looked at here; they are left out.  *)
(***************************************************************************)
EXTENDS Integers, Sequences, FiniteSets, SequencesExt

Undef == "undef"

Has(h, k) == k \in DOMAIN h
Fetch(h, k, default) == IF Has(h, k) THEN h[k] ELSE default
EmptyHash == [k \in {} |-> Undef]

(***************************************************************************)
(* Wrapped types.  A type object is <<"NonNull", t>>, <<"List", t>> or     *)
(* <<"Named", n>>; a compiled reference has kind NON_NULL, LIST or NAMED.  *)
(***************************************************************************)
Named(n) == <<"Named", n>>
ListOf(t) == <<"List", t>>
NonNull(t) == <<"NonNull", t>>

RECURSIVE compile_type_ref(_, _)
compile_type_ref(schema, t) ==
  CASE t[1] = "NonNull" ->
         [kind |-> "NON_NULL", of |-> compile_type_ref(schema, t[2])]
    [] t[1] = "List" ->
         [kind |-> "LIST", of |-> compile_type_ref(schema, t[2])]
    [] OTHER ->
         [kind |-> "NAMED", name |-> t[2],
          named_kind |-> schema.name2type[t[2]].class]

\* gql_schema_named_type_kind: the class decides the kind.
named_type_kind(type) == type.class

\* The roles that Role::Tiny composes into the classes of Type/*.pm.
DoesInput(type) == type.class \in {"SCALAR", "ENUM", "INPUT_OBJECT"}
DoesOutput(type) == type.class # "INPUT_OBJECT"
DoesAbstract(type) == type.class \in {"INTERFACE", "UNION"}

\* The names of an array of type objects.
compile_type_name_array(types) == [i \in DOMAIN types |-> types[i][2]]

\* A directive applied in the schema keeps its name and a copy of its arguments.
compile_directive_instances(directives) ==
  [i \in DOMAIN directives |->
     [name |-> Fetch(directives[i], "name", Undef),
      arguments |-> Fetch(directives[i], "arguments", EmptyHash)]]

-----------------------------------------------------------------------------
(* Fields, arguments and values *)

compile_input_field(schema, f, field) ==
  [name |-> f,
   type |-> compile_type_ref(schema, field.type),
   default_value |-> Fetch(field, "default_value", Undef),
   has_default_value |-> Has(field, "default_value"),
   directives |-> compile_directive_instances(Fetch(field, "directives", <<>>))]

compile_input_fields(schema, fields) ==
  [f \in DOMAIN fields |-> compile_input_field(schema, f, fields[f])]

\* The optional numbers of the cost model appear only where they were declared.
CostEntries(field) ==
  [k \in DOMAIN field \cap {"cost", "list_size"} |-> field[k]]

compile_fields(schema, fields) ==
  [f \in DOMAIN fields |->
     LET field == fields[f]
         args  == Fetch(field, "args", EmptyHash)
         entry == [name |-> f,
                   type |-> compile_type_ref(schema, field.type),
                   args |-> compile_input_fields(schema, args)]
         costs == CostEntries(field)
     IN  [k \in DOMAIN entry \cup DOMAIN costs |->
            IF k \in DOMAIN costs THEN costs[k] ELSE entry[k]]]

\* An enum value without an explicit value stands for its own name.
compile_enum_values(values) ==
  [v \in DOMAIN values |-> [name |-> v, value |-> Fetch(values[v], "value", v)]]

\* The croaks of the compiler: what a field may not declare.
FieldCroaks(field) ==
  \/ ~Has(field, "type")
  \/ Has(field, "cost") /\ field.cost < 0
  \/ Has(field, "list_size") /\ field.list_size < 1

-----------------------------------------------------------------------------
(* Types and directives *)

compile_directive(schema, d) ==
  [name |-> d.name, repeatable |-> d.repeatable, locations |-> d.locations,
   args |-> compile_input_fields(schema, d.args)]

compile_named_type(schema, type) ==
  LET common == [kind |-> named_type_kind(type), name |-> type.name,
                 is_input |-> DoesInput(type), is_output |-> DoesOutput(type),
                 is_abstract |-> DoesAbstract(type)]
      own ==
        CASE type.class \in {"OBJECT", "INTERFACE"} ->
               [interfaces |-> compile_type_name_array(type.interfaces),
                fields |-> compile_fields(schema, type.fields)]
          [] type.class = "UNION" ->
               [types |-> compile_type_name_array(type.types)]
          [] type.class = "INPUT_OBJECT" ->
               [fields |-> compile_input_fields(schema, type.fields),
                is_one_of |-> Fetch(type, "is_one_of", FALSE)]
          [] type.class = "ENUM" ->
               [values |-> compile_enum_values(type.values)]
          [] type.class = "SCALAR" ->
               [k \in DOMAIN type \cap {"parse_value"} |-> type[k]]
  IN  [k \in DOMAIN common \cup DOMAIN own |->
         IF k \in DOMAIN own THEN own[k] ELSE common[k]]

-----------------------------------------------------------------------------
(* Who implements an interface: two indexes, each filled one push at a time. *)

InterfaceNames(type) == compile_type_name_array(type.interfaces)

\* The list under the key gets one more entry, or is stored when there is none.
PushTo(lists, k, x) ==
  [l \in DOMAIN lists \cup {k} |->
     IF l = k THEN Append(Fetch(lists, k, <<>>), x) ELSE lists[l]]

Objects(schema) ==
  {n \in DOMAIN schema.name2type : schema.name2type[n].class = "OBJECT"}

\* Every object is pushed to the lists of the interfaces given for it.  The
\* types come in the order of their keys, or of a Perl hash: in some order.
PushObjects(schema, interfaces) ==
  LET PushObject(n, lists) ==
        FoldLeft(LAMBDA acc, i : PushTo(acc, i, n), lists, interfaces[n])
  IN  FoldSet(PushObject, EmptyHash, Objects(schema))

ListedInterfaces(schema) ==
  [n \in Objects(schema) |-> InterfaceNames(schema.name2type[n])]

\* The queue of _build__interface2types: what an interface implements comes
\* after it, and none is taken twice.
RECURSIVE InterfacesReached(_, _, _)
InterfacesReached(schema, queue, seen) ==
  CASE queue = <<>> -> seen
    [] queue # <<>> /\ Contains(seen, Head(queue)) ->
         InterfacesReached(schema, Tail(queue), seen)
    [] OTHER ->
         InterfacesReached(schema,
           Tail(queue) \o InterfaceNames(schema.name2type[Head(queue)]),
           Append(seen, Head(queue)))

interface2types(schema) ==
  PushObjects(schema, [n \in Objects(schema) |->
    InterfacesReached(schema, InterfaceNames(schema.name2type[n]), <<>>)])

\* get_possible_types: the members of a union, the objects of an interface.
get_possible_types(schema, type) ==
  IF type.class = "UNION" THEN compile_type_name_array(type.types)
  ELSE Fetch(interface2types(schema), type.name, <<>>)

PossibleTypes(schema) ==
  LET types == schema.name2type
  IN  [n \in {m \in DOMAIN types : DoesAbstract(types[m])} |->
         get_possible_types(schema, types[n])]

\* Mutant: the list of an interface is stored anew for each object.
LastImplementation(schema) ==
  LET lists == PushObjects(schema, ListedInterfaces(schema))
  IN  [i \in DOMAIN lists |-> <<Last(lists[i])>>]

\* The compiled index pushes an object to the interfaces it lists itself.
InterfaceImplementations(schema) == PushObjects(schema, ListedInterfaces(schema))

\* What assert_valid asks of interfaces: each once, never the type itself, and
\* with an interface every interface that one implements.
InterfacesAreListed(schema) ==
  \A n \in DOMAIN schema.name2type :
    LET type == schema.name2type[n]
    IN  type.class \in {"OBJECT", "INTERFACE"} =>
          /\ IsInjective(InterfaceNames(type))
          /\ n \notin ToSet(InterfaceNames(type))
          /\ \A i \in ToSet(InterfaceNames(type)) :
               ToSet(InterfaceNames(schema.name2type[i])) \subseteq ToSet(InterfaceNames(type))

-----------------------------------------------------------------------------
(* The schema. *)

Roots(schema) ==
  [r \in {"query", "mutation", "subscription"} |->
     IF Has(schema, r) THEN schema[r][2] ELSE Undef]

\* A directive defined twice keeps its last definition.
DirectiveIndex(schema) ==
  LET defs == schema.directives
  IN  [n \in {defs[i].name : i \in DOMAIN defs} |->
         compile_directive(schema,
           defs[SelectLastInSeq(defs, LAMBDA d : d.name = n)])]

InputCroaks(fields) == \E f \in DOMAIN fields : ~Has(fields[f], "type")

\* The compiler dies on a field, an input field or an argument without a type
\* and on impossible cost numbers.
SchemaCroaks(schema) ==
  \/ \E n \in DOMAIN schema.name2type :
       LET type == schema.name2type[n]
       IN  \/ /\ type.class \in {"OBJECT", "INTERFACE"}
              /\ \E f \in DOMAIN type.fields :
                   \/ FieldCroaks(type.fields[f])
                   \/ InputCroaks(Fetch(type.fields[f], "args", EmptyHash))
           \/ type.class = "INPUT_OBJECT" /\ InputCroaks(type.fields)
  \/ \E i \in DOMAIN schema.directives : InputCroaks(schema.directives[i].args)

compile_schema(schema) ==
  [roots |-> Roots(schema),
   types |-> [n \in DOMAIN schema.name2type |->
                compile_named_type(schema, schema.name2type[n])],
   directives |-> DirectiveIndex(schema),
   interface_implementations |-> InterfaceImplementations(schema),
   possible_types |-> PossibleTypes(schema)]

=============================================================================
