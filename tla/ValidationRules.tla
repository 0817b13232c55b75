--------------------------- MODULE ValidationRules ---------------------------
(***************************************************************************)
(* What a document that validation accepts promises to the executor, said  *)
(* of the schema and the document themselves: of the objects a selection   *)
(* can meet, of the values a variable can have, of the responses that      *)
(* merged fields produce.  docs/validation-conformance.md lists the rules. *)
(***************************************************************************)
EXTENDS Validation

Schema == request.schema
Ast == request.ast
TypeOf(n) == Schema.name2type[n]
Known(n) == n \in DOMAIN Schema.name2type
ClassOf(n) == IF Known(n) THEN TypeOf(n).class ELSE "none"
Composite == {"OBJECT", "INTERFACE", "UNION"}
Leaf == {"SCALAR", "ENUM"}

\* The objects a value of a composite type can be.
ObjectsOf(n) ==
  CASE ClassOf(n) = "OBJECT" -> {n}
    [] ClassOf(n) = "UNION" -> {t[2] : t \in ToSet(TypeOf(n).types)}
    [] ClassOf(n) = "INTERFACE" ->
         {o \in DOMAIN Schema.name2type :
            ClassOf(o) = "OBJECT" /\ Contains(TypeOf(o).interfaces, Named(n))}
    [] OTHER -> {}

RECURSIVE InnerName(_)
InnerName(t) == IF t[1] = "Named" THEN t[2] ELSE InnerName(t[2])

HasField(o, f) == ClassOf(o) \in {"OBJECT", "INTERFACE"} /\ f \in DOMAIN TypeOf(o).fields
FieldType(o, f) ==
  CASE f = "__typename" -> NonNull(Named("String"))
    [] f = "__schema" -> NonNull(Named("__Schema"))
    [] f = "__type" -> Named("__Type")
    [] OTHER -> TypeOf(o).fields[f].type
MetaField(parent, f) ==
  \/ f = "__typename"
  \/ f \in {"__schema", "__type"} /\ Schema.query = Named(parent)

Ops == ToSet(Operations(Ast))
Frags == build_fragments_map(Ast)
RootOf(op) == IF Has(Schema, OperationType(op)) THEN Schema[OperationType(op)][2] ELSE Undef
Accepted == pc = "done" /\ ~IsCost /\ errors = {}

\* Every selection below an operation with the type it is selected on.
RECURSIVE Visits(_, _, _)
Visits(sels, parent, visited) ==
  UNION {LET sel == sels[i]
         IN  {<<sel, parent>>} \cup
             CASE sel.kind = "inline_fragment" ->
                    Visits(sel.selections, Fetch(sel, "on", parent), visited)
               [] sel.kind = "fragment_spread" ->
                    IF sel.name \in visited \/ sel.name \notin DOMAIN Frags THEN {}
                    ELSE Visits(Frags[sel.name].selections, Frags[sel.name].on,
                                visited \cup {sel.name})
               [] OTHER ->
                    IF HasField(parent, sel.name)
                    THEN Visits(SelectionsOf(sel), InnerName(FieldType(parent, sel.name)), visited)
                    ELSE {} : i \in DOMAIN sels}

OpVisits(op) == Visits(op.selections, RootOf(op), {})
FieldVisits(op) == {x \in OpVisits(op) : x[1].kind = "field"}

\* The fields that apply to a concrete object.
RECURSIVE FieldsFor(_, _, _)
FieldsFor(o, sels, visited) ==
  UNION {LET sel == sels[i]
         IN  CASE sel.kind = "field" -> {sel}
               [] sel.kind = "inline_fragment" ->
                    IF ~Has(sel, "on") \/ o \in ObjectsOf(sel.on)
                    THEN FieldsFor(o, sel.selections, visited) ELSE {}
               [] OTHER ->
                    IF sel.name \in visited \/ sel.name \notin DOMAIN Frags
                         \/ o \notin ObjectsOf(Frags[sel.name].on) THEN {}
                    ELSE FieldsFor(o, Frags[sel.name].selections, visited \cup {sel.name}) :
         i \in DOMAIN sels}

-----------------------------------------------------------------------------
(* Fields, fragments and names *)

FieldsAnswer ==
  \A op \in Ops : \A x \in FieldVisits(op) :
    LET f == x[1].name  parent == x[2]
    IN  \/ MetaField(parent, f)
        \/ /\ HasField(parent, f)
           /\ \A o \in ObjectsOf(parent) : HasField(o, f)
           /\ Has(x[1], "selections") <=>
                ClassOf(InnerName(FieldType(parent, f))) \in Composite

\* For accepted documents: every field a selection reaches exists on its type
\* and has subselections exactly when its type has fields; every object the
\* selection can meet can answer it (validate_field_selection).
EveryFieldCanBeAnswered == Accepted => FieldsAnswer

RECURSIVE SpreadNames(_)
SpreadNames(sels) ==
  UNION {IF sels[i].kind = "fragment_spread" THEN {sels[i].name}
         ELSE SpreadNames(SelectionsOf(sels[i])) : i \in DOMAIN sels}

SpreadsOf(n) == SpreadNames(Frags[n].selections)

RECURSIVE ReachFrom(_, _)
ReachFrom(names, seen) ==
  LET next == UNION {SpreadsOf(n) : n \in names \cap DOMAIN Frags} \ seen
  IN  IF next = {} THEN seen ELSE ReachFrom(next, seen \cup next)

SpreadsEnd ==
  /\ \A n \in DOMAIN Frags :
       /\ n \notin ReachFrom(SpreadsOf(n), SpreadsOf(n))
       /\ SpreadsOf(n) \subseteq DOMAIN Frags
       /\ ClassOf(Frags[n].on) \in Composite
  /\ \A op \in Ops : \A x \in OpVisits(op) :
       /\ x[1].kind = "fragment_spread" =>
            /\ x[1].name \in DOMAIN Frags
            /\ ObjectsOf(Frags[x[1].name].on) \cap ObjectsOf(x[2]) # {}
       /\ x[1].kind = "inline_fragment" /\ Has(x[1], "on") =>
            ObjectsOf(x[1].on) \cap ObjectsOf(x[2]) # {}
  /\ DOMAIN Frags \subseteq
       UNION {{x[1].name : x \in {y \in OpVisits(op) : y[1].kind = "fragment_spread"}} : op \in Ops}

\* For accepted documents: following fragment spreads always ends, at defined
\* fragments on types that some object of the place can have, and every
\* fragment of the document is reached from an operation.
SpreadsAreDefinedAndEnd == Accepted => SpreadsEnd

OperationsChoosable ==
  /\ Ops # {}
  /\ \A i, j \in DOMAIN Operations(Ast) : i # j =>
       LET p == Operations(Ast)[i]  q == Operations(Ast)[j]
       IN  Has(p, "name") /\ Has(q, "name") /\ p.name # q.name
  /\ \A op \in Ops :
       /\ RootOf(op) # Undef
       /\ OperationType(op) = "subscription" =>
            LET fields == FieldsFor(RootOf(op), op.selections, {})
            IN  /\ Cardinality({ResponseKey(f) : f \in fields}) = 1
                /\ \A f \in fields : f.name \notin IntrospectionNames

\* For accepted documents: an operation can be chosen by name, or is alone, has
\* a root type, and a subscription has one root field that is not introspection.
OperationsCanBeChosen == Accepted => OperationsChoosable

-----------------------------------------------------------------------------
(* Merging: the fields one object, or any two objects, answer at a position. *)

RECURSIVE SameShape(_, _)
SameShape(s, t) ==
  IF s[1] = "Named" /\ t[1] = "Named"
  THEN \/ s[2] = t[2]
       \/ ClassOf(s[2]) \in Composite /\ ClassOf(t[2]) \in Composite
  ELSE s[1] = t[1] /\ SameShape(s[2], t[2])

\* Literals that mean the same once coerced: the text decides.
SameGiven(f, g) ==
  /\ DOMAIN Arguments(f) = DOMAIN Arguments(g)
  /\ \A a \in DOMAIN Arguments(f) :
       LET v == Arguments(f)[a]  w == Arguments(g)[a]
       IN  IF "lit" \in DOMAIN v /\ "lit" \in DOMAIN w
           THEN v.lit = w.lit /\ (v.v = "var") = (w.v = "var") ELSE v = w

\* A position is a set of <<object, selections>> that answer there.
RECURSIVE Mergeable(_)
Mergeable(position) ==
  LET answers == UNION {{<<p[1], f>> : f \in FieldsFor(p[1], p[2], {})} : p \in position}
      Type(a) == FieldType(a[1], a[2].name)
      Below(k) == UNION {{<<o, a[2].selections>> : o \in ObjectsOf(InnerName(Type(a)))} :
                           a \in {b \in answers : ResponseKey(b[2]) = k /\ Has(b[2], "selections")}}
  IN  /\ \A a, b \in answers : ResponseKey(a[2]) = ResponseKey(b[2]) =>
           /\ SameShape(Type(a), Type(b))
           /\ a[1] = b[1] => a[2].name = b[2].name /\ SameGiven(a[2], b[2])
      /\ \A k \in {ResponseKey(a[2]) : a \in answers} :
           LET below == Below(k) IN below # {} => Mergeable(below)

FieldsMerge ==
  \A op \in Ops : Mergeable({<<RootOf(op), op.selections>>})

\* For accepted documents (validate_field_merging): whatever objects the
\* resolvers return, the fields that land on one response key of one object
\* call one field with one set of arguments, and the value under a key has one
\* shape whichever object answers.
MergedResponsesAreUnambiguous == Accepted /\ SpreadsEnd => FieldsMerge

-----------------------------------------------------------------------------
(* Values and variables *)

GivenArguments(node) == IF Has(node, "arguments") THEN node.arguments ELSE EmptyHash

DirectiveDefs == {Schema.directives[i] : i \in DOMAIN Schema.directives}
DirectiveDef(n) == CHOOSE d \in DirectiveDefs : d.name = n
DirectiveKnown(n) == \E d \in DirectiveDefs : d.name = n

\* <<given arguments, their definitions>> of the fields and directives below op.
ArgumentSites(op) ==
  {<<GivenArguments(x[1]), Fetch(TypeOf(x[2]).fields[x[1].name], "args", EmptyHash)>> :
     x \in {y \in FieldVisits(op) : HasField(y[2], y[1].name)}}
DirectiveSites(op) ==
  UNION {{<<GivenArguments(d), DirectiveDef(d.name).args>> :
            d \in {e \in ToSet(Directives(n)) : DirectiveKnown(e.name)}} :
           n \in {x[1] : x \in OpVisits(op)} \cup {op}}

\* <<value, type, has default>>: a value and the values nested in it.
RECURSIVE Places(_, _, _)
Places(v, t, default) ==
  {<<v, t, default>>} \cup
  LET inner == IF t[1] = "NonNull" THEN t[2] ELSE t
  IN  CASE v.v = "list" /\ inner[1] = "List" ->
             UNION {Places(v.items[i], inner[2], FALSE) : i \in DOMAIN v.items}
        [] v.v = "object" /\ ClassOf(InnerName(t)) = "INPUT_OBJECT" ->
             LET defs == TypeOf(InnerName(t)).fields
             IN  UNION {Places(v.fields[k], defs[k].type, Has(defs[k], "default_value")) :
                          k \in DOMAIN v.fields \cap DOMAIN defs}
        [] OTHER -> {}

SitePlaces(sites) ==
  UNION {UNION {Places(s[1][a], s[2][a].type, Has(s[2][a], "default_value")) :
                  a \in DOMAIN s[1] \cap DOMAIN s[2]} : s \in sites}

\* Coercion of a literal as the specification defines it; a variable is judged
\* by its declared type.
RECURSIVE Coerces(_, _)
Coerces(v, t) ==
  CASE v.v = "var" -> TRUE
    [] t[1] = "NonNull" -> v.v # "null" /\ Coerces(v, t[2])
    [] t[1] # "NonNull" /\ v.v = "null" -> TRUE
    [] t[1] = "List" /\ v.v \notin {"var", "null"} ->
         IF v.v = "list" THEN \A i \in DOMAIN v.items : Coerces(v.items[i], t[2])
         ELSE Coerces(v, t[2])
    [] OTHER ->
         LET type == TypeOf(t[2])
         IN  CASE type.class = "ENUM" -> v.v = "enum" /\ v.lit \in DOMAIN type.values
               [] type.class = "INPUT_OBJECT" ->
                    /\ v.v = "object"
                    /\ DOMAIN v.fields \subseteq DOMAIN type.fields
                    /\ \A f \in DOMAIN type.fields :
                         IF f \in DOMAIN v.fields THEN Coerces(v.fields[f], type.fields[f].type)
                         ELSE type.fields[f].type[1] = "NonNull" =>
                                Has(type.fields[f], "default_value")
                    /\ Fetch(type, "is_one_of", FALSE) =>
                         /\ Cardinality(DOMAIN v.fields) = 1
                         /\ \A f \in DOMAIN v.fields : v.fields[f].v # "null"
               [] t[2] \in BuiltinScalars -> v.v \in LiteralKinds(t[2])
               [] OTHER -> Has(type, "parse_value") => v.v \in type.parse_value

\* The type object a variable's type names.
RECURSIVE SchemaType(_)
SchemaType(t) ==
  CASE t[1] = "named" -> Named(t[2])
    [] t[1] = "list" -> ListOf(SchemaType(t[2]))
    [] OTHER -> NonNull(SchemaType(t[2]))

DeclaredIn(op) == DOMAIN Fetch(op, "variables", EmptyHash)

SiteOk(s) ==
  /\ DOMAIN s[1] \subseteq DOMAIN s[2]
  /\ \A a \in DOMAIN s[2] :
       IF a \in DOMAIN s[1] THEN Coerces(s[1][a], s[2][a].type)
       ELSE s[2][a].type[1] = "NonNull" => Has(s[2][a], "default_value")

LiteralsCoerce ==
  \A op \in Ops :
    /\ \A s \in ArgumentSites(op) \cup DirectiveSites(op) : SiteOk(s)
    /\ \A x \in DeclaredIn(op) :
         LET t == SchemaType(op.variables[x].type)
         IN  /\ Known(InnerName(t)) /\ ClassOf(InnerName(t)) \in {"SCALAR", "ENUM", "INPUT_OBJECT"}
             /\ Has(op.variables[x], "default_value") =>
                  /\ op.variables[x].default_value.v # "var"
                  /\ Coerces(op.variables[x].default_value, t)

\* For accepted documents: the literals given to fields, directives and
\* variable defaults coerce to the types of their places, and no required
\* argument or input field is missing (validate_value, validate_arguments).
EveryLiteralCoerces == Accepted => LiteralsCoerce

\* What a variable of a type can hold; a type accepts what it can hold.
RECURSIVE Holds(_)
Holds(t) ==
  CASE t[1] \in {"Named", "named"} -> {<<"null">>, <<t[2]>>}
    [] t[1] \in {"List", "list"} -> {<<"null">>, <<"[]">>} \cup {<<"[">> \o x : x \in Holds(t[2])}
    [] OTHER -> Holds(t[2]) \ {<<"null">>}

VariableFits(op, place) ==
  LET def == op.variables[place[1].lit]
      defaulted == \/ place[3]
                   \/ Has(def, "default_value") /\ def.default_value.v # "null"
  IN  (Holds(def.type) \ (IF defaulted THEN {<<"null">>} ELSE {})) \subseteq Holds(place[2])

VariablePlaces(op, sites) == {p \in SitePlaces(sites) : p[1].v = "var"}

\* The variables that arguments read are declared, and in an operation that
\* declares any, those that directives read.
VariablesDeclared(op) ==
  LET places == VariablePlaces(op, ArgumentSites(op) \cup DirectiveSites(op))
  IN  /\ \A p \in VariablePlaces(op, ArgumentSites(op)) : p[1].lit \in DeclaredIn(op)
      /\ DeclaredIn(op) # {} => \A p \in places : p[1].lit \in DeclaredIn(op)

VariablesFit ==
  \A op \in Ops :
    LET places == VariablePlaces(op, ArgumentSites(op) \cup DirectiveSites(op))
    IN  /\ \A p \in places : p[1].lit \in DeclaredIn(op) => VariableFits(op, p)
        /\ DeclaredIn(op) = {p[1].lit : p \in places} \cap DeclaredIn(op)

\* For accepted documents: every variable that a field reached by an operation
\* reads is declared by that operation, with an input type whose values the
\* place takes, and every declared variable is read (collect_usage,
\* validate_selections on spread fragments, variable_type_compatible).  An
\* operation with a variable of the name that marks deferral may leave the
\* others undeclared; what it declares still fits.
VariablesReachTheirPlaces ==
  Accepted =>
    /\ VariablesFit
    /\ \A op \in Ops : DeferName \in DeclaredIn(op) \/ VariablesDeclared(op)

\* docs/validation-conformance.md, "All Variable Uses Defined": the variables
\* that arguments read are declared, also next to a variable of that name.
ArgumentVariablesAreDeclared ==
  Accepted =>
    \A op \in Ops :
      \A p \in VariablePlaces(op, ArgumentSites(op)) : p[1].lit \in DeclaredIn(op)

DirectiveVariablesDeclared ==
  \A op \in Ops : \A p \in VariablePlaces(op, DirectiveSites(op)) : p[1].lit \in DeclaredIn(op)

\* docs/validation-conformance.md, "All Variable Uses Defined": the same of the
\* variables that directives read, in every operation.
DirectiveVariablesAreDeclared == Accepted => DirectiveVariablesDeclared

PlaceOf(n) ==
  CASE n.kind = "operation" ->
         [query |-> "QUERY", mutation |-> "MUTATION",
          subscription |-> "SUBSCRIPTION"][OperationType(n)]
    [] OTHER -> [field |-> "FIELD", fragment |-> "FRAGMENT_DEFINITION",
                 fragment_spread |-> "FRAGMENT_SPREAD",
                 inline_fragment |-> "INLINE_FRAGMENT"][n.kind]

DirectivesFit ==
  \A op \in Ops :
    \A n \in {x[1] : x \in OpVisits(op)} \cup {op} \cup {Frags[f] : f \in DOMAIN Frags} :
      LET ds == Directives(n)
      IN  \A i \in DOMAIN ds :
            /\ DirectiveKnown(ds[i].name)
            /\ PlaceOf(n) \in ToSet(DirectiveDef(ds[i].name).locations)
            /\ \A j \in DOMAIN ds : i # j /\ ds[i].name = ds[j].name =>
                 DirectiveDef(ds[i].name).repeatable

\* For accepted documents: a directive is known, stands where its definition
\* allows it and is not repeated unless it may be.
DirectivesAreInPlace == Accepted => DirectivesFit

-----------------------------------------------------------------------------
(* Completeness and cost *)

NamesUnique ==
  /\ \A i \in DOMAIN Ast : Ast[i].kind \in {"operation", "fragment"}
  /\ \A i, j \in DOMAIN FragmentNodes(Ast) :
       FragmentNodes(Ast)[i].name = FragmentNodes(Ast)[j].name => i = j
  /\ request.duplicates = {}

FollowsTheRules ==
  /\ NamesUnique /\ OperationsChoosable /\ SpreadsEnd
  /\ FieldsAnswer /\ LiteralsCoerce
  /\ VariablesFit /\ \A op \in Ops : VariablesDeclared(op)
  /\ DirectivesFit /\ FieldsMerge /\ DirectiveVariablesDeclared

\* A document that follows every rule is accepted.
ValidDocumentsAreAccepted ==
  pc = "done" /\ ~IsCost /\ FollowsTheRules => errors = {}

\* docs/validation-conformance.md, "Field Selection Merging": fields that merge
\* in every response are not reported.
MergeableFieldsMerge ==
  pc = "done" /\ ~IsCost /\ FollowsTheRules => \A e \in errors : e[1] # "FieldConflict"

\* The cost of a selection without a limit.
RECURSIVE TrueCost(_, _, _, _)
TrueCost(sels, parent, visited, size) ==
  LET Cost(sel) ==
        CASE sel.kind = "inline_fragment" ->
               TrueCost(sel.selections, Fetch(sel, "on", parent), visited, size)
          [] sel.kind = "fragment_spread" ->
               IF sel.name \in visited \/ ~Has(Frags, sel.name) THEN 0
               ELSE TrueCost(Frags[sel.name].selections, Frags[sel.name].on,
                             visited \cup {sel.name}, size)
          [] OTHER ->
               IF ~HasField(parent, sel.name) THEN 1
               ELSE LET def == TypeOf(parent).fields[sel.name]
                        list == \/ def.type[1] = "List"
                                \/ def.type[1] = "NonNull" /\ def.type[2][1] = "List"
                        items == IF list THEN Fetch(def, "list_size", size) ELSE 1
                        child == TrueCost(SelectionsOf(sel), InnerName(def.type), visited, size)
                    IN  Fetch(def, "cost", 1)
                          + items * (IF child = 0 /\ list THEN 1 ELSE child)
  IN  FoldLeft(LAMBDA total, sel : total + Cost(sel), 0, sels)

\* check_cost refuses an operation exactly when its cost is above the limit,
\* although it saturates and stops early (gql_validation_selection_cost).
CostLimitIsExact ==
  pc = "done" /\ IsCost =>
    errors = {<<"CostExceeded", Fetch(op, "name", "anonymous")>> :
      op \in {o \in Ops :
        /\ Has(request.options, "operation_name") =>
             Has(o, "name") /\ o.name = request.options.operation_name
        /\ TrueCost(o.selections, RootOf(o), {},
             Fetch(request.options, "default_list_size", DefaultListSize)) > request.options.max_cost}}

\* In a schema that assert_valid lets pass, both indexes name every object that
\* implements an interface, once: the compiled one, pushed to as the objects are
\* met (compile_schema), and the possible types asked of the schema, which follows
\* interfaces to the interfaces they implement (_build__interface2types).
PossibleTypesAgree ==
  pc \notin {"start", "croaked"} /\ InterfacesAreListed(request.schema) =>
    \A n \in {m \in DOMAIN compiled.types : compiled.types[m].kind = "INTERFACE"} :
      LET implementing == {o \in DOMAIN compiled.types :
            /\ compiled.types[o].kind = "OBJECT"
            /\ Contains(compiled.types[o].interfaces, n)}
          NamesOnce(list) == ToSet(list) = implementing /\ IsInjective(list)
      IN  /\ NamesOnce(compiled.possible_types[n])
          /\ NamesOnce(Fetch(compiled.interface_implementations, n, <<>>))

-----------------------------------------------------------------------------
(* What the runs check. *)

\* A document that validation accepts can be executed without looking back:
\* an operation is found, spreads end, every field is answered by every object
\* it can meet, merged fields agree, and directives stand where they may.
AcceptedSelectionsRun ==
  /\ OperationsCanBeChosen
  /\ SpreadsAreDefinedAndEnd
  /\ EveryFieldCanBeAnswered
  /\ MergedResponsesAreUnambiguous
  /\ DirectivesAreInPlace

\* Every value of an accepted document coerces where it stands, the literals now
\* and the variables whatever their request gives them.
AcceptedValuesCoerce == EveryLiteralCoerces /\ VariablesReachTheirPlaces

=============================================================================
