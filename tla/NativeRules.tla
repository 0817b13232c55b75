---------------------------- MODULE NativeRules ----------------------------
(***************************************************************************)
(* What the value trees, the arguments and the plans of the native VM      *)
(* promise, judged against the coercion algorithms of the GraphQL          *)
(* specification (6.1.2 and 6.4.1) as the project means to follow them.    *)
(*                                                                         *)
(* A job gives one input: the arguments of a field, a value, the guards of *)
(* a field, a leaf, or nothing while a plan lives its life.                *)
(***************************************************************************)
EXTENDS NativePlans, ResponseJson, SelectionRules

VARIABLE job
-----------------------------------------------------------------------------
(* Reference: CoerceVariableValues and CoerceArgumentValues. *)

Absent == [ok |-> TRUE, sv |-> NoSv]
SpecDefault(def) ==
    CASE def.has_default -> graphql_to_perl(def.type, def.default)
      [] def.type.k = "nonnull" -> Failed("missing")
      [] OTHER -> Absent

SpecVariable(def, provided) ==
    IF def.name \in DOMAIN provided THEN graphql_to_perl(def.type, provided[def.name])
    ELSE SpecDefault(def)

\* The values of the variables that have one.
SpecVariables(defs, provided) ==
    LET value == [n \in {defs[i].name : i \in DOMAIN defs} |->
                    SpecVariable(defs[IndexOfName(defs, n)], provided)]
    IN  IF \E n \in DOMAIN value : ~value[n].ok THEN Failed("variables")
        ELSE [ok |-> TRUE,
              values |-> [n \in {m \in DOMAIN value : value[m].sv # NoSv} |-> value[n].sv]]

\* A literal in which variables stand for values that are coerced already.
Unset(sv, values) == sv.t = "ref" /\ sv.ref \notin DOMAIN values

RECURSIVE SpecLiteral(_, _, _)
SpecLiteral(type, sv, values) ==
    LET All(results, whole) ==
            IF \A i \in DOMAIN results : results[i].ok THEN Ok(whole) ELSE Failed("inside")
    IN
    CASE type.k = "nonnull" ->
            LET inner == SpecLiteral(type.of, sv, values)
            IN  IF inner.ok /\ ~Defined(inner.sv) THEN Failed("null") ELSE inner
      [] sv.t = "ref" -> Ok(IF Unset(sv, values) THEN Undef ELSE values[sv.ref])
      [] type.k = "list" /\ IsArray(sv) ->
            LET r == [i \in DOMAIN sv.array |-> SpecLiteral(type.of, sv.array[i], values)]
            IN  All(r, Array([i \in DOMAIN r |-> r[i].sv]))
      [] type.k = "input" /\ IsHash(sv) /\ DOMAIN sv.hash \subseteq DOMAIN type.fields ->
            LET given == {k \in DOMAIN sv.hash : ~Unset(sv.hash[k], values)}
                keys == {k \in DOMAIN type.fields : k \in given \/ Has(type.fields, k)}
                r == [k \in keys |->
                        IF k \in given THEN SpecLiteral(type.fields[k].type, sv.hash[k], values)
                        ELSE graphql_to_perl(type.fields[k].type, type.fields[k].default)]
            IN  All(r, Hash([k \in keys |-> r[k].sv]))
      [] OTHER -> graphql_to_perl(type, _materialize_static_value(sv))

SpecArgument(def, arguments, values) ==
    IF def.name \notin DOMAIN arguments \/ Unset(arguments[def.name], values) THEN SpecDefault(def)
    ELSE SpecLiteral(def.type, arguments[def.name], values)

SpecArguments(defs, arguments, values) ==
    LET r == [n \in {defs[i].name : i \in DOMAIN defs} |->
                SpecArgument(defs[IndexOfName(defs, n)], arguments, values)]
    IN  IF \E n \in DOMAIN r : ~r[n].ok THEN Failed("arguments")
        ELSE Ok(Hash([n \in {m \in DOMAIN r : r[m].sv # NoSv} |-> r[n].sv]))

Same(a, b) == a.ok = b.ok /\ (a.ok => a.sv = b.sv)
-----------------------------------------------------------------------------
(* The code: a literal is lowered, a payload without variables is folded   *)
(* into the bundle, and one with variables is specialized at the field.    *)

DefsOf(j) == [i \in DOMAIN j.defs |-> finalize_native_arg_def(j.defs[i]).def]
PreparedOf(j) == prepare_program_variables_into_slots_sv(j.vars, j.provided)
LoweredOf(j) == _lower_arguments(j.arguments)
PayloadOf(j) ==
    LET p == IF DOMAIN j.arguments = {} THEN NoPayload ELSE args_payload_from_hv(LoweredOf(j).payload.hash)
    IN  [p EXCEPT !.values = [i \in DOMAIN @ |-> bind_dynamic_value_variables(@[i], j.vars)]]

FoldedArguments(j) ==
    LET folded == specialize_arg_payload_native(DefsOf(j), "STATIC", PayloadOf(j), NoVariables)
    IN  IF folded.ok THEN Ok(args_payload_materialize_sv(folded.payload)) ELSE folded

CodeArguments(j, variables, slots) ==
    IF LoweredOf(j).mode = "STATIC" THEN FoldedArguments(j)
    ELSE specialize_arg_payload_sv(DefsOf(j), LoweredOf(j).mode, PayloadOf(j), variables, slots)

\* What the code is known to do otherwise: enum and boolean literals beside a variable, a null
\* default, a variable inside a literal whose type changes what it coerces twice, and one inside
\* an input object that has no value.
RECURSIVE Holds(_, _), Inside(_)
Holds(sv, kinds) ==
    \/ sv.t \in kinds
    \/ IsArray(sv) /\ \E i \in DOMAIN sv.array : Holds(sv.array[i], kinds)
    \/ IsHash(sv) /\ \E k \in DOMAIN sv.hash : Holds(sv.hash[k], kinds)
Inside(sv) ==
    IF IsArray(sv) THEN \E i \in DOMAIN sv.array : Holds(sv.array[i], {"ref"})
    ELSE IsHash(sv) /\ \E k \in DOMAIN sv.hash : Holds(sv.hash[k], {"ref"})

Beside(j) == LoweredOf(j).mode = "DYNAMIC" /\ Holds(Hash(j.arguments), {"bool", "refref"})
NullDefault(defs) == \E i \in DOMAIN defs : defs[i].has_default /\ defs[i].default.t = "NULL"
CoercedTwice(j) == j.once /\ \E n \in DOMAIN j.arguments : Inside(j.arguments[n])
UnsetInside(j) ==
    \E n \in DOMAIN j.arguments : Inside(j.arguments[n]) /\ IsHash(j.arguments[n])
                                  /\ \E i \in DOMAIN j.vars : j.vars[i].name \notin DOMAIN j.provided
Divergent(j) == Beside(j) \/ NullDefault(j.vars) \/ CoercedTwice(j) \/ UnsetInside(j)

ArgumentsAgree(j, prepared, spec) ==
    /\ prepared.ok = spec.ok
    /\ prepared.ok => Same(CodeArguments(j, prepared.hash, prepared.slots),
                           SpecArguments(j.defs, j.arguments, spec.values))

\* The arguments a resolver receives are those of the specification: a variable given bare is
\* coerced once, by its own type, an absent one leaves room for the argument's default, null does
\* not, and what was folded when the bundle was prepared is what would have been coerced at the
\* field (gql_runtime_vm_specialize_arg_payload_sv, ..._native, prepare_program_variables_sv).
ArgumentsFollowTheSpecification ==
    job.kind = "arguments" /\ ~Divergent(job) =>
        ArgumentsAgree(job, PreparedOf(job), SpecVariables(job.vars, job.provided))

\* The literals of a field keep their values when another argument is a variable
\* (gql_runtime_vm_native_dynamic_value_from_sv reads the compiler's payload).
LiteralsKeepTheirValues ==
    job.kind = "arguments" /\ Beside(job) /\ ~CoercedTwice(job) /\ ~UnsetInside(job) =>
        LET prepared == PreparedOf(job)
            spec == SpecVariables(job.vars, job.provided)
        IN  prepared.ok => Same(CodeArguments(job, prepared.hash, prepared.slots),
                                SpecArguments(job.defs, job.arguments, spec.values))

\* Two payloads that the table of an operation, or two sets of variables that the specialization
\* cache, takes for one are the same (_compact_payload_key, _specialized_variables_cache_key).
KeysTellPayloadsApart ==
    job.kind = "pair" =>
        /\ _compact_payload_key(job.one) = _compact_payload_key(job.other) => job.one = job.other
        /\ _specialized_variables_cache_key(job.one) = _specialized_variables_cache_key(job.other)
              => job.one = job.other

BareArgument(j, args) == IF args = <<>> THEN Undef ELSE args[j.defs[1].name]

\* byName and one: what the lanes by name and for one bare argument give.
LanesGive(j, prepared, hash, byName, one) ==
    /\ Same(CodeArguments(j, hash, prepared.slots), byName)
    /\ Len(j.defs) = 1 =>
          one.ok = byName.ok /\ (one.ok => one.sv = BareArgument(j, byName.sv.hash))

LanesFrom(j, prepared, hash) ==
    LanesGive(j, prepared, hash, CodeArguments(j, prepared.hash, <<>>),
              specialize_one_arg_sv(DefsOf(j), LoweredOf(j).mode, PayloadOf(j), hash, prepared.slots))

PreparedLanesAgree(j, prepared) ==
    prepared.ok /\ LoweredOf(j).mode # "STATIC" =>
        LanesFrom(j, prepared,
                  IF args_payload_needs_variables_hv(PayloadOf(j)) THEN prepared.hash ELSE NoVariables)

\* The lanes that find a variable by its position, with the hash only where a payload needs it,
\* by its name alone, and for a resolver that takes one bare argument, give the same arguments
\* (gql_runtime_vm_args_payload_needs_variables_hv).
LanesAgree == job.kind = "arguments" => PreparedLanesAgree(job, PreparedOf(job))
-----------------------------------------------------------------------------
(* Values and leaves. *)

RECURSIVE Plain(_)
Plain(sv) ==
    CASE IsHash(sv) -> sv.class = "" /\ \A k \in DOMAIN sv.hash : k \notin WideKeys /\ Plain(sv.hash[k])
      [] IsArray(sv) -> sv.class = "" /\ \A i \in DOMAIN sv.array : Plain(sv.array[i])
      [] OTHER -> sv.t \in {"undef", "iv", "nv", "pv"} /\ (sv.t = "pv" /\ sv.utf8 => sv.pv # "")

\* Plain data survives every tree: built, cloned, taken over into an argument payload, cloned
\* there and written back, it is the same data (..._from_sv, _clone, _from_native_value,
\* _materialize_sv).
TreesKeepValues ==
    job.kind = "value" /\ Plain(job.sv) =>
        LET tree == native_value_clone(native_value_from_sv(job.sv))
            dynamic == native_dynamic_value_clone(native_dynamic_value_from_native_value(tree))
        IN  /\ native_value_materialize_sv(tree) = job.sv
            /\ native_dynamic_value_materialize_sv(dynamic, NoVariables) = job.sv
            /\ native_dynamic_value_materialize_sv(native_dynamic_value_from_sv(job.sv), NoVariables) = job.sv
            /\ materialize_dynamic_value_sv(job.sv, NoVariables) = job.sv

\* The JSON the tail of an asynchronous response writes from its tree is the JSON of the data
\* the same request returns, objects of the application's classes included
\* (gql_runtime_vm_native_value_from_completed_sv).
RECURSIVE Unflagged(_)
Unflagged(sv) ==
    CASE IsHash(sv) -> sv.class = "" /\ \E k \in DOMAIN sv.hash : Unflagged(sv.hash[k])
      [] IsArray(sv) -> \E i \in DOMAIN sv.array : Unflagged(sv.array[i])
      [] OTHER -> sv.t = "pv" /\ ~sv.utf8 /\ sv.pv \in Latin1

RECURSIVE ClassInside(_)
ClassInside(sv) ==
    LET Blessed(x) == (IsHash(x) \/ IsArray(x)) /\ x.class # ""
    IN  CASE IsHash(sv) -> \E k \in DOMAIN sv.hash : Blessed(sv.hash[k]) \/ ClassInside(sv.hash[k])
          [] IsArray(sv) ->
                \E i \in DOMAIN sv.array : Blessed(sv.array[i]) \/ ClassInside(sv.array[i])
          [] OTHER -> FALSE

JsonWritersAgree ==
    job.kind = "value" /\ ~Unflagged(job.sv) /\ ~ClassInside(job.sv) =>
        native_value_cat_json(from_completed_sv(job.sv)) = json_cat_sv_data(job.sv)

\* A leaf of the fast JSON lane is the leaf of the data (gql_runtime_vm_json_cat_scalar).
LeafIsWrittenAsData ==
    job.kind = "value" /\ job.sv.t \notin {"ref", "refref"} =>
        json_cat_scalar(job.sv) = json_cat_sv_data(job.sv)

\* A leaf coerced from an input is serialized, to a value that comes back to the same value when
\* a client sends it in again: the two ends of an enum and of a custom scalar and the ranges of
\* the numbers agree (gql_runtime_vm_serialize_leaf_sv and the Perl coercers).
LeavesRoundTrip ==
    job.kind = "leaf" =>
        LET in == graphql_to_perl(job.type, job.sv)
            out == serialize_leaf_sv(job.leaf, job.type, in.sv)
            back == graphql_to_perl(job.type, out.sv)
        IN  in.ok => out.ok /\ back.ok /\ Same(serialize_leaf_sv(job.leaf, job.type, back.sv), out)

\* What the serializer lets through is a value of its type.
LeavesAreOfTheirType ==
    job.kind = "leaf" =>
        LET out == serialize_leaf_sv(job.leaf, job.type, job.sv)
        IN  out.ok /\ Defined(job.sv) =>
              CASE job.leaf = "INT" -> out.sv.t = "iv" /\ out.sv.iv \in IntMin .. IntMax
                [] job.leaf = "FLOAT" -> out.sv.t \in {"iv", "nv"}
                [] job.leaf = "BOOLEAN" -> out.sv \in {Iv(0), Iv(1)}
                [] job.leaf = "ENUM" -> out.sv.pv \in DOMAIN job.type.name2value
                [] OTHER -> out.sv.t = "pv"
-----------------------------------------------------------------------------
(* Selections. *)

SelectionsAnswered(j) ==
    CodeObject(j.selections, j.variables, j.concrete)
        = SpecObject("Query", j.selections, j.variables, j.concrete)

\* Fragments inside fragments, with skip and include on any of them, and the blocks compiled for
\* every type of an abstract field answer the members of the specification, no more and no fewer,
\* where no response key is selected twice (_normalize_selections).
SelectionsAreAnswered ==
    job.kind = "selection" /\ ~AbstractFragment(job.selections)
            /\ ~KeyTwice("Query", job.selections, job.variables, job.concrete) =>
        SelectionsAnswered(job)

\* Selections under one response key are merged: nothing selected below it is lost
\* (_normalize_selections, _lower_selection_block_compact).
SelectionsOfOneKeyMerge ==
    job.kind = "selection" /\ ~AbstractFragment(job.selections) => SelectionsAnswered(job)

\* A fragment on an interface applies to every type that implements it (_normalize_selections).
FragmentsOfAbstractTypesApply ==
    job.kind = "selection" /\ ~KeyTwice("Query", job.selections, job.variables, job.concrete) =>
        SelectionsAnswered(job)
-----------------------------------------------------------------------------
(* Plans. *)

SpecResponse(doc, provided) ==
    LET values == SpecVariables(doc.defs, provided).values
        Condition(d) == Truthy(LET if == IfOf(d) IN
                            IF if.t = "ref" THEN values[if.ref] ELSE _materialize_static_value(if))
        shown == SelectSeq(doc.fields, LAMBDA field :
                    \A i \in DOMAIN field.directives :
                        (field.directives[i].hash["name"].pv = "include") = Condition(field.directives[i]))
    IN  [i \in DOMAIN shown |->
            [slot |-> shown[i].slot,
             args |-> SpecArguments(Schema[shown[i].slot].arg_defs, shown[i].arguments, values)]]

\* Two kinds of calls get a hash that others get too, and see what a resolver did to it: those
\* without arguments, and those of a native resolver.
MayBeEdited(call) == call.args = Ok(Hash(<<>>)) \/ Schema[call.slot].mode \in {2, 3, 4}

\* The call of the specification is made, or made with such a hash as it was edited.
Follows(call, spec) ==
    /\ call.slot = spec.slot
    /\ \/ call.args = spec.args
       \/ MayBeEdited(spec) /\ call.args = Ok(Edited(spec.args.sv))

AllFollow(calls, specs) ==
    Len(calls) = Len(specs) /\ \A i \in DOMAIN specs : Follows(calls[i], specs[i])

ExecutesItsDocument(program, provided) ==
    AllFollow(ExecutedBy(program, provided), SpecResponse(Documents[document], provided))

\* A variable that the request leaves out and that has no default is the whole of an argument.
OmitsAnArgument(doc, provided) ==
    \E i \in DOMAIN doc.fields : \E n \in DOMAIN doc.fields[i].arguments :
        Unset(doc.fields[i].arguments[n], SpecVariables(doc.defs, provided).values)

\* However a plan came about - prepared for one runtime and again for another, or cloned,
\* specialized, written to a descriptor, loaded and prepared - and whatever the resolvers of
\* earlier requests did to the arguments they were given, it runs the fields of its document that
\* the directives leave, with the arguments of the specification; the two kinds of calls above may
\* see a shared hash as it was edited.  Specialized plans have a property of their own below
\* (gql_runtime_vm_build_current_args_sv, gql_runtime_vm_prepare_cached_bundle_in_place).
PlanKeepsItsMeaning ==
    /\ plain.cached.for \in Runtimes =>
          \A provided \in Variables(document) : ExecutesItsDocument(plain, provided)
    /\ special.cached.for \in Runtimes /\ ~OmitsAnArgument(Documents[document], specializedFor) =>
          ExecutesItsDocument(special, specializedFor)

\* An argument whose variable the request leaves out takes its default in a plan specialized to
\* the variables, too (gql_runtime_vm_specialize_arg_payload_native).
SpecializedPlansApplyDefaults ==
    special.cached.for \in Runtimes => ExecutesItsDocument(special, specializedFor)

\* No call sees what a resolver did to the arguments of another one
\* (gql_runtime_vm_native_args_payload_materialize_cached_sv, gql_runtime_vm_empty_args_sv).
ResolversShareNoArguments ==
    plain.cached.for \in Runtimes =>
        \A provided \in Variables(document) :
            LET done == ExecutedBy(plain, provided)
                spec == SpecResponse(Documents[document], provided)
            IN  \A i \in DOMAIN spec : done[i].args = spec[i].args

\* The allocations of the plans that are alive.
LivePlans == <<plain.blocks, plain.cached.blocks, special.blocks, special.cached.blocks>>

\* No allocation of an op belongs to two plans, and none is freed twice or used once it is free.
PlansShareNothing ==
    /\ twice = {}
    /\ \A i \in DOMAIN LivePlans :
          /\ AllAddresses(LivePlans[i]) \cap freed = {}
          /\ \A j \in DOMAIN LivePlans : i # j =>
                AllAddresses(LivePlans[i]) \cap AllAddresses(LivePlans[j]) = {}

\* Every allocation of an op that is not in a plan any more has been freed.
NothingIsLost ==
    allocated = freed \cup UNION {AllAddresses(LivePlans[i]) : i \in DOMAIN LivePlans}

-----------------------------------------------------------------------------
(* What the run checks. *)

\* On every lane a resolver receives the arguments of the specification, whether
\* they were folded in advance or coerced at the field.
ArgumentsAreCoerced == ArgumentsFollowTheSpecification /\ LanesAgree

\* A value keeps its meaning in every tree it passes through and in either writer,
\* and what leaves as a leaf is of its type and can be sent in again.
ValuesKeepTheirMeaning ==
    TreesKeepValues /\ JsonWritersAgree /\ LeavesRoundTrip /\ LeavesAreOfTheirType


=============================================================================
