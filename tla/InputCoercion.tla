---------------------------- MODULE InputCoercion ----------------------------
(***************************************************************************)
(* How the native VM (src/vm_runtime.h, from lookup_input_type on) turns   *)
(* the variables of a request and the literals of an operation into the    *)
(* arguments a resolver receives, and how it serializes the leaf a         *)
(* resolver returns.                                                       *)
(*                                                                         *)
(* An input type is a record whose field k names its kind.  The coercers   *)
(* of the Perl type classes (Type/Scalar.pm, Enum.pm, List.pm, NonNull.pm, *)
(* InputObject.pm) are graphql_to_perl.  A coercion returns a record with  *)
(* ok and either sv or error.  The 32-bit range of Int is IntMin..IntMax.  *)
(***************************************************************************)
EXTENDS NativeValues

CONSTANTS
    IntMin, IntMax,
    CoerceVariable(_, _),            \* PrepareVariable, constants so that TLC does not
    CoerceArgument(_, _, _, _, _)    \* ArgumentSv,     unfold them wherever they are used

ASSUME RangeAssumption == IntMin \in Int /\ IntMax \in Int /\ IntMin <= 0 /\ 0 <= IntMax

Ok(sv) == [ok |-> TRUE, sv |-> sv]
Failed(error) == [ok |-> FALSE, error |-> error]

\* What looks_like_number reads from a scalar, in tenths; the other strings are no numbers.
NumericText == [s \in {"0", "1", "5", "1.5"} |->
                   CASE s = "0" -> 0 [] s = "1" -> 10 [] s = "5" -> 50 [] OTHER -> 15]
TextOfNumber(tenths) ==
    IF \E s \in DOMAIN NumericText : NumericText[s] = tenths
    THEN CHOOSE s \in DOMAIN NumericText : NumericText[s] = tenths ELSE "another number"
NumberOf(sv) ==
    CASE sv.t = "iv" -> {10 * sv.iv}
      [] sv.t = "nv" -> {sv.nv}
      [] sv.t = "pv" /\ sv.pv \in DOMAIN NumericText -> {NumericText[sv.pv]}
      [] OTHER -> {}
NonRef(sv) == sv.t \in {"iv", "nv", "pv"}
InRange(tenths) == tenths % 10 = 0 /\ tenths \div 10 \in IntMin .. IntMax
AsNumber(tenths) == IF tenths % 10 = 0 THEN Iv(tenths \div 10) ELSE Nv(tenths)
TheNumber(sv) == CHOOSE n \in NumberOf(sv) : TRUE
-----------------------------------------------------------------------------
(* The Perl coercers. *)

Builtin == {"Int", "Float", "String", "ID", "Boolean"}

\* Defined values only.
builtin_graphql_to_perl(kind, sv) ==
    CASE kind = "Int" ->
            IF \E n \in NumberOf(sv) : InRange(n) THEN Ok(Iv(TheNumber(sv) \div 10))
            ELSE Failed("Not an Int.")
      [] kind = "Float" ->
            IF NumberOf(sv) # {} THEN Ok(AsNumber(TheNumber(sv))) ELSE Failed("Not a Float.")
      [] kind = "Boolean" ->
            IF sv.t = "bool" \/ NumberOf(sv) \in {{0}, {10}}
            THEN Ok(Iv(IF Truthy(sv) THEN 1 ELSE 0))
            ELSE Failed("Not a Boolean.")
      [] OTHER -> IF NonRef(sv) THEN Ok(sv) ELSE Failed("Not a String.")

\* A custom scalar's parse_value is the application's: a function on the texts it knows.
parse_value(type, sv) ==
    IF sv.t = "pv" /\ sv.pv \in DOMAIN type.parse THEN Ok(type.parse[sv.pv])
    ELSE Failed("parse_value died")

EnumNameIsValue(type, sv) ==
    IF sv.t = "pv" /\ sv.pv \in DOMAIN type.name2value THEN Ok(sv) ELSE Failed("Expected an enum value")
enum_graphql_to_perl(type, sv) ==
    LET name == CASE sv.t = "refref" -> sv.refref [] sv.t = "pv" -> sv.pv [] OTHER -> "not a name"
    IN  IF name \in DOMAIN type.name2value THEN Ok(type.name2value[name])
        ELSE Failed("Expected an enum value")

Has(fields, key) == "default" \in DOMAIN fields[key]

RECURSIVE graphql_to_perl(_, _)
graphql_to_perl(type, sv) ==
    LET All(results, whole) ==
            IF \A i \in DOMAIN results : results[i].ok THEN Ok(whole)
            ELSE results[CHOOSE i \in DOMAIN results : ~results[i].ok]
    IN
    CASE type.k = "nonnull" ->
            LET inner == graphql_to_perl(type.of, sv)
            IN  IF inner.ok /\ ~Defined(inner.sv) THEN Failed("given null value") ELSE inner
      [] ~Defined(sv) -> Ok(Undef)
      [] type.k \in Builtin -> builtin_graphql_to_perl(type.k, sv)
      [] type.k = "enum" -> enum_graphql_to_perl(type, sv)
      [] type.k = "custom" -> parse_value(type, sv)
      [] type.k = "list" ->
            LET items == IF IsArray(sv) THEN sv.array ELSE <<sv>>
                results == [i \in DOMAIN items |-> graphql_to_perl(type.of, items[i])]
            IN  All(results, Array([i \in DOMAIN items |-> results[i].sv]))
      [] OTHER ->
            IF ~IsHash(sv) \/ sv.class # "" THEN Failed("found not an object")
            ELSE IF type.one_of /\ (Cardinality(DOMAIN sv.hash) # 1
                                    \/ \E k \in DOMAIN sv.hash : ~Defined(sv.hash[k]))
                 THEN Failed("OneOf")
            ELSE IF ~(DOMAIN sv.hash \subseteq DOMAIN type.fields) THEN Failed("unknown field")
            ELSE LET keys == {k \in DOMAIN type.fields : k \in DOMAIN sv.hash \/ Has(type.fields, k)}
                     results == [k \in keys |->
                        graphql_to_perl(type.fields[k].type,
                            IF k \in DOMAIN sv.hash THEN sv.hash[k] ELSE type.fields[k].default)]
                 IN  All(results, Hash([k \in keys |-> results[k].sv]))
-----------------------------------------------------------------------------
(* The coercion the VM calls, with its short cut for the built-in scalars. *)

NoType == [k |-> "none"]

FastInput(kind, sv) ==
    \/ kind \in {"String", "ID"}
    \/ kind = "Int" /\ sv.t = "iv" /\ sv.iv \in IntMin .. IntMax
    \/ kind = "Float" /\ sv.t \in {"iv", "nv"}
    \/ kind = "Boolean" /\ sv.t = "iv" /\ sv.iv \in {0, 1}

coerce_input_value_sv(type, sv) ==
    CASE sv.t = "NULL" -> Ok(Undef)
      [] type.k = "none" -> Ok(sv)
      [] type.k \in Builtin /\ sv.t = "undef" -> Ok(Undef)
      [] type.k \in Builtin /\ NonRef(sv) /\ FastInput(type.k, sv) -> Ok(sv)
      [] OTHER -> graphql_to_perl(type, sv)

\* An argument or a variable definition: native is the coerced default once it was needed.
NoNative == [kind |-> "NULL"]
\* A default null is kept as no default value, though has_default stays set.
parse_native_arg_def(name, type, default) ==
    [name |-> name, type |-> type, has_default |-> default.t # "NULL",
     default |-> IF Defined(default) THEN default ELSE NoSv, native |-> NoNative]

finalize_native_arg_def(def) ==
    IF ~def.has_default \/ def.default.t = "NULL" \/ def.native # NoNative \/ def.type.k = "none"
    THEN [ok |-> TRUE, def |-> def]
    ELSE LET coerced == coerce_input_value_sv(def.type, def.default)
         IN  IF coerced.ok
             THEN [ok |-> TRUE, def |-> [def EXCEPT !.native = native_value_from_sv(coerced.sv)]]
             ELSE [ok |-> FALSE, error |-> coerced.error]

\* What a definition offers where nothing is given: a coerced value, one to coerce, or nothing.
DefaultOf(def) ==
    CASE def.has_default /\ def.native # NoNative ->
            [from |-> "prepared", sv |-> native_value_materialize_sv(def.native)]
      [] def.has_default /\ def.default.t # "NULL" -> [from |-> "raw", sv |-> def.default]
      [] OTHER -> [from |-> "absent", sv |-> NoSv]

\* What is stored for one variable; an error names the variable when the client gave its value.
variable_error_prepend_context(error, name) == "Variable $" \o name \o " got invalid value; " \o error
missing_variable_error_sv(name) == "Variable $" \o name \o " of required type was not provided."

PrepareVariable(def0, provided) ==
    LET finalized == finalize_native_arg_def(def0)
        def == finalized.def
        given == def.name \in DOMAIN provided
        source == IF given THEN [from |-> "raw", sv |-> provided[def.name]] ELSE DefaultOf(def)
        coerced == coerce_input_value_sv(def.type, source.sv)
    IN  CASE ~finalized.ok -> finalized
          [] source.from = "absent" ->
                IF def.type.k = "nonnull" THEN Failed(missing_variable_error_sv(def.name)) ELSE Ok(NoSv)
          [] source.from = "prepared" -> Ok(source.sv)
          [] coerced.ok -> coerced
          [] given -> Failed(variable_error_prepend_context(coerced.error, def.name))
          [] OTHER -> coerced

\* The values by position, and the hash by name that also keeps what was not asked for.
prepare_program_variables_into_slots_sv(defs, provided) ==
    LET slots == [i \in DOMAIN defs |-> CoerceVariable(defs[i], provided)]
        wrong == {i \in DOMAIN defs : ~slots[i].ok}
        first == CHOOSE i \in wrong : \A j \in wrong : i <= j
        named == {defs[i].name : i \in {j \in DOMAIN defs : slots[j].sv.t # "NULL"}}
    IN  IF wrong # {} THEN Failed(slots[first].error)
        ELSE [ok |-> TRUE,
              slots |-> [i \in DOMAIN defs |-> slots[i].sv],
              hash |-> [n \in named \cup DOMAIN provided |->
                          IF n \in named THEN slots[IndexOfName(defs, n)].sv ELSE provided[n]]]
-----------------------------------------------------------------------------
(* The arguments of a field.  An op has a mode, NONE, STATIC or DYNAMIC,   *)
(* and a payload; the definitions are those of the schema's slot.          *)

TopLevelVariable(mode, raw) == mode = "DYNAMIC" /\ raw.kind = "VARIABLE"

PreparedVariable(raw, variables, slots) ==
    IF raw.index \in DOMAIN slots THEN slots[raw.index] ELSE Fetch(variables, raw.name)

AbsentVariableIsNull(def, raw, mode, variables, slots) ==
    LET prepared == PreparedVariable(raw, variables, slots)
    IN  CASE raw.kind = "NULL" -> DefaultOf(def)
          [] TopLevelVariable(mode, raw) /\ Defined(prepared) -> [from |-> "prepared", sv |-> prepared]
          [] TopLevelVariable(mode, raw) -> [from |-> "raw", sv |-> Undef]
          [] OTHER -> [from |-> "raw", sv |-> native_dynamic_value_materialize_sv(raw, variables)]

\* A variable given as the whole argument is not coerced again; an absent one makes the
\* argument absent, and null goes through the coercion that may refuse it.
ArgumentSource(def, raw, mode, variables, slots) ==
    LET prepared == PreparedVariable(raw, variables, slots)
    IN  CASE raw.kind = "NULL" -> DefaultOf(def)
          [] TopLevelVariable(mode, raw) /\ Defined(prepared) -> [from |-> "prepared", sv |-> prepared]
          [] TopLevelVariable(mode, raw) /\ prepared.t = "undef" -> [from |-> "raw", sv |-> Undef]
          [] TopLevelVariable(mode, raw) -> DefaultOf(def)
          [] OTHER ->
                [from |-> "raw",
                 sv |-> native_dynamic_value_materialize_sv(raw,
                            IF mode = "DYNAMIC" THEN variables ELSE NoVariables)]

ArgumentSv(def, raw, mode, variables, slots) ==
    LET source == ArgumentSource(def, raw, mode, variables, slots)
    IN  IF source.from = "raw" THEN coerce_input_value_sv(def.type, source.sv) ELSE Ok(source.sv)

\* The first argument that fails, or the hash of those that are there.
Gather(defs, results) ==
    LET wrong == {i \in DOMAIN defs : ~results[i].ok}
        there == {i \in DOMAIN defs : results[i].sv.t # "NULL"}
    IN  IF wrong # {} THEN results[CHOOSE i \in wrong : \A j \in wrong : i <= j]
        ELSE Ok(Hash([n \in {defs[i].name : i \in there} |-> results[IndexOfName(defs, n)].sv]))

specialize_arg_payload_sv(defs, mode, payload, variables, slots) ==
    Gather(defs, [i \in DOMAIN defs |->
        CoerceArgument(defs[i], args_payload_lookup_value(payload, defs[i].name, i), mode, variables, slots)])

\* For a resolver that takes its one argument bare: null when it is absent.
specialize_one_arg_sv(defs, mode, payload, variables, slots) ==
    LET result == CoerceArgument(defs[1], args_payload_lookup_value(payload, defs[1].name, 1),
                                 mode, variables, slots)
    IN  IF Len(defs) # 1 THEN Ok(Undef)
        ELSE IF result.ok /\ result.sv.t = "NULL" THEN Ok(Undef) ELSE result

\* The payload built once for a plan, or for one set of variables: here an absent variable is null.
NativeArgument(def, raw, mode, variables) ==
    LET prepared == IF TopLevelVariable(mode, raw) THEN Fetch(variables, raw.name) ELSE NoSv
        given == native_dynamic_value_materialize_sv(raw, IF mode = "DYNAMIC" THEN variables ELSE NoVariables)
        source == IF raw.kind # "NULL" THEN [from |-> "raw", sv |-> given] ELSE DefaultOf(def)
        coerced == coerce_input_value_sv(def.type, source.sv)
    IN  CASE Defined(prepared) -> [ok |-> TRUE, value |-> native_dynamic_value_from_sv(prepared)]
          [] source.from = "absent" -> [ok |-> TRUE, value |-> NoValue]
          [] source.from = "prepared" ->
                [ok |-> TRUE, value |-> native_dynamic_value_from_native_value(def.native)]
          [] coerced.ok -> [ok |-> TRUE, value |-> native_dynamic_value_from_sv(coerced.sv)]
          [] OTHER -> coerced

\* A failure leaves nothing behind: the guard on the save stack destroys the partial payload.
specialize_arg_payload_native(defs, mode, payload, variables) ==
    LET results == [i \in DOMAIN defs |->
            NativeArgument(defs[i], args_payload_lookup_value(payload, defs[i].name, i), mode, variables)]
        wrong == {i \in DOMAIN defs : ~results[i].ok}
        there == SelectSeq([i \in DOMAIN defs |-> i], LAMBDA i : results[i].value.kind # "NULL")
    IN  IF wrong # {} THEN results[CHOOSE i \in wrong : \A j \in wrong : i <= j]
        ELSE [ok |-> TRUE,
              payload |-> IF there = <<>> THEN NoPayload
                          ELSE Payload([i \in DOMAIN there |-> defs[there[i]].name],
                                       [i \in DOMAIN there |-> results[there[i]].value])]

\* Whether a lane that keeps its variables in slots needs the hash for this payload.
args_payload_needs_variables_hv(p) ==
    \E i \in DOMAIN p.values : p.values[i].kind # "VARIABLE" \/ p.values[i].index = 0
-----------------------------------------------------------------------------
(* The leaf a resolver returns, by the kind of the field's type. *)

serialize_leaf_sv(kind, type, sv) ==
    CASE ~Defined(sv) -> Ok(Undef)
      [] kind = "NONE" -> Ok(sv)
      [] kind = "INT" ->
            IF \E n \in NumberOf(sv) : InRange(n) THEN Ok(Iv(TheNumber(sv) \div 10))
            ELSE Failed("Int cannot represent non-integer value")
      [] kind = "FLOAT" ->
            CASE sv.t \in {"iv", "nv"} -> Ok(sv)
              [] NumberOf(sv) # {} -> Ok(Nv(TheNumber(sv)))
              [] OTHER -> Failed("Float cannot represent non-numeric value")
      [] kind \in {"STRING", "ID"} ->
            CASE sv.t = "pv" -> Ok(sv)
              [] NonRef(sv) -> Ok(Pv(TextOfNumber(TheNumber(sv)), FALSE))
              [] sv.t = "bool" -> Ok(Pv(IF sv.bool THEN "true" ELSE "false", FALSE))
              [] OTHER -> Failed("String cannot represent a reference value")
      [] kind = "BOOLEAN" ->
            IF NonRef(sv) \/ sv.t = "bool" THEN Ok(Iv(IF Truthy(sv) THEN 1 ELSE 0))
            ELSE Failed("Boolean cannot represent a reference value")
      [] kind = "ENUM" ->
            LET names == {n \in DOMAIN type.name2value : type.name2value[n] = sv}
            IN  IF NonRef(sv) /\ names # {} THEN Ok(Pv(CHOOSE n \in names : TRUE, FALSE))
                ELSE Failed("Enum cannot represent value")
      [] OTHER ->
            IF sv.t = "pv" /\ \E s \in DOMAIN type.parse : type.parse[s] = sv
            THEN Ok(Pv(CHOOSE s \in DOMAIN type.parse : type.parse[s] = sv, FALSE))
            ELSE Failed("serialize died")
=============================================================================
