------------------------- MODULE OperationCompiler -------------------------
(***************************************************************************)
(* How Runtime/OperationCompiler.pm lowers the arguments and directives of *)
(* a field to the payloads of a descriptor, the texts that name a payload  *)
(* in its table (_compact_payload_key) and a set of variables in the       *)
(* specialization cache (NativeRuntime.pm, _specialized_variables_cache_   *)
(* key), and how it lowers a selection set to the blocks of a program -    *)
(* one block per object type below an abstract field - with what the VM    *)
(* answers when it runs them: the members of each object.                  *)
(*                                                                         *)
(* A selection is a record with kind "field", "inline" or "spread".  A     *)
(* value is an object of a concrete type; every leaf is told apart by the  *)
(* type and the field that give it.                                        *)
(***************************************************************************)
EXTENDS NativeValues, TLC

CONSTANTS
    KeyOrder,         \* the hash keys in sorted order
    FieldTypes,       \* [type |-> [field |-> the type it returns, or "leaf"]], object types
    PossibleTypes,    \* [abstract type |-> the object types it stands for]
    Fragments         \* [name |-> [on, selections]]

SortedKeys(f) == SelectSeq(KeyOrder, LAMBDA k : k \in DOMAIN f)

RECURSIVE _contains_variable_refs(_)
_contains_variable_refs(sv) ==
    \/ sv.t = "ref"
    \/ IsArray(sv) /\ \E i \in DOMAIN sv.array : _contains_variable_refs(sv.array[i])
    \/ IsHash(sv) /\ \E k \in DOMAIN sv.hash : _contains_variable_refs(sv.hash[k])

\* A literal without variables: an enum literal becomes its name, a boolean 1 or 0.
RECURSIVE _materialize_static_value(_)
_materialize_static_value(sv) ==
    CASE sv.t = "bool" -> Iv(IF sv.bool THEN 1 ELSE 0)
      [] sv.t = "refref" -> Pv(sv.refref, FALSE)
      [] IsArray(sv) -> Array([i \in DOMAIN sv.array |-> _materialize_static_value(sv.array[i])])
      [] IsHash(sv) -> Hash([k \in DOMAIN sv.hash |-> _materialize_static_value(sv.hash[k])])
      [] OTHER -> sv

\* The copy the other mode keeps is the literal itself.
Lowered(present, sv) ==
    CASE ~present -> [mode |-> "NONE", payload |-> Undef]
      [] ~_contains_variable_refs(sv) -> [mode |-> "STATIC", payload |-> _materialize_static_value(sv)]
      [] OTHER -> [mode |-> "DYNAMIC", payload |-> sv]

_lower_arguments(arguments) == Lowered(DOMAIN arguments # {}, Hash(arguments))

\* A guard whose condition is known at once is decided here: it drops the field or itself.
_partition_runtime_guards(directives) ==
    LET Static(i) == ~_contains_variable_refs(IfOf(directives[i]))
        Holds(i) == Truthy(_materialize_static_value(IfOf(directives[i])))
        Skipped(i) == Static(i) /\ (directives[i].hash["name"].pv = "skip") = Holds(i)
    IN  [keep |-> \A i \in DOMAIN directives : ~Skipped(i),
         dynamic |-> SelectSeq(directives, LAMBDA d : _contains_variable_refs(IfOf(d)))]

_lower_directives(directives) == Lowered(directives # <<>>, Array(directives))
-----------------------------------------------------------------------------
(* The texts. *)

Joined(texts) ==
    FoldLeft(LAMBDA acc, i : IF i = 1 THEN texts[1] ELSE acc \o "," \o texts[i],
             "", [i \in DOMAIN texts |-> i])

TextOf(sv) == IF sv.t = "pv" THEN sv.pv ELSE ToString(IF sv.t = "iv" THEN sv.iv ELSE sv.nv)

RECURSIVE _compact_payload_key(_)
_compact_payload_key(sv) ==
    CASE ~Defined(sv) -> "!undef"
      [] IsArray(sv) -> "A:[" \o Joined([i \in DOMAIN sv.array |-> _compact_payload_key(sv.array[i])]) \o "]"
      [] IsHash(sv) ->
            LET keys == SortedKeys(sv.hash)
            IN  "H:{" \o Joined([i \in DOMAIN keys |->
                            keys[i] \o "=>" \o _compact_payload_key(sv.hash[keys[i]])]) \o "}"
      [] sv.t = "ref" -> "R:" \o sv.ref
      [] sv.t = "refref" -> "R:address of " \o sv.refref
      [] sv.t = "bool" -> IF sv.bool THEN "object true" ELSE "object false"
      [] OTHER -> "S:" \o TextOf(sv)

RECURSIVE _specialized_variables_cache_key(_)
_specialized_variables_cache_key(sv) ==
    CASE ~Defined(sv) -> "u"
      [] sv.t = "bool" -> IF sv.bool THEN "b1" ELSE "b0"
      [] IsArray(sv) ->
            "a:[" \o Joined([i \in DOMAIN sv.array |-> _specialized_variables_cache_key(sv.array[i])]) \o "]"
      [] IsHash(sv) ->
            LET keys == SortedKeys(sv.hash)
            IN  "h:{" \o Joined([i \in DOMAIN keys |->
                            keys[i] \o "=>" \o _specialized_variables_cache_key(sv.hash[keys[i]])]) \o "}"
      [] OTHER -> "s:" \o TextOf(sv)

\* The table of payloads with one more: the index of an earlier one under the same text, 0
\* for a payload that is not there.
Present(sv) ==
    CASE IsArray(sv) -> sv.array # <<>>
      [] IsHash(sv) -> DOMAIN sv.hash # {}
      [] OTHER -> Defined(sv)

_intern_compact_payload(payloads, payload) ==
    LET same == {i \in DOMAIN payloads : _compact_payload_key(payloads[i]) = _compact_payload_key(payload)}
    IN  CASE ~Present(payload) -> [payloads |-> payloads, index |-> 0]
          [] same # {} -> [payloads |-> payloads, index |-> CHOOSE i \in same : TRUE]
          [] OTHER -> [payloads |-> Append(payloads, payload), index |-> Len(payloads) + 1]
-----------------------------------------------------------------------------
(* Selection sets. *)

NoCondition == ""
IsAbstract(type) == type \in DOMAIN PossibleTypes

\* A fragment applies where no type is asked for, or this very one.
Excluded(on, type_name) == on # NoCondition /\ on # type_name

GuardsOfTheField(inherited, own) == own
Inherited(inherited, own) == inherited \o own

\* The fields of a selection set, in order, each with the guards above it and its own.  A guard
\* that is decided drops what it guards; a fragment inside itself is not entered again.
RECURSIVE _normalize_selections(_, _, _, _)
_normalize_selections(selections, type_name, visited, inherited) ==
    LET Normalized(s) ==
            LET parts == _partition_runtime_guards(s.directives)
                guards == Inherited(inherited, parts.dynamic)
            IN  CASE ~parts.keep -> <<>>
                  [] s.kind = "field" -> <<[s EXCEPT !.directives = guards]>>
                  [] s.kind = "inline" ->
                        IF Excluded(s.on, type_name) THEN <<>>
                        ELSE _normalize_selections(s.selections, type_name, visited, guards)
                  [] OTHER ->
                        IF s.name \in visited \/ s.name \notin DOMAIN Fragments THEN <<>>
                        ELSE IF Excluded(Fragments[s.name].on, type_name) THEN <<>>
                        ELSE _normalize_selections(Fragments[s.name].selections, type_name,
                                                   visited \cup {s.name}, guards)
    IN  FoldLeft(LAMBDA acc, s : acc \o Normalized(s), <<>>, selections)

\* A block: its ops in order.  A field the type does not have is left out.
RECURSIVE _lower_selection_block_compact(_, _)
_lower_selection_block_compact(type_name, selections) ==
    LET Child(s, return) ==
            [t \in CASE IsAbstract(return) -> PossibleTypes[return]
                     [] return \in DOMAIN FieldTypes -> {return}
                     [] OTHER -> {} |->
                IF s.selections = <<>> THEN <<>> ELSE _lower_selection_block_compact(t, s.selections)]
        Op(s) ==
            LET return == IF s.name = "__typename" THEN "leaf" ELSE FieldTypes[type_name][s.name]
            IN  [field_name |-> s.name, result_name |-> IF s.alias = "" THEN s.name ELSE s.alias,
                 return |-> return,
                 guards |-> directives_payload_from_sv(_lower_directives(s.directives).payload),
                 children |-> Child(s, return)]
        kept == SelectSeq(_normalize_selections(selections, type_name, {}, <<>>),
                          LAMBDA s : s.name = "__typename" \/ s.name \in DOMAIN FieldTypes[type_name])
    IN  [i \in DOMAIN kept |-> Op(kept[i])]
-----------------------------------------------------------------------------
(* Running a block: what each op answers replaces what an earlier op       *)
(* answered under the same name.  concrete gives the type of the value of  *)
(* an abstract field.                                                      *)

LeafValue(type, field) == [leaf |-> <<type, field>>]
ObjectValue(members) == [members |-> members]

RECURSIVE ExecuteBlock(_, _, _, _)
ExecuteBlock(type, block, variables, concrete) ==
    LET Value(op) ==
            LET t == IF IsAbstract(op.return) THEN concrete[op.return] ELSE op.return
            IN  IF op.return = "leaf" THEN LeafValue(type, op.field_name)
                ELSE ObjectValue(ExecuteBlock(t, op.children[t], variables, concrete))
        run == SelectSeq(block, LAMBDA op : evaluate_runtime_guards_native(op.guards, variables, <<>>))
    IN  Collect([i \in DOMAIN run |-> run[i].result_name], [i \in DOMAIN run |-> Value(run[i])])
=============================================================================
