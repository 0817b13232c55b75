---------------------------- MODULE NativeValues ----------------------------
(***************************************************************************)
(* The value trees of the native VM (src/vm_runtime.h): the tree a         *)
(* response or a coerced default is built as (native_value), the tree an   *)
(* argument or a guard is compiled to (native_dynamic_value, which may     *)
(* hold variables), the payloads that hold the arguments and the guards of *)
(* a field, and the conversions between them and Perl values.              *)
(*                                                                         *)
(* A Perl value (SV) is a record whose field t says what it is.  A hash is *)
(* a function from its keys; a name of the set WideKeys is one that Perl   *)
(* stores flagged as UTF-8, AsBytes its bytes without the flag.  A number  *)
(* of kind nv is given in tenths.  Sequences are indexed from 1 and the    *)
(* C code's index -1 is 0.                                                 *)
(***************************************************************************)
EXTENDS Integers, Sequences, FiniteSets, SequencesExt

Undef == [t |-> "undef"]
Iv(n) == [t |-> "iv", iv |-> n]
Nv(n) == [t |-> "nv", nv |-> n]
Pv(s, utf8) == [t |-> "pv", pv |-> s, utf8 |-> utf8]
Hash(f) == [t |-> "hash", hash |-> f, class |-> ""]
Array(s) == [t |-> "array", array |-> s, class |-> ""]
Bool(b) == [t |-> "bool", bool |-> b]          \* a JSON::PP::Boolean object
VariableRef(name) == [t |-> "ref", ref |-> name]     \* \"name"
EnumRef(name) == [t |-> "refref", refref |-> name]   \* \\"NAME"
NoSv == [t |-> "NULL"]

IsHash(sv) == sv.t = "hash"
IsArray(sv) == sv.t = "array"
Defined(sv) == sv.t \notin {"undef", "NULL"}

\* SvTRUE; an object of the JSON classes answers for itself.
Truthy(sv) ==
    CASE sv.t = "iv" -> sv.iv # 0
      [] sv.t = "nv" -> sv.nv # 0
      [] sv.t = "pv" -> sv.pv \notin {"", "0"}
      [] sv.t = "bool" -> sv.bool
      [] OTHER -> Defined(sv)

WideKeys == {"wide"}
AsBytes(key) == IF key \in WideKeys THEN "wide as bytes" ELSE key

\* The entries a hash iterates over, in some order.
Entries(f) == SetToSeq(DOMAIN f)

Collect(names, values) ==
    [k \in {names[i] : i \in DOMAIN names} |->
        values[CHOOSE i \in DOMAIN names :
                  names[i] = k /\ \A j \in i + 1 .. Len(names) : names[j] # k]]
-----------------------------------------------------------------------------
(* The native tree. *)

Scalar(kind) == [kind |-> "SCALAR", scalar |-> kind]

new_native_value_scalar(sv) ==
    CASE ~Defined(sv) -> Scalar("UNDEF")
      [] sv.t = "pv" -> [kind |-> "SCALAR", scalar |-> "PV", pv |-> sv.pv, utf8 |-> sv.utf8]
      [] sv.t = "iv" -> [kind |-> "SCALAR", scalar |-> "IV", iv |-> sv.iv]
      [] sv.t = "nv" -> [kind |-> "SCALAR", scalar |-> "NV", nv |-> sv.nv]
      [] OTHER -> [kind |-> "SCALAR", scalar |-> "FALLBACK", sv |-> sv]

ObjectNode(names, values) == [kind |-> "OBJECT", names |-> names, values |-> values]
ListNode(items) == [kind |-> "LIST", items |-> items]

\* A hash and an array are taken apart whatever class they are blessed into.
RECURSIVE native_value_from_sv(_)
native_value_from_sv(sv) ==
    CASE IsHash(sv) ->
            LET keys == Entries(sv.hash)
            IN  ObjectNode([i \in DOMAIN keys |-> AsBytes(keys[i])],
                           [i \in DOMAIN keys |-> native_value_from_sv(sv.hash[keys[i]])])
      [] IsArray(sv) -> ListNode([i \in DOMAIN sv.array |-> native_value_from_sv(sv.array[i])])
      [] OTHER -> new_native_value_scalar(sv)

\* Unlike the conversion above, a completed value that is an object keeps its class.
from_completed_sv(sv) ==
    IF (IsHash(sv) \/ IsArray(sv)) /\ sv.class # ""
    THEN new_native_value_scalar(sv)
    ELSE native_value_from_sv(sv)

RECURSIVE native_value_materialize_sv(_)
native_value_materialize_sv(v) ==
    CASE v.kind = "OBJECT" ->
            Hash(Collect(v.names, [i \in DOMAIN v.values |-> native_value_materialize_sv(v.values[i])]))
      [] v.kind = "LIST" -> Array([i \in DOMAIN v.items |-> native_value_materialize_sv(v.items[i])])
      [] OTHER ->
            CASE v.scalar = "IV" -> Iv(v.iv)
              [] v.scalar = "NV" -> Nv(v.nv)
              [] v.scalar = "PV" -> Pv(v.pv, v.utf8)
              [] v.scalar = "FALLBACK" -> v.sv
              [] OTHER -> Undef

\* An empty string forgets its flag on the way.
CloneScalar(v) ==
    CASE v.scalar = "PV" /\ v.pv = "" -> [v EXCEPT !.utf8 = FALSE]
      [] v.scalar = "FALLBACK" -> new_native_value_scalar(v.sv)
      [] OTHER -> v

RECURSIVE native_value_clone(_)
native_value_clone(v) ==
    CASE v.kind = "OBJECT" ->
            ObjectNode(v.names, [i \in DOMAIN v.values |-> native_value_clone(v.values[i])])
      [] v.kind = "LIST" -> ListNode([i \in DOMAIN v.items |-> native_value_clone(v.items[i])])
      [] OTHER -> CloneScalar(v)
-----------------------------------------------------------------------------
(* The dynamic tree. *)

DynUndef == [kind |-> "UNDEF"]
DynVariable(name, index) == [kind |-> "VARIABLE", name |-> name, index |-> index]
DynObject(names, values) == [kind |-> "OBJECT", names |-> names, values |-> values]
DynList(items) == [kind |-> "LIST", items |-> items]
NoValue == [kind |-> "NULL"]

\* Any reference other than to a hash, an array or a string is a scalar without a value.
DynScalar(sv) ==
    CASE sv.t = "pv" -> [kind |-> "SCALAR", scalar |-> "PV", pv |-> sv.pv, utf8 |-> sv.utf8]
      [] sv.t = "iv" -> [kind |-> "SCALAR", scalar |-> "IV", iv |-> sv.iv]
      [] sv.t = "nv" -> [kind |-> "SCALAR", scalar |-> "NV", nv |-> sv.nv]
      [] OTHER -> Scalar("UNDEF")

RECURSIVE native_dynamic_value_from_sv(_)
native_dynamic_value_from_sv(sv) ==
    CASE ~Defined(sv) -> DynUndef
      [] IsArray(sv) -> DynList([i \in DOMAIN sv.array |-> native_dynamic_value_from_sv(sv.array[i])])
      [] IsHash(sv) ->
            LET keys == Entries(sv.hash)
            IN  DynObject([i \in DOMAIN keys |-> AsBytes(keys[i])],
                          [i \in DOMAIN keys |-> native_dynamic_value_from_sv(sv.hash[keys[i]])])
      [] sv.t = "ref" -> DynVariable(sv.ref, 0)
      [] OTHER -> DynScalar(sv)

RECURSIVE native_dynamic_value_from_native_value(_)
native_dynamic_value_from_native_value(v) ==
    CASE v.kind = "OBJECT" ->
            DynObject(v.names, [i \in DOMAIN v.values |-> native_dynamic_value_from_native_value(v.values[i])])
      [] v.kind = "LIST" ->
            DynList([i \in DOMAIN v.items |-> native_dynamic_value_from_native_value(v.items[i])])
      [] OTHER ->
            IF v.scalar = "FALLBACK" THEN native_dynamic_value_from_sv(v.sv) ELSE v

RECURSIVE native_dynamic_value_clone(_)
native_dynamic_value_clone(d) ==
    CASE d.kind = "OBJECT" ->
            DynObject(d.names, [i \in DOMAIN d.values |-> native_dynamic_value_clone(d.values[i])])
      [] d.kind = "LIST" -> DynList([i \in DOMAIN d.items |-> native_dynamic_value_clone(d.items[i])])
      [] OTHER -> d

IndexOfName(defs, name) ==
    LET at == {i \in DOMAIN defs : defs[i].name = name}
    IN  IF at = {} THEN 0 ELSE CHOOSE i \in at : \A j \in at : i <= j

RECURSIVE bind_dynamic_value_variables(_, _)
bind_dynamic_value_variables(d, defs) ==
    CASE d.kind = "VARIABLE" -> [d EXCEPT !.index = IndexOfName(defs, d.name)]
      [] d.kind = "OBJECT" ->
            [d EXCEPT !.values = [i \in DOMAIN @ |-> bind_dynamic_value_variables(@[i], defs)]]
      [] d.kind = "LIST" ->
            [d EXCEPT !.items = [i \in DOMAIN @ |-> bind_dynamic_value_variables(@[i], defs)]]
      [] OTHER -> d

\* hv_fetch of a variable's name; a hash that is not there answers like one without the name.
NoVariables == <<>>
Fetch(variables, name) == IF name \in DOMAIN variables THEN variables[name] ELSE NoSv

RECURSIVE native_dynamic_value_materialize_sv(_, _)
native_dynamic_value_materialize_sv(d, variables) ==
    CASE d.kind \in {"UNDEF", "NULL"} -> Undef
      [] d.kind = "VARIABLE" ->
            LET sv == Fetch(variables, d.name) IN IF Defined(sv) THEN sv ELSE Undef
      [] d.kind = "LIST" ->
            Array([i \in DOMAIN d.items |-> native_dynamic_value_materialize_sv(d.items[i], variables)])
      [] d.kind = "OBJECT" ->
            Hash(Collect(d.names,
                    [i \in DOMAIN d.values |-> native_dynamic_value_materialize_sv(d.values[i], variables)]))
      [] OTHER ->
            CASE d.scalar = "IV" -> Iv(d.iv)
              [] d.scalar = "NV" -> Nv(d.nv)
              [] d.scalar = "PV" -> Pv(d.pv, d.utf8)
              [] OTHER -> Undef

\* slots is the array the prepared variables are borrowed from, <<>> when there is none.
native_dynamic_value_truthy(d, variables, slots) ==
    CASE d.kind \in {"UNDEF", "NULL"} -> FALSE
      [] d.kind = "VARIABLE" ->
            Truthy(IF d.index \in DOMAIN slots THEN slots[d.index] ELSE Fetch(variables, d.name))
      [] d.kind \in {"LIST", "OBJECT"} -> TRUE
      [] OTHER ->
            CASE d.scalar = "IV" -> d.iv # 0
              [] d.scalar = "NV" -> d.nv # 0
              [] d.scalar = "PV" -> d.pv \notin {"", "0"}
              [] OTHER -> FALSE

\* The same conversion on the descriptor's own Perl values, for the lane that keeps them.
RECURSIVE materialize_dynamic_value_sv(_, _)
materialize_dynamic_value_sv(sv, variables) ==
    CASE ~Defined(sv) -> Undef
      [] IsArray(sv) ->
            Array([i \in DOMAIN sv.array |-> materialize_dynamic_value_sv(sv.array[i], variables)])
      [] IsHash(sv) ->
            Hash([k \in DOMAIN sv.hash |-> materialize_dynamic_value_sv(sv.hash[k], variables)])
      [] sv.t = "refref" -> Pv(sv.refref, FALSE)
      [] sv.t = "ref" ->
            LET found == Fetch(variables, sv.ref) IN IF found.t = "NULL" THEN Undef ELSE found
      [] sv.t = "bool" ->     \* the object's own scalar, 1 or 0, is taken for a variable's name
            LET found == Fetch(variables, IF sv.bool THEN "1" ELSE "0")
            IN  IF found.t = "NULL" THEN Undef ELSE found
      [] OTHER -> sv
-----------------------------------------------------------------------------
(* The arguments and the guards of a field. *)

NoPayload == [names |-> <<>>, values |-> <<>>, present |-> FALSE]
Payload(names, values) == [names |-> names, values |-> values, present |-> TRUE]

args_payload_from_hv(f) ==
    LET keys == Entries(f)
    IN  Payload(keys, [i \in DOMAIN keys |-> native_dynamic_value_from_sv(f[keys[i]])])

args_payload_clone(p) ==
    [p EXCEPT !.values = [i \in DOMAIN @ |-> native_dynamic_value_clone(@[i])]]

\* hint is where the argument is declared: usually where it is given, too.
args_payload_lookup_value(p, name, hint) ==
    LET at == {i \in DOMAIN p.names : p.names[i] = name}
    IN  CASE hint \in at -> p.values[hint]
          [] at # {} -> p.values[CHOOSE i \in at : \A j \in at : i <= j]
          [] OTHER -> NoValue

args_payload_materialize_sv(p) ==
    Hash(Collect(p.names,
            [i \in DOMAIN p.values |-> native_dynamic_value_materialize_sv(p.values[i], NoVariables)]))

args_payload_materialize_one_arg_cached_sv(p) ==
    IF p.values = <<>> THEN Undef
    ELSE native_dynamic_value_materialize_sv(p.values[1], NoVariables)

Guard(kind, expr) == [kind |-> kind, expr |-> expr]

\* A directive of the descriptor is a hash with a name and a hash of arguments.
DirectiveSv(name, if) ==
    Hash([k \in {"name", "arguments"} |->
            IF k = "name" THEN Pv(name, FALSE) ELSE Hash([a \in {"if"} |-> if])])

IfOf(directive) ==
    IF ~IsHash(directive) \/ ~({"name", "arguments"} \subseteq DOMAIN directive.hash) THEN NoSv
    ELSE LET arguments == directive.hash["arguments"]
         IN  IF IsHash(arguments) /\ "if" \in DOMAIN arguments.hash THEN arguments.hash["if"] ELSE NoSv

\* A directive without a condition leaves a guard of kind 0, which lets everything pass.
directives_payload_from_sv(guards_sv) ==
    IF ~IsArray(guards_sv) THEN <<>>
    ELSE [i \in DOMAIN guards_sv.array |->
            LET directive == guards_sv.array[i]
            IN  IF ~Defined(IfOf(directive)) THEN Guard("", NoValue)
                ELSE Guard(IF directive.hash["name"].pv = "skip" THEN "SKIP" ELSE "INCLUDE",
                           native_dynamic_value_from_sv(IfOf(directive)))]

directives_payload_clone(p) ==
    [i \in DOMAIN p |-> [p[i] EXCEPT !.expr = native_dynamic_value_clone(@)]]

directives_payload_materialize_sv(p) ==
    Array([i \in DOMAIN p |->
        DirectiveSv(IF p[i].kind = "SKIP" THEN "skip" ELSE "include",
                    native_dynamic_value_materialize_sv(p[i].expr, NoVariables))])

evaluate_runtime_guards_native(p, variables, slots) ==
    \A i \in DOMAIN p :
        LET truth == native_dynamic_value_truthy(p[i].expr, variables, slots)
        IN  ~(p[i].kind = "SKIP" /\ truth) /\ ~(p[i].kind = "INCLUDE" /\ ~truth)

\* The same guards on the descriptor's Perl values.
evaluate_runtime_guards_hv(guards_sv, variables) ==
    IsArray(guards_sv) =>
        \A i \in DOMAIN guards_sv.array :
            LET if == IfOf(guards_sv.array[i])
                name == guards_sv.array[i].hash["name"].pv
                truth == Truthy(materialize_dynamic_value_sv(if, variables))
            IN  if.t # "NULL" => ~(name = "skip" /\ truth) /\ ~(name = "include" /\ ~truth)
=============================================================================
