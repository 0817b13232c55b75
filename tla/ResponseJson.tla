---------------------------- MODULE ResponseJson ----------------------------
(***************************************************************************)
(* The three writers of the JSON lanes (Houtou.xs): of a leaf on the fast  *)
(* lane, of the native tree, and of a tree of Perl values.  What is        *)
(* written is a JSON value: a number, a text as its bytes, a boolean,      *)
(* null, or the members and items in order of their names.                 *)
(***************************************************************************)
EXTENDS NativeValues

JsonNull == [json |-> "null"]
JsonBool(b) == [json |-> "bool", bool |-> b]
JsonNumber(tenths) == [json |-> "number", number |-> tenths]
JsonString(bytes) == [json |-> "string", string |-> bytes]
JsonObject(members) == [json |-> "object", members |-> members]
JsonList(items) == [json |-> "list", items |-> items]

\* SvPVutf8 encodes a text that Perl keeps as bytes of Latin-1.
Latin1 == {"latin"}
Encoded(s) == IF s \in Latin1 THEN "latin encoded" ELSE s

\* A reference where a leaf is expected is written as Perl prints it.
json_cat_scalar(sv) ==
    CASE ~Defined(sv) -> JsonNull
      [] sv.t = "bool" -> JsonBool(sv.bool)
      [] sv.t = "pv" -> JsonString(IF sv.utf8 THEN sv.pv ELSE Encoded(sv.pv))
      [] sv.t = "iv" -> JsonNumber(10 * sv.iv)
      [] sv.t = "nv" -> JsonNumber(sv.nv)
      [] IsHash(sv) -> JsonString("HASH(0x...)")
      [] IsArray(sv) -> JsonString("ARRAY(0x...)")
      [] OTHER -> JsonString("SCALAR(0x...)")

RECURSIVE json_cat_sv_data(_)
json_cat_sv_data(sv) ==
    CASE IsHash(sv) /\ sv.class = "" ->
            JsonObject([k \in {AsBytes(n) : n \in DOMAIN sv.hash} |->
                json_cat_sv_data(sv.hash[CHOOSE n \in DOMAIN sv.hash : AsBytes(n) = k])])
      [] IsArray(sv) /\ sv.class = "" ->
            JsonList([i \in DOMAIN sv.array |-> json_cat_sv_data(sv.array[i])])
      [] OTHER -> json_cat_scalar(sv)

\* The native writer copies the bytes it holds.
RECURSIVE native_value_cat_json(_)
native_value_cat_json(v) ==
    CASE v.kind = "OBJECT" ->
            JsonObject(Collect(v.names, [i \in DOMAIN v.values |-> native_value_cat_json(v.values[i])]))
      [] v.kind = "LIST" -> JsonList([i \in DOMAIN v.items |-> native_value_cat_json(v.items[i])])
      [] v.scalar = "UNDEF" -> JsonNull
      [] v.scalar = "PV" -> JsonString(v.pv)
      [] v.scalar = "IV" -> JsonNumber(10 * v.iv)
      [] v.scalar = "NV" -> JsonNumber(v.nv)
      [] OTHER -> json_cat_scalar(v.sv)
=============================================================================
