-------------------------------- MODULE MCVM --------------------------------
(***************************************************************************)
(* A field for every kind of input type with every way to give its         *)
(* argument, small values, leaves, and three operations whose plans live.  *)
(***************************************************************************)
EXTENDS NativeRules

P(s) == Pv(s, FALSE)
V(name) == VariableRef(name)
H(k, sv) == Hash([x \in {k} |-> sv])
HH(k1, sv1, k2, sv2) == Hash([x \in {k1, k2} |-> IF x = k1 THEN sv1 ELSE sv2])

TInt == [k |-> "Int"]
TFloat == [k |-> "Float"]
TBool == [k |-> "Boolean"]
TString == [k |-> "String"]
NonNull(t) == [k |-> "nonnull", of |-> t]
ListOf(t) == [k |-> "list", of |-> t]
TColor == [k |-> "enum", name2value |-> [n \in {"RED", "BLUE"} |-> IF n = "RED" THEN Iv(3) ELSE P("BLUE")]]
TDate == [k |-> "custom", parse |-> [s \in {"1999"} |-> P("day 0")]]
Field(t) == [type |-> t]
TPoint == [k |-> "input", one_of |-> FALSE,
           fields |-> [f \in {"n", "c"} |->
                        IF f = "n" THEN [type |-> TInt, default |-> Iv(5)] ELSE Field(TColor)]]
TOne == [k |-> "input", one_of |-> TRUE, fields |-> [f \in {"n", "c"} |-> Field(TInt)]]

\* at is the argument's type and vt the variable's; once when vt changes what it coerces twice.
Row(at, literals, vt, values, defaults, once) ==
    [at |-> at, literals |-> literals, vt |-> vt, values |-> values, defaults |-> defaults, once |-> once]

Rows == {
    Row(TInt, {NoSv, V("v"), Iv(5), Undef}, TInt,
        {NoSv, Undef, Iv(5), P("5"), Nv(15), Iv(99)}, {NoSv, Undef, Iv(3)}, FALSE),
    Row(NonNull(TInt), {V("v")}, TInt, {NoSv, Undef, Iv(5)}, {Iv(3)}, FALSE),
    Row(NonNull(TInt), {V("v")}, NonNull(TInt), {NoSv, Undef, Iv(5)}, {NoSv, Iv(3)}, FALSE),
    Row(TFloat, {V("v"), Nv(15), Iv(1)}, TFloat, {Iv(1), Nv(15), P("1.5"), P("x")}, {NoSv}, FALSE),
    Row(TBool, {V("v"), Bool(TRUE)}, TBool, {Bool(FALSE), Iv(1), Iv(5), P("1")}, {NoSv}, FALSE),
    Row(TString, {V("v"), P("x")}, TString, {P("x"), Iv(5), H("n", Iv(1))}, {NoSv, P("y")}, FALSE),
    Row(TColor, {NoSv, V("v"), EnumRef("RED"), EnumRef("BLUE")}, TColor,
        {NoSv, Undef, P("RED"), P("PINK"), Iv(3)}, {NoSv, P("RED")}, TRUE),
    Row(TDate, {V("v"), P("1999"), P("soon")}, TDate, {NoSv, P("1999"), P("soon")}, {NoSv, P("1999")}, TRUE),
    Row(ListOf(TColor), {V("v"), Array(<<EnumRef("RED")>>), EnumRef("BLUE"), Array(<<>>)}, ListOf(TColor),
        {Undef, Array(<<P("RED"), Undef>>), P("BLUE"), Array(<<Iv(5)>>)}, {NoSv}, TRUE),
    Row(ListOf(TInt), {Array(<<Iv(1), V("v")>>), Array(<<V("v"), V("v")>>), V("v")}, TInt,
        {NoSv, Undef, P("5")}, {NoSv, Iv(3)}, FALSE),
    Row(ListOf(NonNull(TInt)), {Array(<<V("v")>>)}, TInt, {Undef, Iv(5)}, {Iv(3)}, FALSE),
    Row(ListOf(TColor), {Array(<<V("v")>>)}, TColor, {P("RED"), P("BLUE")}, {NoSv}, TRUE),
    Row(TPoint, {H("n", V("v")), Hash(<<>>), H("c", EnumRef("RED")), H("x", Iv(1)), H("n", Undef),
                 HH("n", V("v"), "c", EnumRef("RED"))}, TInt,
        {NoSv, Undef, Iv(5), P("x")}, {NoSv, Iv(3)}, FALSE),
    Row(TOne, {V("v")}, TOne, {H("n", Iv(1)), H("n", Undef), HH("n", Iv(1), "c", Iv(1)), Iv(1)}, {NoSv}, FALSE)}

\* A list argument given a variable of its item's type is not a valid document.
Valid(row, literal) == ~(literal.t = "ref" /\ row.at.k = "list" /\ row.vt.k # "list")

Given(name, sv) == IF sv = NoSv THEN <<>> ELSE [n \in {name} |-> sv]
ArgDefaults(row) == IF row.at.k = "Int" THEN {NoSv, Iv(4)} ELSE {NoSv}
Beside2 == {NoSv, Bool(TRUE), Iv(1)}

ArgumentJobs ==
    UNION {{[kind |-> "arguments", once |-> row.once,
             vars |-> <<parse_native_arg_def("v", row.vt, default)>>,
             provided |-> Given("v", value),
             defs |-> <<parse_native_arg_def("a", row.at, argDefault)>>
                      \o (IF beside = NoSv THEN <<>>
                          ELSE <<parse_native_arg_def("b", TBool, NoSv)>>),
             arguments |-> [n \in ({"a"} \ (IF literal = NoSv THEN {"a"} ELSE {}))
                                  \cup ({"b"} \ (IF beside = NoSv THEN {"b"} ELSE {})) |->
                              IF n = "a" THEN literal ELSE beside]] :
               default \in row.defaults, value \in row.values, argDefault \in ArgDefaults(row),
               literal \in {l \in row.literals : Valid(row, l)}, beside \in Beside2} : row \in Rows}

Atoms == {Undef, Iv(0), Iv(5), Nv(15), P(""), P("x"), P("latin"), Pv("latin", TRUE), Pv("x", TRUE),
          Bool(TRUE), Bool(FALSE), [t |-> "hash", hash |-> [k \in {"n"} |-> Iv(1)], class |-> "My::Date"]}
Flat == Atoms \cup {Array(<<>>), Hash(<<>>)} \cup {Array(<<a>>) : a \in Atoms}
        \cup {H(k, a) : k \in {"n", "wide"}, a \in Atoms}
MCValues == Flat \cup {Array(<<a, b>>) : a, b \in Flat}
        \cup {HH("n", a, "c", b) : a, b \in Flat}

Leaves == {
    [leaf |-> "INT", type |-> TInt, values |-> {Iv(5), Iv(7), Iv(8), Iv(-8), Iv(-9), P("5"), P("x"), Nv(15), Nv(50), Undef, Bool(TRUE)}],
    [leaf |-> "FLOAT", type |-> TFloat, values |-> {Iv(5), Nv(15), P("1.5"), P("1"), P("x"), Undef}],
    [leaf |-> "STRING", type |-> TString, values |-> {P("x"), Iv(5), Nv(15), Bool(FALSE), Undef, Array(<<>>)}],
    [leaf |-> "BOOLEAN", type |-> TBool, values |-> {Bool(TRUE), Bool(FALSE), Iv(1), Iv(0), Iv(5), P("1"), P("x"), Undef, Array(<<>>)}],
    [leaf |-> "ENUM", type |-> TColor, values |-> {P("RED"), P("BLUE"), P("PINK"), Iv(3), Undef}],
    [leaf |-> "CUSTOM", type |-> TDate, values |-> {P("1999"), P("day 0"), P("soon"), Undef}]}
LeafJobs == UNION {{[kind |-> "leaf", leaf |-> l.leaf, type |-> l.type, sv |-> v] : v \in l.values} : l \in Leaves}

\* Texts are the user's: one may spell what separates two arguments in a key.
Texts == {"1", "2", "1,b=>S:2", "1,b=>s:2"}
Hashes == {H("a", P(x)) : x \in Texts} \cup {HH("a", P(x), "b", P(y)) : x, y \in Texts}
PairJobs == {[kind |-> "pair", one |-> x, other |-> y] : x, y \in Hashes}
-----------------------------------------------------------------------------
(* Selections: up to two at the root and two below it, with fragments. *)

Directives == {<<>>, <<DirectiveSv("include", V("w"))>>, <<DirectiveSv("skip", V("w"))>>,
               <<DirectiveSv("skip", Bool(TRUE))>>}
Fld(name, alias, directives, selections) ==
    [kind |-> "field", name |-> name, alias |-> alias, directives |-> directives, selections |-> selections]
Leaf(name) == Fld(name, "", <<>>, <<>>)
Inline(on, directives, selections) ==
    [kind |-> "inline", on |-> on, directives |-> directives, selections |-> selections]
Spread(name, directives) == [kind |-> "spread", name |-> name, directives |-> directives, selections |-> <<>>]

MCFieldTypes == [t \in {"Query", "User", "Bot"} |->
    CASE t = "Query" -> [f \in {"user", "node", "id"} |->
                           CASE f = "user" -> "User" [] f = "node" -> "Node" [] OTHER -> "leaf"]
      [] t = "User" -> [f \in {"id", "name", "friend"} |-> IF f = "friend" THEN "Node" ELSE "leaf"]
      [] OTHER -> [f \in {"id"} |-> "leaf"]]
MCPossibleTypes == [t \in {"Node"} |-> {"User", "Bot"}]
MCFragments == [f \in {"Names", "Nodes", "Outer"} |->
    CASE f = "Names" -> [on |-> "User", selections |-> <<Leaf("name")>>]
      [] f = "Nodes" -> [on |-> "Node", selections |-> <<Leaf("id")>>]
      [] OTHER -> [on |-> "User", selections |-> <<Spread("Names", <<DirectiveSv("include", V("w"))>>),
                                                  Fld("id", "key", <<DirectiveSv("skip", V("x"))>>, <<>>)>>]]

Below == {Leaf("id"), Leaf("__typename"), Fld("id", "other", <<>>, <<>>)}
         \cup {Inline("User", d, <<Leaf("name")>>) : d \in Directives}
         \cup {Inline("Bot", <<>>, <<Leaf("id")>>), Inline("", <<>>, <<Leaf("id")>>),
               Inline("User", <<DirectiveSv("include", V("x"))>>, <<Inline("", <<DirectiveSv("skip", V("w"))>>, <<Leaf("id")>>)>>),
               Spread("Nodes", <<>>), Spread("Names", <<>>),
               Fld("friend", "", <<>>, <<Leaf("id"), Spread("Names", <<>>)>>)}
         \cup {Spread("Outer", d) : d \in Directives}
Lines == {<<a>> : a \in Below} \cup {<<a, b>> : a, b \in Below}
OnUser(line) == {line[i] : i \in DOMAIN line} \cap {Fld("friend", "", <<>>, <<Leaf("id"), Spread("Names", <<>>)>>)} = {}
RootSelections ==
    {<<Fld("user", "", d, line)>> : line \in Lines, d \in {<<>>, <<DirectiveSv("include", V("x"))>>}}
    \cup {<<Fld("node", "", <<>>, line)>> : line \in {l \in Lines : OnUser(l)}}
    \cup {<<Fld("user", "", <<>>, <<a>>), Fld("user", alias, <<>>, <<b>>)>> : a, b \in Below, alias \in {"", "again"}}
SelectionJobs ==
    {[kind |-> "selection", selections |-> s,
      variables |-> [v \in {"w", "x"} |-> IF v = "w" THEN Bool(w) ELSE Bool(x)],
      concrete |-> [t \in {"Node"} |-> c]] :
        s \in RootSelections, w, x \in BOOLEAN, c \in {"User", "Bot"}}
-----------------------------------------------------------------------------
(* The plans. *)

\* A slot with a default, one of a native resolver (2), and one without arguments.
ExplicitSlot(defs, mode) == [arg_defs |-> defs, shape |-> "EXPLICIT", mode |-> mode]
MCSchema == <<
    ExplicitSlot(<<parse_native_arg_def("n", TInt, Iv(4)), parse_native_arg_def("c", TString, NoSv)>>, 1),
    ExplicitSlot(<<parse_native_arg_def("n", ListOf(TInt), NoSv)>>, 2),
    ExplicitSlot(<<>>, 1) >>

Show(name) == <<DirectiveSv("include", V(name))>>
Plainly(slot, arguments) == [slot |-> slot, arguments |-> arguments, directives |-> <<>>,
                             custom |-> FALSE, abstract_children |-> <<>>]
Arg(k, sv) == [x \in {k} |-> sv]
IntVar == parse_native_arg_def("v", NonNull(TInt), NoSv)
ShowVar == parse_native_arg_def("w", NonNull(TBool), Bool(FALSE))
OptionalVar == parse_native_arg_def("u", TInt, NoSv)

MCDocuments == <<
    [defs |-> <<IntVar>>,
     fields |-> <<Plainly(1, Arg("n", V("v"))), Plainly(2, Arg("n", Array(<<Iv(1), V("v")>>))),
                  Plainly(1, Arg("n", Iv(6))), Plainly(1, Arg("n", Iv(6))), Plainly(3, <<>>)>>],
    [defs |-> <<IntVar, ShowVar, OptionalVar>>,
     fields |-> <<[Plainly(1, Arg("n", V("v"))) EXCEPT !.directives = Show("w"), !.abstract_children = <<2>>],
                  [Plainly(2, Arg("n", Iv(2))) EXCEPT !.custom = TRUE],
                  [Plainly(3, <<>>) EXCEPT !.directives = <<DirectiveSv("skip", V("w"))>>, !.custom = TRUE],
                  [Plainly(1, Arg("n", V("u"))) EXCEPT !.directives = Show("w")]>>],
    [defs |-> <<ShowVar>>,
     fields |-> <<[Plainly(1, Arg("c", P("x"))) EXCEPT !.directives =
                        <<DirectiveSv("include", Bool(TRUE)), DirectiveSv("skip", V("w"))>>, !.custom = TRUE],
                  [Plainly(2, <<>>) EXCEPT !.directives = <<DirectiveSv("skip", Bool(TRUE))>>],
                  [Plainly(3, <<>>) EXCEPT !.directives = <<DirectiveSv("include", V("w"))>>,
                                           !.abstract_children = <<2, 3>>]>>]>>

\* A request gives v, and w and u or leaves them out.
MCGiven == [n \in {"u", "v", "w"} |->
    CASE n = "u" -> {Iv(1)} [] n = "v" -> {Iv(1), P("5")} [] OTHER -> {Bool(TRUE), Bool(FALSE)}]
MCVariables(d) ==
    LET names == {Documents[d].defs[i].name : i \in DOMAIN Documents[d].defs}
    IN  UNION {{f \in [given -> UNION {MCGiven[n] : n \in given}] : \A n \in given : f[n] \in MCGiven[n]} :
                  given \in {g \in SUBSET names : names \cap {"v"} \subseteq g}}

MCIntMin == -8
MCKeyOrder == <<"a", "arguments", "b", "c", "if", "n", "name", "v", "w", "wide">>
-----------------------------------------------------------------------------

vars == <<job, planVars>>
IdlePlan == document = 1 /\ plain = NoProgram /\ special = NoProgram /\ specializedFor = NoVariables
            /\ allocated = {} /\ freed = {} /\ twice = {} /\ generation = 0
            /\ emptyArgs = Hash(<<>>) /\ staticArgs = <<>>

Init ==
    \/ job \in ArgumentJobs \cup LeafJobs \cup PairJobs \cup SelectionJobs \cup {[kind |-> "value", sv |-> v] : v \in MCValues} /\ IdlePlan
    \/ job = [kind |-> "plan"] /\ PlanInit

Next == job.kind = "plan" /\ PlanNext /\ UNCHANGED job

Spec == Init /\ [][Next]_vars
=============================================================================
