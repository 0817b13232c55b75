---------------------------- MODULE MCValidation ----------------------------
(***************************************************************************)
(* A schema with every kind of type and the documents that combine its     *)
(* selections: two selections of a pool in an operation, next to fragments *)
(* and variables chosen so that each rule has something to refuse.         *)
(***************************************************************************)
EXTENDS ValidationRules

\* Hashes written as sequences of <<key, value>>.
H(pairs) == [k \in {pairs[i][1] : i \in DOMAIN pairs} |->
               pairs[CHOOSE i \in DOMAIN pairs : pairs[i][1] = k][2]]
With(r, k, v) == [x \in DOMAIN r \cup {k} |-> IF x = k THEN v ELSE r[x]]

F(t) == [type |-> t]
IntT == Named("Int")
Str == Named("String")
Id == Named("ID")

ObjectType(n, ifaces, fields) ==
  [class |-> "OBJECT", name |-> n, interfaces |-> ifaces, fields |-> fields]
ScalarType(n) == [class |-> "SCALAR", name |-> n]

MCSchema ==
  [query |-> Named("Query"), subscription |-> Named("Sub"),
   name2type |-> H(<<
     <<"Int", ScalarType("Int")>>, <<"String", ScalarType("String")>>,
     <<"ID", ScalarType("ID")>>, <<"Boolean", ScalarType("Boolean")>>,
     <<"Date", With(ScalarType("Date"), "parse_value", {"string"})>>,
     <<"Role", [class |-> "ENUM", name |-> "Role", values |-> H(<<<<"ADMIN", EmptyHash>>>>)]>>,
     <<"In", [class |-> "INPUT_OBJECT", name |-> "In", fields |->
        [n |-> F(NonNull(IntT)), l |-> F(ListOf(NonNull(IntT))),
         d |-> [type |-> NonNull(IntT), default_value |-> 1]]]>>,
     <<"One", [class |-> "INPUT_OBJECT", name |-> "One", is_one_of |-> TRUE,
        fields |-> [a |-> F(IntT), b |-> F(IntT)]]>>,
     <<"Node", [class |-> "INTERFACE", name |-> "Node", interfaces |-> <<>>,
        fields |-> [id |-> F(NonNull(Id))]]>>,
     <<"User", ObjectType("User", <<Named("Node")>>,
        [id |-> F(NonNull(Id)), num |-> F(IntT), kin |-> F(Named("Node")),
         kids |-> [type |-> ListOf(Named("User")), list_size |-> 3, cost |-> 2]])>>,
     <<"Page", ObjectType("Page", <<Named("Node")>>,
        [id |-> F(NonNull(Id)), num |-> F(Str)])>>,
     <<"Any", [class |-> "UNION", name |-> "Any", types |-> <<Named("User"), Named("Page")>>]>>,
     <<"Other", ObjectType("Other", <<>>, [id |-> F(Id)])>>,
     <<"Query", ObjectType("Query", <<>>,
        [node |-> [type |-> Named("Node"), args |-> [id |-> F(NonNull(Id))]],
         me |-> F(Named("User")), any |-> F(Named("Any")),
         tags |-> F(NonNull(ListOf(Str))),
         f |-> [type |-> Str, args |->
                  [a |-> F(IntT), r |-> F(Named("Role")), i |-> F(Named("In")),
                   o |-> F(Named("One")), t |-> F(Named("Date")), l |-> F(ListOf(IntT)),
                   w |-> [type |-> NonNull(IntT), default_value |-> 1]]]])>>,
     <<"Sub", ObjectType("Sub", <<>>, [tick |-> F(IntT), tock |-> F(IntT)])>> >>),
   directives |-> <<[name |-> "include", repeatable |-> FALSE,
       locations |-> <<"FIELD", "FRAGMENT_SPREAD", "INLINE_FRAGMENT">>,
       args |-> H(<<<<"if", F(NonNull(Named("Boolean")))>>>>)],
     [name |-> "mark", repeatable |-> TRUE, locations |-> <<"QUERY", "FIELD">>,
       args |-> EmptyHash]>>]

\* Schemas the compiler refuses.
CostSchema(cost, size) ==
  [MCSchema EXCEPT !.name2type["User"].fields.kids =
     [type |-> ListOf(Named("User")), list_size |-> size, cost |-> cost]]

\* Interfaces that implement an interface, listed by the objects in every way:
\* in full, in either order, in part (which assert_valid refuses) and twice.
InterfaceLists == {<<>>, <<Named("Node")>>, <<Named("Entity")>>, <<Named("Node"), Named("Node")>>,
  <<Named("Node"), Named("Entity")>>, <<Named("Entity"), Named("Node")>>}
InterfaceSchema(entity, user, page) ==
  [MCSchema EXCEPT !.name2type =
     With([@ EXCEPT !["User"].interfaces = user, !["Page"].interfaces = page],
       "Entity", [class |-> "INTERFACE", name |-> "Entity", interfaces |-> entity,
                  fields |-> [id |-> F(NonNull(Id))]])]
InterfaceSchemas ==
  {InterfaceSchema(e, u, p) :
     e \in {<<>>, <<Named("Node")>>}, u \in InterfaceLists, p \in InterfaceLists}

Lit(v, x) == [v |-> v, lit |-> x]
I1 == Lit("int", "1")
S1 == Lit("string", "1")
Null == Lit("null", "")
Var(x) == Lit("var", x)
Obj(pairs) == [v |-> "object", fields |-> H(pairs)]
Items(xs) == [v |-> "list", items |-> xs]

Fld(n) == [kind |-> "field", name |-> n]
Sel(n, sels) == [kind |-> "field", name |-> n, selections |-> sels]
Args(node, pairs) == With(node, "arguments", H(pairs))
As(node, alias) == With(node, "alias", alias)
Dir(node, ds) == With(node, "directives", ds)
Inline(t, sels) == [kind |-> "inline_fragment", on |-> t, selections |-> sels]
Spread(n) == [kind |-> "fragment_spread", name |-> n]
Frag(n, t, sels) == [kind |-> "fragment", name |-> n, on |-> t, selections |-> sels]
Include(v) == [name |-> "include", arguments |-> H(<<<<"if", v>>>>)]
Mark == [name |-> "mark"]
True == Lit("bool", "1")

Op(sels) == [kind |-> "operation", selections |-> sels]
OpV(defs, sels) == [kind |-> "operation", variables |-> H(defs), selections |-> sels]
NamedOp(n, sels) == With(Op(sels), "name", n)
VarDef(x, t) == <<x, [type |-> t]>>
NInt == <<"named", "Int">>
Bang(t) == <<"non_null", t>>

-----------------------------------------------------------------------------
(* Selections to combine two by two: merging, fields and spreads. *)
MergePool == {
  Fld("tags"), Fld("me"), Sel("tags", <<Fld("id")>>), Fld("nope"), Fld("__schema"),
  Sel("me", <<Fld("id")>>), Sel("me", <<Fld("__schema")>>),
  Sel("me", <<As(Fld("num"), "id")>>),
  Sel("me", <<Sel("kin", <<Fld("id")>>), Spread("OnUser")>>),
  Sel("me", <<Sel("kin", <<Inline("User", <<As(Fld("num"), "id")>>)>>)>>),
  As(Sel("me", <<Fld("num")>>), "any"),
  Sel("any", <<Inline("User", <<Fld("num")>>), Inline("Page", <<Fld("id")>>)>>),
  Sel("any", <<Inline("Page", <<Fld("num")>>)>>),
  Sel("any", <<Inline("Page", <<As(Fld("id"), "num")>>), Inline("Other", <<Fld("id")>>)>>),
  Args(Sel("node", <<Fld("id")>>), <<<<"id", I1>>>>),
  Args(Sel("node", <<Spread("OnUser")>>), <<<<"id", S1>>>>),
  Args(Sel("node", <<Spread("Loop")>>), <<<<"id", Lit("string", "2")>>>>),
  Args(Fld("f"), <<<<"a", I1>>>>),
  Args(Fld("f"), <<<<"a", Lit("int", "2")>>>>),
  Fld("f"), Spread("Missing"), Spread("OnScalar")}

FragmentSets == {
  <<>>,
  <<Frag("OnUser", "User", <<Fld("num"), Spread("More")>>), Frag("More", "User", <<Fld("id")>>)>>,
  <<Frag("OnUser", "User", <<Sel("kin", <<Fld("id"), Fld("id")>>), Fld("num")>>)>>,
  <<Frag("Loop", "User", <<Fld("id"), Sel("kids", <<Spread("Back")>>)>>),
    Frag("Back", "User", <<Spread("Loop")>>)>>,
  <<Frag("OnScalar", "Int", <<Fld("id")>>)>>,
  <<Frag("OnUser", "User", <<Fld("id")>>), Frag("OnUser", "User", <<Fld("num")>>)>>}

MergeDocuments ==
  {<<Op(IF s = t THEN <<s>> ELSE <<s, t>>)>> \o frags :
     s \in MergePool, t \in MergePool, frags \in {<<>>}}
  \cup {<<Op(<<s>>)>> \o frags : s \in MergePool, frags \in FragmentSets}
  \cup {<<Op(<<s, t>>)>> \o frags :
     s \in {x \in MergePool : x.name \in {"me", "any", "node"}},
     t \in {x \in MergePool : x.name \in {"node", "me"}}, frags \in FragmentSets}

-----------------------------------------------------------------------------
(* Values in every position, literal or through a variable. *)
Values == {I1, Lit("bigint", "5000000000"), S1, Null, True, Lit("enum", "ADMIN"),
  Lit("enum", "NONE"), Lit("float", "1.5"), Var("x"), Items(<<I1, Var("x")>>), Items(<<Null>>),
  Obj(<<<<"n", I1>>>>), Obj(<<<<"n", Var("x")>>, <<"d", Var("x")>>>>),
  Obj(<<<<"n", I1>>, <<"l", Items(<<Var("x")>>)>>>>), Obj(<<<<"a", I1>>>>),
  Obj(<<<<"a", Null>>>>), Obj(<<<<"a", I1>>, <<"b", I1>>>>), Obj(<<<<"l", I1>>>>)}

Definitions == {
  <<VarDef("x", NInt)>>, <<VarDef("x", Bang(NInt))>>,
  <<VarDef("x", <<"list", NInt>>)>>, <<VarDef("x", <<"named", "User">>)>>,
  <<VarDef("x", <<"named", "Gone">>)>>, <<VarDef("x", Bang(<<"named", "Boolean">>))>>,
  <<<<"x", [type |-> NInt, default_value |-> I1]>>>>,
  <<<<"x", [type |-> NInt, default_value |-> S1]>>>>,
  <<<<"x", [type |-> NInt, default_value |-> Null]>>>>}

\* An operation with a variable of the name that marks deferral: read or not,
\* beside variables that are declared, or are not.
DeferVariable == VarDef(DeferName, NInt)
DeferringDocuments ==
  {<<OpV(defs, <<Args(Fld("f"), <<<<"a", a>>, <<"l", l>>>>)>>)>> :
     defs \in {<<DeferVariable>>, <<DeferVariable, VarDef("x", NInt)>>},
     a \in {I1, Var(DeferName)},
     l \in {Items(<<I1>>), Items(<<Var("x")>>), Var("x")}}
  \cup {<<OpV(<<DeferVariable>>,
          <<Args(Fld("f"), <<<<"a", Var(DeferName)>>>>), Spread("Q")>>),
        Frag("Q", "Query", <<As(Args(Fld("f"), <<<<"a", Var(v)>>>>), "g")>>)>> :
       v \in {DeferName, "y"}}

ValueDocuments ==
  {<<Op(<<Args(Fld("f"), <<<<a, v>>>>)>>)>> :
     a \in {"a", "r", "i", "o", "t", "l", "w", "zz"}, v \in Values}
  \cup {<<OpV(d, <<Args(Fld("f"), <<<<a, v>>>>)>>)>> :
     d \in Definitions, a \in {"a", "i", "l", "w"},
     v \in {Var("x"), Items(<<I1, Var("x")>>), Obj(<<<<"n", Var("x")>>, <<"d", Var("x")>>>>)}}
  \cup {<<OpV(d, <<Dir(Fld("tags"), <<Include(Var("x"))>>)>>)>> : d \in Definitions}
  \cup {<<OpV(<<VarDef("x", t)>>, <<Sel("me", <<Dir(Fld("id"), <<Include(True)>>), Spread("Uses")>>)>>),
          Frag("Uses", "User", <<Sel("kids", <<Dir(Fld("num"), <<Include(Var("x"))>>), Spread("Uses2")>>)>>),
          Frag("Uses2", "User", <<Fld("id")>>)>> :
     t \in {NInt, Bang(<<"named", "Boolean">>)}}
  \cup DeferringDocuments
  \cup {<<Args(Op(<<Spread("Q")>>), <<>>),
          Frag("Q", "Query", <<Args(Fld("f"), <<<<"a", Var("y")>>>>)>>)>>,
        <<OpV(<<VarDef("y", NInt)>>, <<Spread("Q")>>),
          Frag("Q", "Query", <<Args(Fld("f"), <<<<"a", Var("y")>>>>)>>)>>,
        <<OpV(<<VarDef("y", <<"named", "String">>)>>, <<Spread("Q")>>),
          Frag("Q", "Query", <<Args(Fld("f"), <<<<"a", Var("y")>>>>)>>)>>,
        <<With(OpV(<<VarDef("y", NInt)>>, <<Spread("Q")>>), "name", "A"), NamedOp("B", <<Spread("Q")>>),
          Frag("Q", "Query", <<Args(Fld("f"), <<<<"a", Var("y")>>>>)>>)>>}

-----------------------------------------------------------------------------
(* Operations and directives *)
Sub(sels) == With(Op(sels), "operationType", "subscription")
Mutation(sels) == With(Op(sels), "operationType", "mutation")

DirectiveLists == {<<>>, <<Include(True)>>, <<Include(True), Include(True)>>, <<Mark, Mark>>,
  <<Include(S1)>>, <<[name |-> "include"]>>, <<[name |-> "nope"]>>,
  <<[name |-> "include", arguments |-> H(<<<<"if", True>>, <<"z", I1>>>>)]>>}

OperationDocuments ==
  {<<>>, <<Frag("F", "User", <<Fld("id")>>)>>, <<Mutation(<<Fld("tags")>>)>>,
   <<NamedOp("A", <<Fld("tags")>>), NamedOp("A", <<Fld("f")>>)>>,
   <<NamedOp("A", <<Fld("tags")>>), NamedOp("B", <<Fld("f")>>)>>,
   <<Op(<<Fld("tags")>>), NamedOp("B", <<Fld("f")>>)>>,
   <<Op(<<Fld("tags")>>), [kind |-> "type", name |-> "T"]>>}
  \cup {<<Sub(s), Frag("T", "Sub", <<Fld("tock"), As(Fld("tick"), "t2")>>)>> : s \in {
     <<Fld("tick"), Spread("T")>>, <<Spread("T"), Spread("T")>>}}
  \cup {<<Sub(s)>> : s \in {<<Fld("tick")>>, <<Fld("tick"), Fld("tick")>>, <<Fld("__typename")>>,
     <<Fld("tick"), As(Fld("tick"), "b")>>, <<Fld("tick"), As(Fld("__typename"), "tick")>>,
     <<Inline("Sub", <<Fld("tock")>>)>>}}
  \cup {<<Dir(Op(<<Fld("tags")>>), d)>> : d \in DirectiveLists}
  \cup {<<Op(<<Dir(Fld("tags"), d)>>)>> : d \in DirectiveLists}
  \cup {<<Op(<<Dir(Spread("Q"), d)>>), Dir(Frag("Q", "Query", <<Dir(Fld("tags"), e)>>), <<>>)>> :
          d \in DirectiveLists, e \in DirectiveLists}
  \cup {<<Op(<<Spread("Q")>>), Dir(Frag("Q", "Query", <<Fld("tags")>>), d)>> : d \in DirectiveLists}

Validate(schema, ast) == [entry |-> "validate", schema |-> schema, ast |-> ast, duplicates |-> {}]

-----------------------------------------------------------------------------
(* Cost: nested lists, costs of zero, limits around the exact cost. *)
CostDocuments == {
  <<Op(<<Fld("tags"), Fld("nope")>>)>>,
  <<Op(<<Sel("me", <<Fld("id"), Sel("kids", <<Fld("id"), Sel("kids", <<Fld("num")>>)>>)>>)>>)>>,
  <<NamedOp("A", <<Sel("me", <<Spread("Loop"), Spread("Loop")>>)>>), NamedOp("B", <<Fld("f")>>),
    Frag("Loop", "User", <<Fld("id"), Sel("kids", <<Spread("Loop"), Inline("User", <<Fld("num")>>)>>)>>)>>,
  <<Mutation(<<Fld("tags")>>), Sub(<<Fld("tick")>>)>>}

CostOptions ==
  {[max_cost |-> m] : m \in 0..20}
  \cup {[max_cost |-> m, default_list_size |-> d] : m \in {-1, 2, 3, 4}, d \in 0..2}
  \cup {[max_cost |-> m, operation_name |-> n] : m \in {0, 9, 10, 18, 19}, n \in {"A", "B"}}
  \cup {EmptyHash}

CostRequests ==
  {[entry |-> "cost", schema |-> s, ast |-> a, options |-> o] :
     s \in {MCSchema, CostSchema(0, 2), CostSchema(-1, 2), CostSchema(1, 0)},
     a \in CostDocuments, o \in CostOptions}

MCRequests ==
  {Validate(MCSchema, a) : a \in MergeDocuments \cup ValueDocuments \cup OperationDocuments}
  \cup {[Validate(MCSchema, <<Op(<<Fld("tags")>>)>>) EXCEPT !.duplicates = {<<"DuplicateArgument", "a">>}]}
  \cup {Validate(CostSchema(-1, 1), <<Op(<<Fld("tags")>>)>>)}
  \cup {Validate(s, <<Op(<<Fld("tags")>>)>>) : s \in InterfaceSchemas}
  \cup CostRequests

-----------------------------------------------------------------------------
(* Documents on which the code and the documentation disagree. *)
TypenameRequests ==
  {Validate(MCSchema, <<Op(s)>>) : s \in {
     <<Fld("tags"), Fld("tags")>>, <<Fld("__typename"), Fld("__typename")>>}}

DirectiveVariableRequests ==
  {Validate(MCSchema, <<Op(<<Dir(Fld("tags"), <<Include(v)>>)>>)>>) : v \in {True, Var("x")}}

DivergentRequests == TypenameRequests \cup DirectiveVariableRequests

DeferringRequests == {Validate(MCSchema, a) : a \in DeferringDocuments}

=============================================================================
