--------------------------- MODULE SelectionRules ---------------------------
(***************************************************************************)
(* What a lowered selection set promises: the response of CollectFields    *)
(* and ExecuteSelectionSet (sections 6.3.2 and 6.3 of the specification),  *)
(* whichever type an abstract field returns.                               *)
(***************************************************************************)
EXTENDS OperationCompiler

Applies(on, type) == on \in {NoCondition, type} \/ (IsAbstract(on) /\ type \in PossibleTypes[on])

Shown(directives, variables) ==
    \A i \in DOMAIN directives :
        LET if == IfOf(directives[i])
            value == IF if.t = "ref" THEN variables[if.ref] ELSE if
        IN  (directives[i].hash["name"].pv = "include") = Truthy(value)

\* The fields of a selection set that apply to a type, the fragments unfolded.
RECURSIVE CollectFields(_, _, _)
CollectFields(type, selections, variables) ==
    LET Fields(s) ==
            CASE ~Shown(s.directives, variables) -> <<>>
              [] s.kind = "field" -> <<s>>
              [] s.kind = "inline" ->
                    IF Applies(s.on, type) THEN CollectFields(type, s.selections, variables) ELSE <<>>
              [] OTHER ->
                    IF Applies(Fragments[s.name].on, type)
                    THEN CollectFields(type, Fragments[s.name].selections, variables) ELSE <<>>
    IN  FoldLeft(LAMBDA acc, s : acc \o Fields(s), <<>>, selections)

ResponseKey(s) == IF s.alias = "" THEN s.name ELSE s.alias
FlattenedSelections(fields) == FoldLeft(LAMBDA acc, s : acc \o s.selections, <<>>, fields)

\* Fields of one response key are resolved once, with the selections of all of them.
RECURSIVE SpecObject(_, _, _, _)
SpecObject(type, selections, variables, concrete) ==
    LET fields == CollectFields(type, selections, variables)
        Group(key) == SelectSeq(fields, LAMBDA s : ResponseKey(s) = key)
        Value(group) ==
            LET name == group[1].name
                return == IF name = "__typename" THEN "leaf" ELSE FieldTypes[type][name]
                t == IF IsAbstract(return) THEN concrete[return] ELSE return
            IN  IF return = "leaf" THEN LeafValue(type, name)
                ELSE ObjectValue(SpecObject(t, FlattenedSelections(group), variables, concrete))
    IN  [key \in {ResponseKey(fields[i]) : i \in DOMAIN fields} |-> Value(Group(key))]

\* Where the compiler departs from the specification: a response key that is selected twice with
\* selections below it, and a fragment on an abstract type.
RECURSIVE KeyTwice(_, _, _, _), AbstractFragment(_)
KeyTwice(type, selections, variables, concrete) ==
    LET fields == CollectFields(type, selections, variables)
        Below(s) ==
            LET return == FieldTypes[type][s.name]
            IN  IF s.selections = <<>> THEN FALSE
                ELSE KeyTwice(IF IsAbstract(return) THEN concrete[return] ELSE return,
                              s.selections, variables, concrete)
    IN  \/ \E i, j \in DOMAIN fields : i # j /\ ResponseKey(fields[i]) = ResponseKey(fields[j])
        \/ \E i \in DOMAIN fields : Below(fields[i])
AbstractFragment(selections) ==
    \E i \in DOMAIN selections :
        LET s == selections[i]
        IN  CASE s.kind = "spread" -> IsAbstract(Fragments[s.name].on)
                                      \/ AbstractFragment(Fragments[s.name].selections)
              [] s.kind = "inline" -> IsAbstract(s.on) \/ AbstractFragment(s.selections)
              [] OTHER -> AbstractFragment(s.selections)

CodeObject(selections, variables, concrete) ==
    ExecuteBlock("Query", _lower_selection_block_compact("Query", selections), variables, concrete)
=============================================================================
