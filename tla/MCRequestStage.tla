--------------------------- MODULE MCRequestStage ---------------------------
(***************************************************************************)
(* Small instances of RequestStage for TLC.                                *)
(***************************************************************************)
EXTENDS RequestStage, TLC

CONSTANTS kPlain, kDeep, kIntro, kBroken, kInvalid, kSubscription, a1, a2, a3,
          v0, v1, v2, vLong

\* One document per way the stage can treat it.
Document(depth, introspects, valid, compiles, directives) ==
  [parses |-> TRUE, selects |-> TRUE, introspects |-> introspects,
   depth |-> depth, nodes |-> depth, cost |-> depth, valid |-> valid,
   compiles |-> compiles, runtimeDirectives |-> directives]

MCFacts ==
  [k \in Keys |->
     CASE k = kPlain        -> Document(1, FALSE, TRUE, TRUE, TRUE)
       [] k = kDeep         -> Document(2, FALSE, TRUE, TRUE, TRUE)
       [] k = kIntro        -> Document(1, TRUE, TRUE, TRUE, FALSE)
       [] k = kInvalid      -> Document(1, FALSE, FALSE, TRUE, FALSE)
       [] k = kSubscription -> Document(1, FALSE, TRUE, FALSE, FALSE)
       [] k = kBroken       ->
            [Document(0, FALSE, FALSE, FALSE, FALSE) EXCEPT !.parses = FALSE]]

Limits(depth, nodes, cost, size, intro) ==
  [maxDepth |-> depth, maxNodes |-> nodes, maxCost |-> cost,
   listSize |-> size, allowIntrospection |-> intro]

\* No limits; a tight depth cap; a cost cap that only the larger assumed list
\* size trips; introspection off.
MCLimitSets ==
  {Limits(Off, Off, Off, Off, TRUE), Limits(1, Off, Off, Off, TRUE),
   Limits(Off, 2, 3, 2, FALSE)}

MCNoLimits == {Limits(Off, Off, Off, Off, TRUE)}

Opts(onStall, strictSync, hasVariables, coerces) ==
  [onStall |-> onStall, strictSync |-> strictSync,
   hasVariables |-> hasVariables, coerces |-> coerces]

MCOneOption == {Opts(FALSE, FALSE, TRUE, TRUE)}

\* Strictly synchronous requests specialize although they could batch.
MCStrictOption == {Opts(TRUE, TRUE, TRUE, TRUE)}

\* Batching, plain and badly typed requests.
MCLaneOptions ==
  {Opts(TRUE, FALSE, TRUE, TRUE), Opts(FALSE, FALSE, TRUE, TRUE),
   Opts(FALSE, FALSE, TRUE, FALSE)}

\* v2 joins to the string of v1, as {a => 'x,b=>b1'} and {a => 'x', b => true} do.
\* A key is named after one of the variable hashes that have it.
MCVariablesKey == [v \in Variables |-> IF v = v2 THEN v1 ELSE v]

\* No operator names an address, so they are interchangeable.
AddressSymmetry == Permutations(Addresses)

=============================================================================
