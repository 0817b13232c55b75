-------------------------- MODULE MCAsyncScheduler --------------------------
(***************************************************************************)
(* Instances of AsyncScheduler: small selections whose fields may come in  *)
(* every order, as values, as promises or as promises already settled.     *)
(***************************************************************************)
EXTENDS AsyncScheduler, TLC

CONSTANTS r1, c1, d1, o1, a1, x1, g1, y1,      \* the first operation
          r2, i1, i2, l2, a2, u1, u2,          \* the second
          r3, c3, d3, o3, a3, x3, g3, y3,      \* the third
          r4, i4, d4, l4, g4, y4               \* the fourth

\* Objects: { o { x g { y } } a }; whatever resolves may come as a promise.
\* A list of two items: { l { u } a }; so may the items.
\* Objects: { o { g { y } x } a }; only leaves come as promises, and resolvers
\* settle promises.
MCOps ==
  r1 :> <<o1, a1>> @@ c1 :> <<x1, g1>> @@ d1 :> <<y1>> @@
  r2 :> <<l2, a2>> @@ i1 :> <<u1>> @@ i2 :> <<u2>> @@
  r3 :> <<o3, a3>> @@ c3 :> <<g3, x3>> @@ d3 :> <<y3>>
MCChildren ==
  [f \in Fields |->
     CASE f = o1 -> <<c1>> [] f = g1 -> <<d1>> [] f = l2 -> <<i1, i2>>
       [] f = o3 -> <<c3>> [] f = g3 -> <<d3>> [] OTHER -> <<>>]
MCPromiseOf == [p \in Promises |-> p]

\* { l { g { y } } }, one item, whose g may come as a settled promise
NestedOps == r4 :> <<l4>> @@ i4 :> <<g4>> @@ d4 :> <<y4>>
NestedChildren == l4 :> <<i4>> @@ g4 :> <<d4>> @@ y4 :> <<>>

\* The second operation alone.
ListOps == r2 :> <<l2, a2>> @@ i1 :> <<u1>> @@ i2 :> <<u2>>
ListChildren == [f \in Fields |-> IF f = l2 THEN <<i1, i2>> ELSE <<>>]
=============================================================================
