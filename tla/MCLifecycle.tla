----------------------------- MODULE MCLifecycle -----------------------------
(***************************************************************************)
(* Small instances of Lifecycle for TLC.                                   *)
(***************************************************************************)
EXTENDS Lifecycle, TLC

CONSTANTS r1, r2, l1

Modes2(m1, m2) == [r \in Requests |-> IF r = r1 THEN m1 ELSE m2]
MCModeChoices == {Modes2("c", "perl"), Modes2("perl", "c"), Modes2("c", "async")}

\* The second request calls resolvers that return promises twice.
MCWaves == [r \in Requests |-> IF r = r2 THEN 2 ELSE 1]
=============================================================================
