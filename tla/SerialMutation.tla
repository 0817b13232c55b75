---------------------------- MODULE SerialMutation ----------------------------
(***************************************************************************)
(* The executor of a mutation's root fields on the asynchronous lane: one  *)
(* operation after the other, with a continuation for an operation whose   *)
(* result is a promise.                                                    *)
(***************************************************************************)
EXTENDS Integers

CONSTANT Ops      \* operations of the root block: 1..Ops

VARIABLES next,      \* ctx->next_op_index
          called,    \* operations whose resolver was called
          entry,     \* pending entries of ctx->frame
          promise,   \* the promise each operation's answer depends on
          lane,      \* "steps": the loop runs, "idle": it has returned
          response   \* "none", "pending" (the frame's promise), "answered"

vars == <<next, called, entry, promise, lane, response>>

Fields == 1..Ops

\* What a resolver leaves: a value, a promise, or an object with a promise below.
Returned == {"value", "promise", "object"}

\* then_complete_current_sv parks a promise as an entry of the frame itself and
\* answers undef; an object that suspends is a frame handle.  An operation's
\* result is a promise only where there is no result name to park it under.
ResultOf(r) == IF r = "promise" THEN "undef" ELSE "handle"

Waiting == {i \in Fields : entry[i] = "waiting"}

Skipped ==
  /\ lane = "steps" /\ next \in Fields
  /\ next' = next + 1
  /\ UNCHANGED <<called, entry, promise, lane, response>>

\* The operation completes on the spot.
Completes ==
  /\ lane = "steps" /\ next \in Fields
  /\ called' = called \cup {next}
  /\ next' = next + 1
  /\ UNCHANGED <<entry, promise, lane, response>>

\* The operation suspends: a result that is no promise lets the loop go on.
Suspends ==
  /\ lane = "steps" /\ next \in Fields
  /\ \E r \in Returned \ {"value"} :
       /\ called' = called \cup {next}
       /\ entry' = [entry EXCEPT ![next] = "waiting"]
       /\ promise' = [promise EXCEPT ![next] = "pending"]
       /\ next' = next + 1
       /\ lane' = IF ResultOf(r) = "promise" THEN "idle" ELSE "steps"
       /\ UNCHANGED response

\* finalize_current_block_now: promises that settled while the loop ran settle
\* their entries as the frame is armed.
Finalize ==
  /\ lane = "steps" /\ next = Ops + 1
  /\ LET armed == [i \in Fields |-> IF promise[i] = "settled" THEN "none" ELSE entry[i]]
     IN  /\ entry' = armed
         /\ response' = IF \E i \in Fields : armed[i] = "waiting"
                        THEN "pending" ELSE "answered"
  /\ lane' = "idle"
  /\ UNCHANGED <<next, called, promise>>

\* A promise settles, before the frame is armed or after.  The step callback of
\* a promise result enters the loop again where it stopped.
Settle(i) ==
  /\ promise[i] = "pending"
  /\ promise' = [promise EXCEPT ![i] = "settled"]
  /\ IF lane = "idle"
     THEN /\ entry' = [entry EXCEPT ![i] = "none"]
          /\ lane' = IF next <= Ops THEN "steps" ELSE "idle"
          /\ response' = IF next > Ops /\ Waiting = {i} THEN "answered" ELSE response
     ELSE UNCHANGED <<entry, lane, response>>
  /\ UNCHANGED <<next, called>>

Init ==
  /\ next = 1
  /\ called = {}
  /\ entry = [i \in Fields |-> "none"]
  /\ promise = [i \in Fields |-> "none"]
  /\ lane = "steps"
  /\ response = "none"

Next ==
  \/ Skipped
  \/ Completes
  \/ Suspends
  \/ Finalize
  \/ \E i \in Fields : Settle(i)

Spec == Init /\ [][Next]_vars

-----------------------------------------------------------------------------
\* A resolver of a mutation's root field is called only when the promise of
\* every field before it has settled (execute_serial_mutation_steps).
MutationFieldsWaitTheirTurn ==
  \A i, j \in Fields :
    (i < j /\ promise[i] = "pending") => j \notin called
=============================================================================
