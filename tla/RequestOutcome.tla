--------------------------- MODULE RequestOutcome ---------------------------
(***************************************************************************)
(* What a caller is promised about a request, whatever lane runs it: it    *)
(* ends once, answered or refused; it is answered only when every promise  *)
(* its resolvers returned has settled; and once it has ended no resolver   *)
(* of it is called again.  Lifecycle implements this.                      *)
(***************************************************************************)
CONSTANTS Requests,     \* requests of one process
          Fields        \* result positions a resolver may leave to a promise

VARIABLES waiting,      \* the promises a request's resolvers returned, unsettled
          outcome       \* what the caller has been told

vars == <<waiting, outcome>>

Outcomes == {"none", "pending", "answered", "refused"}

Init ==
  /\ waiting = [r \in Requests |-> {}]
  /\ outcome = [r \in Requests |-> "none"]

\* The request starts; its resolvers return promises, or it is refused at once.
Begin(r) ==
  /\ outcome[r] = "none"
  /\ \E S \in SUBSET Fields, o \in {"pending", "refused"} :
       /\ waiting' = [waiting EXCEPT ![r] = S]
       /\ outcome' = [outcome EXCEPT ![r] = o]

\* A promise settles; it may do so after the request has ended.
Settle(r, f) ==
  /\ f \in waiting[r]
  /\ waiting' = [waiting EXCEPT ![r] = @ \ {f}]
  /\ UNCHANGED outcome

\* The last promise settles and uncovers resolvers that return promises again.
SettleAndResolveMore(r, f) ==
  /\ waiting[r] = {f}
  /\ outcome[r] = "pending"
  /\ \E S \in SUBSET Fields : waiting' = [waiting EXCEPT ![r] = S]
  /\ UNCHANGED outcome

\* The last promise settles and the response promise is resolved with it.
SettleAndAnswer(r, f) ==
  /\ waiting[r] = {f}
  /\ outcome[r] = "pending"
  /\ waiting' = [waiting EXCEPT ![r] = {}]
  /\ outcome' = [outcome EXCEPT ![r] = "answered"]

Answer(r) ==
  /\ outcome[r] = "pending"
  /\ waiting[r] = {}
  /\ outcome' = [outcome EXCEPT ![r] = "answered"]
  /\ UNCHANGED waiting

Refuse(r) ==
  /\ outcome[r] = "pending"
  /\ outcome' = [outcome EXCEPT ![r] = "refused"]
  /\ UNCHANGED waiting

Next ==
  \E r \in Requests :
    \/ Begin(r)
    \/ Answer(r)
    \/ Refuse(r)
    \/ \E f \in Fields : \/ Settle(r, f)
                         \/ SettleAndResolveMore(r, f)
                         \/ SettleAndAnswer(r, f)

Spec == Init /\ [][Next]_vars
=============================================================================
