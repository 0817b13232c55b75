------------------------------ MODULE Lifecycle ------------------------------
(***************************************************************************)
(* The life of requests that wait for promises: armed callback pairs and   *)
(* the pool they are recycled through, the on_stall drivers (in C for the  *)
(* response hash, in Perl for JSON), cancellation, and promises that       *)
(* settle after the request was abandoned.  A hook may start and drive     *)
(* other requests, so drivers nest.  A request's response frame stands     *)
(* for its tree of frames (AsyncScheduler has the tree): a wave is the set *)
(* of promises its resolvers return before the scheduler stalls, and       *)
(* consuming one wave may call the resolvers of the next.                  *)
(***************************************************************************)
EXTENDS Integers, Sequences

CONSTANTS Requests,
          ModeChoices,    \* ways the application may execute its requests
          PromiseFields,  \* fields of a wave that hold a promise: 1..PromiseFields
          Lists,          \* fields of a wave that hold a list with a promised item
          Waves,          \* [Requests -> Nat]: bound, waves of promises of a request
          PoolMax,        \* GQL_VM_PENDING_CB_POOL_MAX
          DyingHooks,     \* modes whose on_stall hook may die
          NoRequest       \* what an idle pair points at

\* "c": on_stall, response hash; "perl": on_stall, JSON; "json": JSON of an
\* async runtime with no on_stall; "async": the caller holds the promise.
Modes == {"c", "perl", "json", "async"}
Driven == {"c", "perl"}
Promised == 1..PromiseFields
Fields == Promised \cup Lists

ASSUME ModeAssumption == ModeChoices \subseteq [Requests -> Modes]
ASSUME FieldAssumption == PromiseFields \in Nat /\ Lists \cap Promised = {}
ASSUME BoundAssumption == Waves \in [Requests -> Nat \ {0}] /\ PoolMax \in Nat
ASSUME HookAssumption == DyingHooks \subseteq Driven
ASSUME NoRequestAssumption == NoRequest \notin Requests

VARIABLES mode,       \* how each request is executed
          frame,      \* per request: wave, pending entries, their armed contexts
          promise,    \* per request and field: the promise of the current wave
          sub,        \* the pair a promise has subscribed, 0 for none
          heap,       \* callback pairs: where each points, and the pool
          completed,  \* completed_response_sv, or the resolved response promise
          cancelled,  \* cancel_exec_state has run
          outcome,    \* what the caller was told
          stack       \* the drivers that run, innermost last

vars == <<mode, frame, promise, sub, heap, completed, cancelled, outcome, stack>>

Idle == [req |-> NoRequest, field |-> 0]
Target == [req : Requests, field : Promised]
Frames == [wave : Nat, entry : [Fields -> {"none", "waiting", "ready"}],
           ctx : [Fields -> Nat]]
Drivers == [req : Requests, phase : {"loop", "hook"}, progress : BOOLEAN]

Absent == [f \in Fields |-> "none"]
NoPair == [f \in Fields |-> 0]

-----------------------------------------------------------------------------
(* Callback pairs. *)

Least(m, n) == IF m <= n THEN m ELSE n

\* The pair that the i-th promise of a wave gets: the pool's last first, then new.
TakenPair(h, i) ==
  IF i <= Len(h.pool) THEN h.pool[Len(h.pool) + 1 - i]
                      ELSE h.made + i - Len(h.pool)

FromPool(h) == Least(PromiseFields, Len(h.pool))

Armed(h, r) ==
  [made |-> h.made + PromiseFields - FromPool(h),
   to   |-> [c \in 1..(h.made + PromiseFields - FromPool(h)) |->
               IF \E i \in Promised : TakenPair(h, i) = c
               THEN [req |-> r,
                     field |-> CHOOSE i \in Promised : TakenPair(h, i) = c]
               ELSE h.to[c]],
   pool |-> SubSeq(h.pool, 1, Len(h.pool) - FromPool(h))]

PairsFor(h) == [f \in Fields |-> IF f \in Promised THEN TakenPair(h, f) ELSE 0]

RecycledPastTheLimit(h, c) ==
  [h EXCEPT !.to = [h.to EXCEPT ![c] = Idle], !.pool = Append(h.pool, c)]

\* A pair that fired goes back to the pool; past PoolMax it dies with its promise.
Recycled(h, c) ==
  [made |-> h.made,
   to   |-> [h.to EXCEPT ![c] = Idle],
   pool |-> IF Len(h.pool) < PoolMax THEN Append(h.pool, c) ELSE h.pool]

DisarmedIntoPool(h, S) ==
  [h EXCEPT !.to = [c \in 1..h.made |-> IF c \in S THEN Idle ELSE h.to[c]],
            !.pool = IF S = {} THEN h.pool ELSE Append(h.pool, CHOOSE c \in S : TRUE)]

\* Cancellation disarms the pairs it finds in the entries and pools none of them.
Disarmed(h, S) ==
  [made |-> h.made,
   to   |-> [c \in 1..h.made |-> IF c \in S THEN Idle ELSE h.to[c]],
   pool |-> h.pool]

ArmedContexts(r) == {frame[r].ctx[f] : f \in Fields} \ {0}

-----------------------------------------------------------------------------
(* A frame. *)

Waiting(entry) == {f \in Fields : entry[f] = "waiting"}
NextWave(fr, h) == [wave |-> fr.wave + 1,
                    entry |-> [f \in Fields |-> "waiting"],
                    ctx |-> PairsFor(h)]
Emptied(fr) == [wave |-> fr.wave, entry |-> Absent, ctx |-> NoPair]
EntryReady(fr, f) ==
  [wave |-> fr.wave, entry |-> [fr.entry EXCEPT ![f] = "ready"], ctx |-> fr.ctx]
ReadyConsumed(fr) ==
  [wave  |-> fr.wave,
   entry |-> [f \in Fields |-> IF fr.entry[f] = "ready" THEN "none" ELSE fr.entry[f]],
   ctx   |-> [f \in Fields |-> IF fr.entry[f] = "ready" THEN 0 ELSE fr.ctx[f]]]

\* Consuming the last entries calls resolvers that return promises again.
StartsWave(q, fr) ==
  fr.entry # Absent /\ Waiting(fr.entry) = {} /\ fr.wave < Waves[q]

\* The frame has nothing left to wait for: it is resolved.  A frame that
\* cancellation emptied looks the same.
Resolves(q, fr) ==
  fr.entry = Absent \/ (Waiting(fr.entry) = {} /\ fr.wave >= Waves[q])

FrameAfter(q, fr, h) ==
  IF StartsWave(q, fr) THEN NextWave(fr, h)
  ELSE IF Resolves(q, fr) THEN Emptied(fr)
  ELSE ReadyConsumed(fr)

\* process_frame on request q, whose frame has become fr.  A pair that fired
\* (0: none) is recycled last, after the drain it caused; p is the promise
\* table with the settled promise marked.
ProcessFrame(q, fr, fired, p) ==
  /\ frame' = [frame EXCEPT ![q] = FrameAfter(q, fr, heap)]
  /\ LET h == IF StartsWave(q, fr) THEN Armed(heap, q) ELSE heap
     IN  heap' = IF fired = 0 THEN h ELSE Recycled(h, fired)
  /\ promise' = IF StartsWave(q, fr)
                THEN [p EXCEPT ![q] = [f \in Fields |-> "pending"]] ELSE p
  /\ sub' = IF StartsWave(q, fr) THEN [sub EXCEPT ![q] = PairsFor(heap)] ELSE sub
  /\ completed' = [completed EXCEPT ![q] = @ \/ Resolves(q, fr)]
  /\ outcome' = IF Resolves(q, fr) /\ mode[q] = "async"
                THEN [outcome EXCEPT ![q] = "answered"] ELSE outcome
  /\ UNCHANGED <<mode, cancelled>>

-----------------------------------------------------------------------------
(* What runs: nothing, or the innermost driver. *)

Depth == Len(stack)
Top == stack[Depth]
Popped == SubSeq(stack, 1, Depth - 1)
InLoop == Depth > 0 /\ Top.phase = "loop"
InHook == Depth > 0 /\ Top.phase = "hook"
UserCodeRuns == Depth = 0 \/ InHook

TopIn(phase, progress) ==
  [stack EXCEPT ![Depth] =
     [req |-> Top.req, phase |-> phase, progress |-> progress]]

\* The hook that runs dispatched something: it will report progress.
Progressed == IF InHook THEN TopIn("hook", TRUE) ELSE stack

-----------------------------------------------------------------------------
(* Requests start. *)

ArmsFirstWave(r, h) ==
  /\ promise' = [promise EXCEPT ![r] = [f \in Fields |-> "pending"]]
  /\ sub' = [sub EXCEPT ![r] = PairsFor(heap)]
  /\ heap' = h
  /\ UNCHANGED <<mode, completed>>

\* The request runs until every field has completed or waits.
Start(r) ==
  /\ UserCodeRuns
  /\ outcome[r] = "none"
  /\ mode[r] # "json"
  /\ ArmsFirstWave(r, Armed(heap, r))
  /\ frame' = [frame EXCEPT ![r] = NextWave(@, heap)]
  /\ outcome' = [outcome EXCEPT ![r] = "pending"]
  /\ stack' = IF mode[r] \in Driven
              THEN Append(stack, [req |-> r, phase |-> "loop", progress |-> FALSE])
              ELSE stack
  /\ UNCHANGED cancelled

\* A pending response that cannot be driven is cancelled on the spot: JSON with
\* no on_stall, or an adapter that refuses the driver's then().
StartRefused(r) ==
  /\ UserCodeRuns
  /\ outcome[r] = "none"
  /\ mode[r] # "async"
  /\ ArmsFirstWave(r, Disarmed(Armed(heap, r), {TakenPair(heap, i) : i \in Promised}))
  /\ frame' = [frame EXCEPT ![r] = Emptied(NextWave(@, heap))]
  /\ outcome' = [outcome EXCEPT ![r] = "refused"]
  /\ cancelled' = [cancelled EXCEPT ![r] = TRUE]
  /\ UNCHANGED stack

-----------------------------------------------------------------------------
(* Promises settle, in whatever order the application likes. *)

Settled(r, f) == [promise EXCEPT ![r][f] = "settled"]

\* pending_callback_resolve_direct, pending_callback_reject_direct.  The pair a
\* promise subscribed says which entry is settled; a disarmed one says nothing.
SettlePromise(r, f) ==
  LET c == sub[r][f]
      t == heap.to[c]
      reaches == t # Idle /\ frame[t.req].entry[t.field] # "none"
      fr == EntryReady(frame[t.req], t.field)
  IN /\ UserCodeRuns
     /\ promise[r][f] = "pending"
     /\ stack' = Progressed
     /\ \/ /\ ~reaches
           /\ promise' = Settled(r, f)
           /\ UNCHANGED <<mode, frame, sub, heap, completed, cancelled, outcome>>
        \/ /\ reaches
           /\ Waiting(fr.entry) # {}
           /\ frame' = [frame EXCEPT ![t.req] = fr]
           /\ heap' = Recycled(heap, c)
           /\ promise' = Settled(r, f)
           /\ UNCHANGED <<mode, sub, completed, cancelled, outcome>>
        \/ /\ reaches
           /\ Waiting(fr.entry) = {}
           /\ ProcessFrame(t.req, fr, c, Settled(r, f))

\* xs_list_pending_callback: the list's last item settles.  It keeps the owner
\* frame itself, so a cancelled one is drained all the same.
SettleItem(r, l) ==
  /\ UserCodeRuns
  /\ promise[r][l] = "pending"
  /\ stack' = Progressed
  /\ LET fr == IF frame[r].entry[l] = "waiting" THEN EntryReady(frame[r], l) ELSE frame[r]
     IN  ProcessFrame(r, fr, 0, Settled(r, l))

-----------------------------------------------------------------------------
(* Drivers. *)

CancelEntriesOnly(r) ==
  /\ frame' = [frame EXCEPT ![r] = Emptied(@)]
  /\ cancelled' = [cancelled EXCEPT ![r] = TRUE]
  /\ UNCHANGED <<mode, promise, sub, heap, completed>>

\* cancel_exec_state: disarm what the entries still name, then drop them.
Cancel(r) ==
  /\ heap' = Disarmed(heap, ArmedContexts(r))
  /\ frame' = [frame EXCEPT ![r] = Emptied(@)]
  /\ cancelled' = [cancelled EXCEPT ![r] = TRUE]
  /\ UNCHANGED <<mode, promise, sub, completed>>

NotCancelled == UNCHANGED <<mode, frame, promise, sub, heap, completed, cancelled>>

DriverReturns ==
  /\ InLoop
  /\ completed[Top.req]
  /\ outcome' = [outcome EXCEPT ![Top.req] = "answered"]
  /\ stack' = Popped
  /\ NotCancelled

CallHook ==
  /\ InLoop
  /\ ~completed[Top.req]
  /\ stack' = TopIn("hook", FALSE)
  /\ UNCHANGED outcome
  /\ NotCancelled

HookAlwaysHelps == TRUE
HookHelps == completed[Top.req] \/ Top.progress

HookReturns ==
  /\ InHook
  /\ HookHelps
  /\ stack' = TopIn("loop", Top.progress)
  /\ UNCHANGED outcome
  /\ NotCancelled

\* "GraphQL execution stalled"
HookStalls ==
  /\ InHook
  /\ ~HookHelps
  /\ Cancel(Top.req)
  /\ outcome' = [outcome EXCEPT ![Top.req] = "refused"]
  /\ stack' = Popped

HookDiesUncancelled ==
  /\ InHook
  /\ mode[Top.req] \in DyingHooks
  /\ outcome' = [outcome EXCEPT ![Top.req] = "refused"]
  /\ stack' = Popped
  /\ NotCancelled

\* The C driver cancels and dies again; the Perl driver only lets it through.
HookDies ==
  /\ InHook
  /\ mode[Top.req] \in DyingHooks
  /\ outcome' = [outcome EXCEPT ![Top.req] = "refused"]
  /\ stack' = Popped
  /\ IF mode[Top.req] = "c" THEN Cancel(Top.req) ELSE NotCancelled

-----------------------------------------------------------------------------
Init ==
  /\ mode \in ModeChoices
  /\ frame = [r \in Requests |-> [wave |-> 0, entry |-> Absent, ctx |-> NoPair]]
  /\ promise = [r \in Requests |-> [f \in Fields |-> "none"]]
  /\ sub = [r \in Requests |-> NoPair]
  /\ heap = [made |-> 0, to |-> <<>>, pool |-> <<>>]
  /\ completed = [r \in Requests |-> FALSE]
  /\ cancelled = [r \in Requests |-> FALSE]
  /\ outcome = [r \in Requests |-> "none"]
  /\ stack = <<>>

DriverStep == DriverReturns \/ CallHook \/ HookReturns \/ HookStalls \/ HookDies

UserStep ==
  \E r \in Requests :
    \/ Start(r)
    \/ StartRefused(r)
    \/ \E f \in Promised : SettlePromise(r, f)
    \/ \E l \in Lists : SettleItem(r, l)

Next == DriverStep \/ UserStep

Spec == Init /\ [][Next]_vars

\* A hook returns; nothing is assumed of promises.
FairSpec == Spec /\ WF_vars(DriverStep)

-----------------------------------------------------------------------------
(* Properties. *)

\* Frames, promises, pairs and drivers hold what the C and Perl code put there;
\* pooled pairs were made before and a pooled pair is pooled once.
TypeOK ==
  /\ mode \in [Requests -> Modes]
  /\ frame \in [Requests -> Frames]
  /\ promise \in [Requests -> [Fields -> {"none", "pending", "settled"}]]
  /\ sub \in [Requests -> [Fields -> 0..heap.made]]
  /\ heap.made \in Nat
  /\ heap.to \in [1..heap.made -> Target \cup {Idle}]
  /\ heap.pool \in Seq(1..heap.made)
  /\ Len(heap.pool) <= PoolMax
  /\ completed \in [Requests -> BOOLEAN]
  /\ cancelled \in [Requests -> BOOLEAN]
  /\ outcome \in [Requests -> {"none", "pending", "answered", "refused"}]
  /\ stack \in Seq(Drivers)

PendingPromises ==
  {p \in Requests \X Promised : promise[p[1]][p[2]] = "pending"}
PairOf(p) == sub[p[1]][p[2]]

\* A pair is handed on when it fires: whatever fires later, the promise that
\* holds a pair settles its own entry or nothing, never one of another field
\* or another request (pending_callback_pair_recycle, pending_callback_ctx_disarm).
CallbackSettlesItsOwnEntry ==
  \A p \in PendingPromises :
    /\ heap.to[PairOf(p)] \in {Idle, [req |-> p[1], field |-> p[2]]}
    /\ \A i \in 1..Len(heap.pool) : heap.pool[i] # PairOf(p)
    /\ \A q \in PendingPromises : PairOf(q) = PairOf(p) => q = p

\* A cancelled request is torn down: no entry of its frame is left and no pair
\* keeps the frame and the exec state alive, now or after late promises
\* (gql_runtime_vm_cancel_frame_tree: the reference cycle is broken).
CancelledIsTornDown ==
  \A r \in Requests :
    cancelled[r] => /\ frame[r].entry = Absent
                    /\ \A c \in 1..heap.made : heap.to[c].req # r

\* A request nobody cancelled can still be answered: the promise a waiting entry
\* waits for holds a pair that points at the entry
\* (gql_runtime_vm_async_scheduler_arm_frame).
WaitingEntriesStayArmed ==
  \A r \in Requests, f \in Promised :
    frame[r].entry[f] = "waiting" =>
      heap.to[sub[r][f]] = [req |-> r, field |-> f]

WaitingPromises ==
  [r \in Requests |-> {f \in Fields : promise[r][f] = "pending"}]

Contract == INSTANCE RequestOutcome WITH waiting <- WaitingPromises

\* A request ends once, answered only when all its promises have settled, and
\* no resolver of it is called after it has ended (_settle_result,
\* gql_runtime_vm_drive_with_on_stall_sv).
ImplementsOutcome == Contract!Spec

\* Whatever hooks do and however drivers nest, a request that is driven ends:
\* the driver calls a hook that makes no progress only once.
DrivenRequestsEnd ==
  \A r \in Requests :
    (outcome[r] = "pending" /\ mode[r] \in Driven) ~> (outcome[r] # "pending")
=============================================================================
