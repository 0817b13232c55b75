--------------------------- MODULE AsyncScheduler ---------------------------
(***************************************************************************)
(* The resumable executor of Houtou.xs: one asynchronous request, from the *)
(* root block to the response.                                             *)
(*                                                                         *)
(* Executing a block of a selection calls a resolver per field.  A field   *)
(* whose resolver returns a promise becomes a pending entry of the block's *)
(* frame; a child block with pending entries of its own becomes an entry   *)
(* of its parent; a list with pending items becomes a list-pending entry.  *)
(* Frames whose entries have settled go to a LIFO ready queue that one     *)
(* drain at a time works off: it rebuilds the frame's entry array,         *)
(* completes what has settled (which may execute more blocks) and resolves *)
(* the frame into its parent once nothing is left.                         *)
(*                                                                         *)
(* The C call stack is part of the state (stack, innermost last), because  *)
(* resolvers are user code called from deep inside these loops, and may    *)
(* settle promises before they return (Reentrant).                         *)
(*                                                                         *)
(* The response is abstracted to a finite tree of block instances; what a  *)
(* position of it resolves to is fixed in Init (answer), while whether it  *)
(* comes as a value or as a promise, and when a promise settles, is up to  *)
(* the resolvers.  The response must not depend on the latter.             *)
(***************************************************************************)
EXTENDS Integers, Sequences, FiniteSets, Functions

CONSTANTS
  Blocks,           \* block instances, of one operation or of several
  Roots,            \* the root blocks of the operations that may be executed
  Fields,           \* field instances
  Ops,              \* the fields of each block, in order
  Children,         \* field -> child block, or the item blocks of a list
  Lists,            \* the list-typed fields
  NonNull,          \* the fields of a non-null type
  ItemNonNull,      \* the list fields whose items are non-null
  Promises,         \* promises and tickets the resolvers hand out
  PromiseOf,        \* the positions that may come as a promise, and as which
  FieldAnswers,     \* what a field may resolve to
  ItemAnswers,      \* what a list item may be
  Eager,            \* promises that may already be settled when returned
  Reentrant,        \* operations whose resolvers may settle promises before they
                    \* return
  None

ASSUME TypesAssumption ==
  /\ Roots \subseteq Blocks
  /\ Ops \in [Blocks -> Seq(Fields)]
  /\ Children \in [Fields -> Seq(Blocks)]
  /\ Lists \subseteq Fields /\ NonNull \subseteq Fields
  /\ ItemNonNull \subseteq Lists /\ Eager \subseteq Promises
  /\ Reentrant \subseteq Roots
  /\ None \notin Blocks \cup Fields \cup Nat
  /\ None \notin [kind : {"frame", "list", "outcome"},
                  of : Blocks \cup Fields \cup {None}, null : BOOLEAN]
  /\ Blocks \cap Fields = {}

ASSUME ResponseAssumption == None \notin {"data", "null"}

\* The instances form trees: a field is at one position of one block, a block
\* that is no root is the child of one field, an item at one position of one
\* list; a field that is not a list has at most one child.
ASSUME TreeAssumption ==
  /\ \A f \in Fields : \E b \in Blocks : \E i \in 1 .. Len(Ops[b]) :
       Ops[b][i] = f
  /\ \A a, b \in Blocks :
       \A i \in 1 .. Len(Ops[a]), j \in 1 .. Len(Ops[b]) :
         Ops[a][i] = Ops[b][j] => a = b /\ i = j
  /\ \A f, g \in Fields :
       \A i \in 1 .. Len(Children[f]), j \in 1 .. Len(Children[g]) :
         Children[f][i] = Children[g][j] => f = g /\ i = j
  /\ \A f \in Fields : \A i \in 1 .. Len(Children[f]) :
       Children[f][i] \notin Roots
  /\ \A f \in Fields \ Lists : Len(Children[f]) <= 1

AnswerSet == {"value", "null", "error"}
ASSUME AnswersAssumption ==
  FieldAnswers \subseteq AnswerSet /\ ItemAnswers \subseteq AnswerSet

Home(f) == CHOOSE b \in Blocks : f \in Range(Ops[b])
Items == UNION {Range(Children[f]) : f \in Lists}
ListOf(b) == CHOOSE f \in Lists : b \in Range(Children[f])
Positions == Fields \cup Items

ASSUME PromisesAssumption ==
  DOMAIN PromiseOf \subseteq Positions /\ Range(PromiseOf) \subseteq Promises

\* The trees grow from the roots, and have a finite depth: in every set of blocks
\* there is one that is no child of a field of another.
ASSUME NestingAssumption ==
  /\ \A b \in Blocks \ Roots : \E f \in Fields : b \in Range(Children[f])
  /\ \A S \in SUBSET Blocks : S # {} =>
       \E b \in S : \A f \in Fields : b \in Range(Children[f]) => Home(f) \notin S

VARIABLES
  answer,      \* what each position resolves to
  promise,     \* pending or settled
  subs,        \* the positions waiting for each promise
  entries,     \* pending_entries of each frame
  unresolved,  \* pending_unresolved of each frame
  life,        \* none, running, suspended, done
  nulled,      \* self_nulled
  link,        \* parent_entry_index of an object child's frame, 0 if unlinked
  ctx,         \* entry_index of a field's armed callback pair, 0 if none
  item,        \* the slot of a list item: its value, and how it came
  left,        \* unresolved_count of a list's pending items, None before
  owned,       \* lists whose owner_frame is set
  ready,       \* async_ready_frames
  draining,    \* async_scheduler_draining
  stack,       \* the C call stack
  ret,         \* what the innermost call has returned to its caller
  values,      \* the response value of each field
  errors,      \* how often an error was recorded at a position
  response     \* the completed response

tree == <<values, nulled, errors>>
lists == <<item, left, owned>>
frames == <<entries, unresolved, link, ctx, life>>
promiseVars == <<promise, subs>>
control == <<ready, draining, stack, ret>>
vars == <<answer, promise, subs, entries, unresolved, life, nulled, link, ctx,
          item, left, owned, ready, draining, stack, ret, values, errors,
          response>>

\* Activation records.  index counts the operations, items or entries done;
\* waiting are the subscribers still to be called, current the item whose
\* block one of them runs.
OpLoop(b, i) == [at |-> "block", block |-> b, index |-> i]
ItemLoop(f, i) == [at |-> "list", field |-> f, index |-> i]
DrainLoop == [at |-> "drain"]
ProcessLoop(b, i, next) ==
  [at |-> "process", block |-> b, index |-> i, next |-> next]
ResolveCall(b) == [at |-> "resolve", block |-> b]
SettleLoop(waiting, current) ==
  [at |-> "settle", waiting |-> waiting, current |-> current]

\* The root block of the operation that is being executed.
Executed == CHOOSE b \in Roots : life[b] # "none"

Innermost == stack[Len(stack)]
Running(at) == stack # <<>> /\ Innermost.at = at
Push(a) == Append(stack, a)
Top(a) == [stack EXCEPT ![Len(stack)] = a]
Pop == SubSeq(stack, 1, Len(stack) - 1)

\* The loop a has done one more.
Advanced(a) ==
  CASE a.at = "block" -> OpLoop(a.block, a.index + 1)
    [] a.at = "list" -> ItemLoop(a.field, a.index + 1)
    [] a.at = "process" -> ProcessLoop(a.block, a.index + 1, a.next)
Advance == Top(Advanced(Innermost))

\* A frame is on frame_stack until its finalize has returned.
Executing(b) == \E i \in 1 .. Len(stack) :
                  stack[i].at = "block" /\ stack[i].block = b

-----------------------------------------------------------------------------
(* Consuming a completed field: store its value, and enforce Non-Null.     *)

Bump(counts, S) == [e \in DOMAIN counts |->
                      IF e \in S THEN counts[e] + 1 ELSE counts[e]]

\* Mutant: a null that carries its error is
\* reported once more.
ConsumeReportsTwice(b, f, null, carries, raised) ==
  /\ values' = [values EXCEPT ![f] = IF null THEN "null" ELSE "value"]
  /\ nulled' = [nulled EXCEPT ![b] = @ \/ (null /\ f \in NonNull)]
  /\ errors' = Bump(errors,
       (IF raised THEN {<<"raised", f>>} ELSE {})
         \cup (IF null /\ f \in NonNull THEN {<<"nonnull", f>>} ELSE {}))

Consume(b, f, null, carries, raised) ==
  /\ values' = [values EXCEPT ![f] = IF null THEN "null" ELSE "value"]
  /\ nulled' = [nulled EXCEPT ![b] = @ \/ (null /\ f \in NonNull)]
  /\ errors' = Bump(errors,
       (IF raised THEN {<<"raised", f>>} ELSE {})
         \cup (IF null /\ f \in NonNull /\ ~carries
               THEN {<<"nonnull", f>>} ELSE {}))

\* Completing field f of frame b with what it resolved to: an error, null or a
\* leaf is consumed at once, an object executes its child block and a list
\* its items.
CompleteField(b, f, result) ==
  IF result = "value" /\ (f \in Lists \/ Children[f] # <<>>)
  THEN /\ stack' = Push(IF f \in Lists THEN ItemLoop(f, 0)
                        ELSE OpLoop(Children[f][1], 0))
       /\ life' = IF f \in Lists THEN life
                  ELSE [life EXCEPT ![Children[f][1]] = "running"]
       /\ UNCHANGED tree
  ELSE /\ Consume(b, f, result # "value", result = "error", result = "error")
       /\ stack' = Advance
       /\ UNCHANGED life

-----------------------------------------------------------------------------
(* The ready queue                                                         *)

Enqueued(b, queue) ==
  IF b \in Range(queue) THEN queue ELSE Append(queue, b)

\* resolve_frame clears the slots of the ready queue that hold the frame.
Dequeued(b) ==
  [i \in 1 .. Len(ready) |-> IF ready[i] = b THEN None ELSE ready[i]]

\* Enqueue b when asked to, and start a drain unless one is running.
EnqueueAndDrain(wanted, b, queue, newStack) ==
  /\ ready' = IF wanted THEN Enqueued(b, queue) ELSE queue
  /\ draining' = (draining \/ wanted)
  /\ stack' = IF wanted /\ ~draining THEN Append(newStack, DrainLoop)
              ELSE newStack

-----------------------------------------------------------------------------
(* Arming a frame.  It runs with draining set and calls no user code, so   *)
(* it is one step: each unarmed promise is subscribed to, and one that has *)
(* already settled stores its entry at once.                               *)

Entry(f, kind, state) == [field |-> f, kind |-> kind, state |-> state]

SettledAtOnce(e) ==
  e.state = "unarmed" /\ promise[PromiseOf[e.field]] = "settled"

Waits(e) ==
  /\ e.state # "ready"
  /\ ~SettledAtOnce(e)
  /\ ~(e.kind = "list" /\ left[e.field] = 0)

ArmedEntry(e) ==
  IF e.state # "unarmed" THEN e
  ELSE Entry(e.field, e.kind, IF SettledAtOnce(e) THEN "ready" ELSE "armed")

\* What settled is stored in the entry at index i.
Stored(es, i) == [es EXCEPT ![i] = Entry(es[i].field, es[i].kind, "ready")]

WaitingCount(es) == Cardinality({i \in 1 .. Len(es) : Waits(es[i])})

\* A callback that fires while arming finds the count at 0 when no entry
\* before it waits, and enqueues the frame although later entries may wait.
EnqueuedByArm(es) ==
  \E i \in 1 .. Len(es) :
    SettledAtOnce(es[i]) /\ \A j \in 1 .. i - 1 : ~Waits(es[j])

\* The entries that arm a callback pair and wait for it.
ArmsAt(es, f) ==
  {i \in 1 .. Len(es) :
     es[i].field = f /\ es[i].state = "unarmed" /\ Waits(es[i])}

ArmFrame(b, es) ==
  /\ entries' = [entries EXCEPT
       ![b] = [i \in 1 .. Len(es) |-> ArmedEntry(es[i])]]
  /\ unresolved' = [unresolved EXCEPT ![b] = WaitingCount(es)]
  /\ ctx' = [f \in Fields |->
       IF ArmsAt(es, f) # {} THEN CHOOSE i \in ArmsAt(es, f) : TRUE
       ELSE ctx[f]]
  /\ subs' = [p \in Promises |->
       subs[p] \cup {f \in DOMAIN PromiseOf :
                      PromiseOf[f] = p /\ ArmsAt(es, f) # {}}]

-----------------------------------------------------------------------------
(* The operation loop of a block                                           *)

\* The position comes as a promise: pending, or settled before it is returned.
ReturnsPromise(p) ==
  \/ UNCHANGED promise
  \/ /\ p \in Eager /\ promise[p] = "pending" /\ subs[p] = {}
     /\ promise' = [promise EXCEPT ![p] = "settled"]

InOpLoop(b) ==
  /\ ret = None
  /\ Running("block")
  /\ Innermost.block = b
  /\ Innermost.index < Len(Ops[b])

CurrentField == Ops[Innermost.block][Innermost.index + 1]

ResolverReturnsValue(b) ==
  /\ InOpLoop(b)
  /\ CompleteField(b, CurrentField, answer[CurrentField])
  /\ UNCHANGED <<answer, promiseVars, entries, unresolved, link, ctx, lists,
                 ready, draining, ret, response>>

ResolverReturnsPromise(b) ==
  /\ InOpLoop(b)
  /\ CurrentField \in DOMAIN PromiseOf
  /\ ReturnsPromise(PromiseOf[CurrentField])
  /\ entries' = [entries EXCEPT ![b] =
       Append(@, Entry(CurrentField, "promise", "unarmed"))]
  /\ stack' = Advance
  /\ UNCHANGED <<answer, subs, unresolved, life, link, ctx, tree, lists, ready,
                 draining, ret, response>>

\* What a completion returned, as an entry of the frame that adopts it.
AdoptedEntry(f) ==
  Entry(f, IF ret.kind = "frame" THEN "block" ELSE "list", "armed")

\* Adopting a pending list sets its owner_frame.
Adopts(f) == owned \cup {f}

\* consume_current_result_now: a sync outcome is consumed; a child frame or a
\* pending list is pushed, and a child frame with nothing left to wait for is
\* enqueued and drained on the spot.
BlockTakesResult(b) ==
  /\ ret # None
  /\ Running("block") /\ Innermost.block = b
  /\ ret' = None
  /\ LET f == CurrentField IN
     \/ /\ ret.kind = "outcome"
        /\ Consume(b, f, ret.null, TRUE, FALSE)
        /\ stack' = Advance
        /\ UNCHANGED <<frames, owned, ready, draining>>
     \/ /\ ret.kind \in {"frame", "list"}
        /\ entries' = [entries EXCEPT ![b] = Append(@, AdoptedEntry(f))]
        /\ unresolved' = [unresolved EXCEPT ![b] = @ + 1]
        /\ IF ret.kind = "frame"
           THEN /\ link' = [link EXCEPT ![ret.of] = Len(entries'[b])]
                /\ EnqueueAndDrain(unresolved[ret.of] = 0, ret.of, ready, Advance)
                /\ UNCHANGED owned
           ELSE /\ owned' = Adopts(f)
                /\ stack' = Advance
                /\ UNCHANGED <<link, ready, draining>>
        /\ UNCHANGED <<ctx, life, tree>>
  /\ UNCHANGED <<answer, promiseVars, item, left, response>>

-----------------------------------------------------------------------------
(* finalize: a frame with nothing pending returns its outcome, any other   *)
(* is armed and suspended.  An object child (mode 1) returns the frame; a  *)
(* list item (mode 2) and the root (mode 0) return a promise, after        *)
(* draining what arming has already settled, while still on frame_stack.   *)

Returns(r) == stack' = Pop /\ ret' = r

Frame(b) == [kind |-> "frame", of |-> b, null |-> FALSE]
Outcome(null) == [kind |-> "outcome", of |-> None, null |-> null]

Finalizing(b, step) ==
  /\ ret = None
  /\ Running("block") /\ Innermost.block = b
  /\ Innermost.index = Len(Ops[b]) + step

FinalizeComplete(b) ==
  /\ Finalizing(b, 0)
  /\ entries[b] = <<>>
  /\ life' = [life EXCEPT ![b] = "done"]
  /\ IF b \in Roots
     THEN /\ response' = IF nulled[b] THEN "null" ELSE "data"
          /\ stack' = Pop
          /\ UNCHANGED ret
     ELSE Returns(Outcome(nulled[b])) /\ UNCHANGED response
  /\ UNCHANGED <<answer, promiseVars, entries, unresolved, link, ctx, tree,
                 lists, ready, draining>>

FinalizeSuspends(b) ==
  /\ Finalizing(b, 0)
  /\ entries[b] # <<>>
  /\ ArmFrame(b, entries[b])
  /\ life' = [life EXCEPT ![b] = "suspended"]
  /\ LET settled == WaitingCount(entries[b]) = 0 IN
     IF b \in Roots \cup Items
     THEN /\ ready' = IF settled \/ EnqueuedByArm(entries[b])
                      THEN Enqueued(b, ready) ELSE ready
          /\ draining' = (draining \/ settled)
          /\ IF settled /\ ~draining
             THEN stack' = Append(Advance, DrainLoop) /\ UNCHANGED ret
             ELSE /\ stack' = Pop
                  /\ ret' = IF b \in Roots THEN None ELSE Frame(b)
     ELSE /\ ready' = IF EnqueuedByArm(entries[b]) THEN Enqueued(b, ready) ELSE ready
          /\ Returns(Frame(b))
          /\ UNCHANGED draining
  /\ UNCHANGED <<answer, promise, link, tree, lists, response>>

\* After the drain: a root that is complete again is enqueued and drained
\* once more; a list item returns the promise of its frame.
FinalizeReturns(b) ==
  /\ \/ Finalizing(b, 1) \/ Finalizing(b, 2)
  /\ IF b \in Roots /\ Finalizing(b, 1) /\ response = None /\ unresolved[b] = 0
     THEN EnqueueAndDrain(TRUE, b, ready, Advance) /\ UNCHANGED ret
     ELSE /\ stack' = Pop
          /\ ret' = IF b \in Roots THEN None ELSE Frame(b)
          /\ UNCHANGED <<ready, draining>>
  /\ UNCHANGED <<answer, promiseVars, frames, tree, lists, response>>

-----------------------------------------------------------------------------
(* Completing a list: each item is a value, whose block is executed, or a  *)
(* promise; then the list is assembled, or parked as a list-pending entry. *)

Slot(value, promised, carries) ==
  [value |-> value, promised |-> promised, carries |-> carries]

InItemLoop(f) ==
  /\ ret = None
  /\ Running("list") /\ Innermost.field = f

CurrentItem == Children[Innermost.field][Innermost.index + 1]

\* The item is known: null and errors complete it, a value runs its block.
CompleteItem(b, promised) ==
  IF answer[b] = "value"
  THEN /\ item' = [item EXCEPT ![b] = Slot("none", promised, FALSE)]
       /\ stack' = Push(OpLoop(b, 0))
       /\ life' = [life EXCEPT ![b] = "running"]
  ELSE /\ item' = [item EXCEPT ![b] =
            Slot("null", promised, answer[b] = "error")]
       /\ stack' = Advance
       /\ UNCHANGED life

ItemIsValue(f) ==
  /\ InItemLoop(f)
  /\ Innermost.index < Len(Children[f])
  /\ CompleteItem(CurrentItem, FALSE)
  /\ UNCHANGED <<answer, promiseVars, entries, unresolved, link, ctx, left,
                 owned, tree, ready, draining, ret, response>>

\* then() on a settled promise runs the item's callback at once.
ItemIsPromise(f) ==
  /\ InItemLoop(f)
  /\ Innermost.index < Len(Children[f])
  /\ CurrentItem \in DOMAIN PromiseOf
  /\ LET b == CurrentItem
         p == PromiseOf[b]
     IN  /\ ReturnsPromise(p)
         /\ IF promise'[p] = "settled"
            THEN CompleteItem(b, TRUE) /\ UNCHANGED subs
            ELSE /\ subs' = [subs EXCEPT ![p] = @ \cup {b}]
                 /\ item' = [item EXCEPT ![b] = Slot("none", TRUE, FALSE)]
                 /\ stack' = Advance
                 /\ UNCHANGED life
  /\ UNCHANGED <<answer, entries, unresolved, link, ctx, left, owned, tree,
                 ready, draining, ret, response>>

\* An item block completed, or suspended: then the item is its promise, which
\* a drain may have settled already.
ListTakesResult(f) ==
  /\ ret # None
  /\ Running("list") /\ Innermost.field = f
  /\ ret' = None
  /\ stack' = Advance
  /\ item' = IF ret.kind = "frame"
             THEN [item EXCEPT ![CurrentItem] =
                     Slot(item[CurrentItem].value, TRUE,
                          item[CurrentItem].carries)]
             ELSE [item EXCEPT ![CurrentItem] =
                     Slot(IF ret.null THEN "null" ELSE "value",
                          item[CurrentItem].promised, ret.null)]
  /\ UNCHANGED <<answer, promiseVars, frames, left, owned, tree, ready,
                 draining, response>>

ItemsOf(f) == Range(Children[f])
NullItems(f) == {b \in ItemsOf(f) : item[b].value = "null"}
\* (Mutant: a null item never nulls its list.)
ListNullsNever(f) == FALSE
ListNulls(f) == f \in ItemNonNull /\ NullItems(f) # {}

\* Every item came as a value: its errors are surfaced, and a null in a
\* non-null position that carries no error gets one.
ListComplete(f) ==
  /\ InItemLoop(f)
  /\ Innermost.index = Len(Children[f])
  /\ \A b \in ItemsOf(f) : ~item[b].promised
  /\ errors' = Bump(errors,
       {<<"raised", b>> : b \in {c \in ItemsOf(f) : answer[c] = "error"}}
         \cup {<<"nonnull", b>> : b \in
                 {c \in NullItems(f) : f \in ItemNonNull /\ ~item[c].carries}})
  /\ Returns(Outcome(ListNulls(f)))
  /\ UNCHANGED <<answer, promiseVars, frames, values, nulled, lists, ready,
                 draining, response>>

\* list_pending_handle_sv: subscribe to the items still pending.  A promised
\* item that has settled calls back at once, surfacing its error; the errors
\* of the items that came as values are not surfaced.
ListPends(f) ==
  /\ InItemLoop(f)
  /\ Innermost.index = Len(Children[f])
  /\ \E b \in ItemsOf(f) : item[b].promised
  /\ left' = [left EXCEPT ![f] =
       Cardinality({b \in ItemsOf(f) : item[b].value = "none"})]
  /\ errors' = Bump(errors, {<<"raised", b>> : b \in
       {c \in ItemsOf(f) : /\ item[c].promised /\ item[c].value # "none"
                           /\ answer[c] = "error"}})
  /\ Returns([kind |-> "list", of |-> f, null |-> FALSE])
  /\ UNCHANGED <<answer, promiseVars, frames, values, nulled, item, owned,
                 ready, draining, response>>

\* Mutant: the count is read before it is decremented.
ItemResolvesLate(b, null, raised, newStack) ==
  LET f == ListOf(b)
      counted == left[f] # None
  IN  /\ item' = [item EXCEPT ![b] =
           Slot(IF null THEN "null" ELSE "value", item[b].promised, raised)]
      /\ left' = IF counted THEN [left EXCEPT ![f] = @ - 1] ELSE left
      /\ EnqueueAndDrain(counted /\ left[f] = 0 /\ f \in owned, Home(f),
                         Dequeued(b), newStack)
      /\ UNCHANGED errors

\* The promise of an item resolves.  Once the list waits for it, the item is
\* stored and counted; the last one enqueues the frame that owns the list.
ItemResolves(b, null, raised, newStack) ==
  LET f == ListOf(b)
      counted == left[f] # None
      count == IF counted /\ left[f] > 0 THEN left[f] - 1 ELSE 0
      last == counted /\ count = 0 /\ f \in owned
  IN  /\ item' = [item EXCEPT ![b] =
           Slot(IF null THEN "null" ELSE "value", item[b].promised, raised)]
      /\ left' = IF counted THEN [left EXCEPT ![f] = count] ELSE left
      /\ errors' = IF counted /\ raised
                   THEN Bump(errors, {<<"raised", b>>}) ELSE errors
      /\ EnqueueAndDrain(last, Home(f), Dequeued(b), newStack)

-----------------------------------------------------------------------------
(* The drain                                                               *)

DrainNext ==
  /\ Running("drain")
  /\ IF ready = <<>>
     THEN /\ draining' = FALSE
          /\ stack' = Pop
          /\ UNCHANGED ready
     ELSE /\ ready' = SubSeq(ready, 1, Len(ready) - 1)
          /\ stack' = IF ready[Len(ready)] = None THEN stack
                      ELSE Push(ProcessLoop(ready[Len(ready)], 0, <<>>))
          /\ UNCHANGED draining
  /\ UNCHANGED <<answer, promiseVars, frames, tree, lists, ret, response>>

InProcessLoop(b) ==
  /\ ret = None
  /\ Running("process") /\ Innermost.block = b

CurrentEntry == entries[Innermost.block][Innermost.index + 1]
EntriesLeft == Innermost.index < Len(entries[Innermost.block])

\* Mutant: the index of the entry moved before.
NextIndexOffByOne == Len(Innermost.next) - 1
NextIndex == Len(Innermost.next) + 1
MoveTo(e) ==
  Top(ProcessLoop(Innermost.block, Innermost.index + 1,
                  Append(Innermost.next, e)))

StillWaits(e) ==
  e.state # "ready" /\ ~(e.kind = "list" /\ left[e.field] = 0)

\* Mutant: the callback pair keeps the old index.
ProcessMovesOnly(b) ==
  /\ InProcessLoop(b) /\ EntriesLeft
  /\ StillWaits(CurrentEntry)
  /\ link' = IF CurrentEntry.kind = "block"
             THEN [link EXCEPT ![Children[CurrentEntry.field][1]] = NextIndex]
             ELSE link
  /\ stack' = MoveTo(CurrentEntry)
  /\ UNCHANGED <<answer, promiseVars, entries, unresolved, life, ctx, tree,
                 lists, ready, draining, ret, response>>

\* An entry that waits moves to the rebuilt array, and whoever holds its index
\* is told the new one.
ProcessMoves(b) ==
  /\ InProcessLoop(b) /\ EntriesLeft
  /\ LET e == CurrentEntry IN
     /\ StillWaits(e)
     /\ link' = IF e.kind = "block"
                THEN [link EXCEPT ![Children[e.field][1]] = NextIndex]
                ELSE link
     /\ ctx' = IF e.kind = "promise" /\ ctx[e.field] # 0
               THEN [ctx EXCEPT ![e.field] = NextIndex]
               ELSE ctx
     /\ stack' = MoveTo(e)
  /\ UNCHANGED <<answer, promiseVars, entries, unresolved, life, tree, lists,
                 ready, draining, ret, response>>

\* A settled entry is consumed, or completed by executing what it selects.
ProcessConsumes(b) ==
  /\ InProcessLoop(b) /\ EntriesLeft
  /\ LET e == CurrentEntry
         f == e.field
     IN \/ /\ e.kind = "promise" /\ e.state = "ready"
           /\ CompleteField(b, f, answer[f])
        \/ /\ e.kind = "block" /\ e.state = "ready"
           /\ Consume(b, f, nulled[Children[f][1]], TRUE, FALSE)
           /\ stack' = Advance
           /\ UNCHANGED life
        \/ /\ e.kind = "list" /\ left[f] = 0
           /\ values' = [values EXCEPT ![f] =
                IF ListNulls(f) THEN "null" ELSE "value"]
           /\ nulled' = [nulled EXCEPT ![b] =
                @ \/ (ListNulls(f) /\ f \in NonNull)]
           /\ errors' = Bump(errors,
                IF f \in ItemNonNull
                THEN {<<"nonnull", c>> : c \in NullItems(f)} ELSE {})
           /\ stack' = Advance
           /\ UNCHANGED life
  /\ UNCHANGED <<answer, promiseVars, entries, unresolved, link, ctx, lists,
                 ready, draining, ret, response>>

\* The completion of a settled entry returned: consume it, or adopt it.
ProcessTakesResult(b) ==
  /\ ret # None
  /\ Running("process") /\ Innermost.block = b
  /\ ret' = None
  /\ LET f == CurrentEntry.field IN
     \/ /\ ret.kind = "outcome"
        /\ Consume(b, f, ret.null, TRUE, FALSE)
        /\ stack' = Advance
        /\ UNCHANGED <<link, owned, ready>>
     \/ /\ ret.kind \in {"frame", "list"}
        /\ stack' = MoveTo(AdoptedEntry(f))
        /\ IF ret.kind = "frame"
           THEN /\ link' = [link EXCEPT ![ret.of] = NextIndex]
                /\ ready' = IF unresolved[ret.of] = 0 THEN Enqueued(ret.of, ready)
                            ELSE ready
                /\ UNCHANGED owned
           ELSE owned' = Adopts(f) /\ UNCHANGED <<link, ready>>
        /\ UNCHANGED tree
  /\ UNCHANGED <<answer, promiseVars, entries, unresolved, ctx, life, item,
                 left, draining, response>>

\* Mutant: the loop goes on while entries wait.
ProcessSpins(b) ==
  /\ InProcessLoop(b) /\ ~EntriesLeft
  /\ ArmFrame(b, Innermost.next)
  /\ stack' = Top(IF Innermost.next = <<>> THEN ResolveCall(b)
                  ELSE ProcessLoop(b, 0, <<>>))
  /\ UNCHANGED <<answer, promise, life, link, tree, lists, ready, draining,
                 ret, response>>

\* The rebuilt array replaces the old one and is armed; with nothing left the
\* frame resolves, with nothing left to wait for it is processed again.
ProcessEnds(b) ==
  /\ InProcessLoop(b) /\ ~EntriesLeft
  /\ LET next == Innermost.next IN
     /\ ArmFrame(b, next)
     /\ ready' = IF EnqueuedByArm(next) THEN Enqueued(b, ready) ELSE ready
     /\ stack' = IF next = <<>> THEN Top(ResolveCall(b))
                 ELSE IF WaitingCount(next) > 0 THEN Pop
                 ELSE Top(ProcessLoop(b, 0, <<>>))
  /\ UNCHANGED <<answer, promise, life, link, tree, lists, draining, ret,
                 response>>

\* Mutant: no guard for a parent that is still executing.
ResolveUnguarded(b, f) ==
  LET p == Home(f)
      count == IF unresolved[p] > 0 THEN unresolved[p] - 1 ELSE 0
  IN  /\ entries' = IF link[b] \in 1 .. Len(entries[p])
                    THEN [entries EXCEPT ![p] = Stored(entries[p], link[b])]
                    ELSE entries
      /\ unresolved' = [unresolved EXCEPT ![p] = count]
      /\ ready' = IF count = 0 THEN Enqueued(p, Dequeued(b)) ELSE Dequeued(b)
      /\ stack' = Pop

\* resolve_frame: an object child stores its outcome in the parent's entry and
\* counts it down; the parent is enqueued unless it is still executing.
ResolveIntoParent(b, f) ==
  LET p == Home(f)
      count == IF unresolved[p] > 0 THEN unresolved[p] - 1 ELSE 0
  IN  /\ entries' = IF link[b] \in 1 .. Len(entries[p])
                    THEN [entries EXCEPT ![p] = Stored(entries[p], link[b])]
                    ELSE entries
      /\ unresolved' = [unresolved EXCEPT ![p] = count]
      /\ ready' = IF count = 0 /\ ~Executing(p)
                  THEN Enqueued(p, Dequeued(b)) ELSE Dequeued(b)
      /\ stack' = Pop

\* A list item resolves the promise of its frame; the root, the response.
ResolveFrame(b) ==
  /\ Running("resolve") /\ Innermost.block = b
  /\ life' = [life EXCEPT ![b] = "done"]
  /\ \/ /\ \E f \in Fields \ Lists : b \in Range(Children[f])
        /\ ResolveIntoParent(b, CHOOSE f \in Fields : b \in Range(Children[f]))
        /\ UNCHANGED <<lists, errors, draining, response>>
     \/ /\ b \in Items
        /\ ItemResolves(b, nulled[b], FALSE, Pop)
        /\ UNCHANGED <<entries, unresolved, owned, response>>
     \/ /\ b \in Roots
        /\ response' = IF nulled[b] THEN "null" ELSE "data"
        /\ stack' = Pop
        /\ ready' = Dequeued(b)
        /\ UNCHANGED <<entries, unresolved, lists, errors, draining>>
  /\ UNCHANGED <<answer, promiseVars, link, ctx, values, nulled, ret>>

-----------------------------------------------------------------------------
(* Settling a promise: from on_stall or an event loop, when no call of the *)
(* executor is in progress, or from inside a resolver.                     *)

SettlePromise(p) ==
  /\ promise[p] = "pending" /\ subs[p] # {}
  /\ \/ stack = <<>> /\ response = None
     \/ Executed \in Reentrant /\ \E b \in Blocks : InOpLoop(b)
  /\ promise' = [promise EXCEPT ![p] = "settled"]
  /\ subs' = [subs EXCEPT ![p] = {}]
  /\ stack' = Push(SettleLoop(subs[p], None))
  /\ UNCHANGED <<answer, frames, tree, lists, ready, draining, ret, response>>

InSettleLoop == ret = None /\ Running("settle")

\* The loop goes on: subscriber x was called, and runs the block of current.
\* Tickets call back in the order of subscription, promise libraries as they
\* like; any order is allowed.
AfterSubscriber(x, current) ==
  Top(SettleLoop(Innermost.waiting \ {x}, current))

\* The callback pair of an armed entry stores the value at the index it holds,
\* unless that is out of range, and counts the frame down.
SettleEntry(f) ==
  /\ InSettleLoop
  /\ f \in Innermost.waiting
  /\ LET b == Home(f)
         count == IF unresolved[b] > 0 THEN unresolved[b] - 1 ELSE 0
     IN  IF ctx[f] \in 1 .. Len(entries[b])
         THEN /\ entries' = [entries EXCEPT ![b] = Stored(entries[b], ctx[f])]
              /\ unresolved' = [unresolved EXCEPT ![b] = count]
              /\ ctx' = [ctx EXCEPT ![f] = 0]
              /\ EnqueueAndDrain(count = 0, b, ready, AfterSubscriber(f, None))
         ELSE /\ stack' = AfterSubscriber(f, None)
              /\ UNCHANGED <<entries, unresolved, ctx, ready, draining>>
  /\ UNCHANGED <<answer, promiseVars, life, link, tree, lists, ret, response>>

\* The callback of a list item runs the item's block, or resolves the item.
SettleItem(b) ==
  /\ InSettleLoop
  /\ b \in Innermost.waiting /\ b \in Items
  /\ IF answer[b] = "value"
     THEN /\ stack' = Append(AfterSubscriber(b, b), OpLoop(b, 0))
          /\ life' = [life EXCEPT ![b] = "running"]
          /\ UNCHANGED <<lists, errors, ready, draining>>
     ELSE /\ ItemResolves(b, TRUE, answer[b] = "error", AfterSubscriber(b, None))
          /\ UNCHANGED <<owned, life>>
  /\ UNCHANGED <<answer, promiseVars, entries, unresolved, link, ctx, values,
                 nulled, ret, response>>

\* The item's block completed, or suspended: then its frame resolves the item.
SettleTakesResult ==
  /\ ret # None /\ Running("settle")
  /\ ret' = None
  /\ IF ret.kind = "outcome"
     THEN ItemResolves(Innermost.current, ret.null, FALSE,
                       AfterSubscriber(None, None))
     ELSE stack' = AfterSubscriber(None, None)
          /\ UNCHANGED <<item, left, errors, ready, draining>>
  /\ UNCHANGED <<answer, promiseVars, frames, owned, values, nulled, response>>

SettleReturns ==
  /\ InSettleLoop
  /\ Innermost.waiting = {}
  /\ stack' = Pop
  /\ UNCHANGED <<answer, promiseVars, frames, tree, lists, ready, draining,
                 ret, response>>

-----------------------------------------------------------------------------
\* The operation a block belongs to.
RootOf[b \in Blocks] ==
  IF b \in Roots THEN b
  ELSE RootOf[Home(CHOOSE f \in Fields : b \in Range(Children[f]))]

PositionsOf(root) == {f \in Fields : RootOf[Home(f)] = root}
                       \cup {b \in Items : RootOf[b] = root}

Init ==
  /\ \E root \in Roots :
       /\ \E given \in [PositionsOf(root) -> AnswerSet] :
            answer = [x \in Positions |->
                        IF x \in PositionsOf(root) THEN given[x] ELSE "value"]
       /\ \A x \in PositionsOf(root) :
            answer[x] \in (IF x \in Items THEN ItemAnswers ELSE FieldAnswers)
       /\ life = [b \in Blocks |-> IF b = root THEN "running" ELSE "none"]
       /\ stack = <<OpLoop(root, 0)>>
  /\ \A x, y \in DOMAIN PromiseOf :
       PromiseOf[x] = PromiseOf[y] => answer[x] = answer[y]
  /\ promise = [p \in Promises |-> "pending"]
  /\ subs = [p \in Promises |-> {}]
  /\ entries = [b \in Blocks |-> <<>>]
  /\ unresolved = [b \in Blocks |-> 0]
  /\ nulled = [b \in Blocks |-> FALSE]
  /\ link = [b \in Blocks |-> 0]
  /\ ctx = [f \in Fields |-> 0]
  /\ item = [b \in Items |-> Slot("none", FALSE, FALSE)]
  /\ left = [f \in Lists |-> None]
  /\ owned = {}
  /\ ready = <<>>
  /\ draining = FALSE
  /\ ret = None
  /\ values = [f \in Fields |-> "unset"]
  /\ errors = [e \in {"raised", "nonnull"} \X Positions |-> 0]
  /\ response = None

\* The response was delivered: nothing more happens to the request.
Delivered == response # None /\ stack = <<>> /\ UNCHANGED vars

EngineStep ==
  \/ \E b \in Blocks :
       \/ ResolverReturnsValue(b) \/ ResolverReturnsPromise(b)
       \/ BlockTakesResult(b)
       \/ FinalizeComplete(b) \/ FinalizeSuspends(b) \/ FinalizeReturns(b)
       \/ ProcessMoves(b) \/ ProcessConsumes(b) \/ ProcessTakesResult(b)
       \/ ProcessEnds(b) \/ ResolveFrame(b) \/ SettleItem(b)
  \/ \E f \in Fields :
       \/ ItemIsValue(f) \/ ItemIsPromise(f) \/ ListTakesResult(f)
       \/ ListComplete(f) \/ ListPends(f) \/ SettleEntry(f)
  \/ DrainNext
  \/ SettleTakesResult
  \/ SettleReturns

Next == EngineStep \/ (\E p \in Promises : SettlePromise(p)) \/ Delivered

Spec == Init /\ [][Next]_vars

\* Resolvers return, and a promise someone waits for settles in the end:
\* on_stall dispatches it, or the event loop delivers it.
FairSpec == Spec /\ WF_vars(EngineStep)
                 /\ WF_vars(\E p \in Promises : SettlePromise(p))

-----------------------------------------------------------------------------
(* What the request must answer                                            *)

\* The reference: what GraphQL's non-null rule makes of the answers.  A field
\* is null when it resolves to null or to an error, when its object is, or
\* when it is a list of non-null items with a null one; an object is null
\* when one of its non-null fields is.
IsNull[x \in Blocks \cup Fields] ==
  IF x \in Blocks
  THEN \/ x \in Items /\ answer[x] # "value"
       \/ \E f \in Range(Ops[x]) \cap NonNull : IsNull[f]
  ELSE \/ answer[x] # "value"
       \/ x \notin Lists /\ \E b \in Range(Children[x]) : IsNull[b]
       \/ x \in ItemNonNull /\ \E b \in Range(Children[x]) : IsNull[b]

\* The blocks the answers ask for: those below a field that resolves.
Selected[b \in Blocks] ==
  \/ b = Executed
  \/ \E f \in Fields :
       /\ b \in Range(Children[f])
       /\ Selected[Home(f)]
       /\ answer[f] = "value"
       /\ b \in Items => answer[b] = "value"

SelectedFields == {f \in Fields : Selected[Home(f)]}
SelectedItems == {b \in Items : LET f == ListOf(b) IN
                                Selected[Home(f)] /\ answer[f] = "value"}

\* Type invariant of the frames, the ready queue and the C call stack.
Kinds == {"promise", "block", "list"}
EntrySet == [field : Fields, kind : Kinds,
             state : {"unarmed", "armed", "ready"}]

TypeOK ==
  /\ answer \in [Positions -> AnswerSet]
  /\ promise \in [Promises -> {"pending", "settled"}]
  /\ subs \in [Promises -> SUBSET Positions]
  /\ entries \in [Blocks -> Seq(EntrySet)]
  /\ unresolved \in [Blocks -> Nat]
  /\ life \in [Blocks -> {"none", "running", "suspended", "done"}]
  /\ nulled \in [Blocks -> BOOLEAN]
  /\ link \in [Blocks -> Nat]
  /\ ctx \in [Fields -> Nat]
  /\ item \in [Items -> [value : {"none", "null", "value"},
                         promised : BOOLEAN, carries : BOOLEAN]]
  /\ left \in [Lists -> Nat \cup {None}]
  /\ owned \subseteq Lists
  /\ ready \in Seq(Blocks \cup {None})
  /\ draining \in BOOLEAN
  /\ values \in [Fields -> {"unset", "null", "value"}]
  /\ errors \in [{"raised", "nonnull"} \X Positions -> Nat]
  /\ response \in {None, "data", "null"}

\* The response does not depend on how its parts arrived: when it is
\* delivered, every selected field and list item holds what the reference
\* computes from the answers alone, and data is null exactly when the
\* reference nulls the root (consume_current_result_now, process_frame,
\* resolve_frame).
ResponseIsReference ==
  response # None =>
    LET selected == SelectedFields
        expected(x) == IF IsNull[x] THEN "null" ELSE "value"
    IN  /\ response = IF IsNull[Executed] THEN "null" ELSE "data"
        /\ \A f \in Fields :
             values[f] = IF f \in selected THEN expected(f) ELSE "unset"
        /\ \A b \in SelectedItems : item[b].value = expected(b)

ErrorsOf(S) ==
  response # None =>
    LET selected == SelectedFields \cup SelectedItems
        nonNull(x) == x \in NonNull \/ (x \in Items /\ ListOf(x) \in ItemNonNull)
        counted(kind, x, yes) ==
          errors[<<kind, x>>] = IF x \in selected /\ yes THEN 1 ELSE 0
    IN  \A x \in S : /\ counted("raised", x, answer[x] = "error")
                     /\ counted("nonnull", x, nonNull(x) /\ answer[x] = "null")

\* The items of a list that pended.  Their error records are not complete: one
\* that failed at once has lost its own (list_pending_handle_sv), and a null
\* that carries an error is not told from a plain one.
PendedItems == {b \in Items : left[ListOf(b)] # None}

\* Every failure reaches the errors of the response exactly once: one error
\* per selected position that resolved to an error, and one "Cannot return
\* null" per selected non-null position that resolved to a plain null; a null
\* that propagates adds none (frame_field_enforce_nonnull,
\* enforce_list_item_nonnull, the error records of outcomes).  The items of a
\* list that pended are left out.
ErrorsMatchReference == ErrorsOf(Positions \ PendedItems)

\* The same without the exception: the items of a list that pended report their
\* failures too (list_pending_handle_sv loses the records of outcomes).
ItemErrorsMatchReference == ErrorsOf(Positions)

\* A field is written once, and never after its block has been resolved into
\* its parent, its list or the response (resolve_frame takes values_value).
ValuesAreFinal ==
  [][\A f \in Fields :
       values[f] # "unset" \/ life[Home(f)] = "done" =>
         values'[f] = values[f]]_vars

\* A block whose operation loop is still running is neither processed nor
\* resolved: the drain would free it under the loop's feet (the executing
\* guard of resolve_frame; docs/xs-coding-rules.md, rule 7).
ExecutingFrameIsLeftAlone ==
  \A i, j \in 1 .. Len(stack) :
    /\ stack[i].at \in {"process", "resolve"}
    /\ stack[j].at = "block"
    /\ stack[j].block = stack[i].block
    => stack[j].index > Len(Ops[stack[j].block])

\* Whoever settles a waiting entry holds its index in the array it lives in,
\* also while process_frame is rebuilding that array: the callback pair of a
\* promise, the parent_entry_index of a child frame.
PointsAt(e, i) ==
  e.state = "armed" =>
    /\ e.kind = "promise" => ctx[e.field] = i
    /\ e.kind = "block" => link[Children[e.field][1]] = i
    /\ e.kind = "list" => e.field \in owned

\* Entry i of frame b has been dealt with by the process_frame under way.
Handled(b, i) ==
  \E n \in 1 .. Len(stack) :
    stack[n].at = "process" /\ stack[n].block = b /\ i <= stack[n].index

CallbackPointsAtEntry ==
  /\ \A b \in Blocks : \A i \in 1 .. Len(entries[b]) :
       Handled(b, i) \/ PointsAt(entries[b][i], i)
  /\ \A n \in 1 .. Len(stack) :
       stack[n].at = "process" =>
         \A i \in 1 .. Len(stack[n].next) : PointsAt(stack[n].next[i], i)

\* Once the executor has returned to the event loop, every suspended frame
\* still waits for something, and its pending_unresolved is exact: nothing
\* that is complete is left behind without anyone to process it.
NoFrameForgotten ==
  stack = <<>> =>
    \A b \in Blocks :
      life[b] = "suspended" =>
        /\ unresolved[b] > 0
        /\ unresolved[b] = Cardinality({i \in 1 .. Len(entries[b]) :
                                          StillWaits(entries[b][i])})

\* Every request is answered, once the promises someone waits for settle
\* (drain, process_frame, resolve_frame, the on_stall loop around them).
Completes == <>(response # None)

=============================================================================
