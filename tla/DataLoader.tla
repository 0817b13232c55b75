----------------------------- MODULE DataLoader -----------------------------
(***************************************************************************)
(* GraphQL::Houtou::DataLoader, its await tickets, and the on_stall hook   *)
(* that on_stall_for builds over a list of loaders.                        *)
(*                                                                         *)
(* load queues a key and hands out a ticket, cached per key; dispatch      *)
(* takes the whole queue, sends it to the batch function in chunks and     *)
(* settles the tickets, running their subscribers synchronously.  Perl is  *)
(* single-threaded: what interleaves is user code called from inside these *)
(* operations.  A batch function or a subscriber may load, prime, clear,   *)
(* dispatch or run the on_stall hook again, on any loader, before the      *)
(* operation that called it goes on.  The stacks of dispatches and of      *)
(* hooks in progress (calls and hooks, innermost first) are therefore part *)
(* of the state.                                                           *)
(*                                                                         *)
(* A value is abstracted to the key it was fetched for, an Error object to *)
(* the key it was returned for.  The batch function sees an array of keys  *)
(* and answers with an array of values: nothing but the position in the    *)
(* two arrays and in the queue ties a value to a ticket.                   *)
(***************************************************************************)
EXTENDS Integers, Sequences, FiniteSets

CONSTANTS
  LoaderCount,    \* how many loaders on_stall_for was given
  LoadKeys,       \* keys (after the cache_key callback)
  MaxBatchSize,   \* max_batch_size of each loader, 0 for none
  Caching,        \* the cache option of each loader
  MaxTickets,     \* bound: tickets created by load and prime
  MaxMany,        \* bound: calls of load_many
  ManyKeys,       \* the key lists load_many is called with
  MaxNesting,     \* bound: dispatches inside dispatches
  Failed,         \* the reason of a batch function that dies
  Primed,         \* a value given by prime
  None            \* no ticket

\* The loaders, in the order on_stall_for passes over them.
Loaders == 1 .. LoaderCount

ASSUME LoadersAssumption == LoaderCount \in Nat
ASSUME BatchAssumption == MaxBatchSize \in [Loaders -> Nat]
ASSUME CachingAssumption == Caching \in [Loaders -> BOOLEAN]
ASSUME BoundsAssumption ==
  MaxTickets \in Nat /\ MaxMany \in Nat /\ MaxNesting \in Nat
ASSUME ManyAssumption == ManyKeys \subseteq Seq(LoadKeys)

Tickets == 1 .. MaxTickets
Manys == 1 .. MaxMany
\* A hook called with depth dispatches in progress.
Hooks == [depth : Nat, loader : Nat \ {0}, round : Nat]

\* The Error object a batch function puts at the position of key k.
ErrorOf(k) == [error |-> k]
Errors == {ErrorOf(k) : k \in LoadKeys}

ASSUME NoneAssumption == None \notin Tickets
ASSUME ErrorsAssumption == LoadKeys \cap Errors = {}

Loads == [loader : Loaders, key : LoadKeys]
\* The slot a callback of load_many fills: the call, and the position.
Slots == [call : Manys, index : Nat \ {0}]

VARIABLES
  made,       \* how many tickets exist
  load,       \* the load each ticket was made for
  status,     \* slot 0 of the ticket: pending, resolved or rejected
  value,      \* slot 1 of the ticket
  subscribers,\* slot 2 of the ticket: load_many slots waiting for it
  promises,   \* _promises of each loader: key -> ticket
  queue,      \* _queue of each loader
  calls,      \* dispatches in progress, innermost first
  hooks,      \* on_stall hooks in progress, innermost first
  many        \* load_many calls so far: tickets, results, remaining

vars == <<made, load, status, value, subscribers, promises, queue, calls,
          hooks, many>>

tickets == <<made, load, status, value, promises>>

Frames ==
  [loader : Loaders, taken : Seq(Tickets), offset : Nat, size : Nat,
   at : Nat, phase : {"chunk", "batch", "settle", "notify"},
   keys : Seq(LoadKeys), reply : {"values", "dies"},
   values : Seq(LoadKeys \cup Errors), waiting : Seq(Slots)]

Values == LoadKeys \cup Errors \cup {None, Failed, Primed}
ManyCalls ==
  [loader : Loaders, keys : Seq(LoadKeys), at : Nat, remaining : Int,
   waits : Seq(Tickets \cup {None}), results : Seq(Values)]

-----------------------------------------------------------------------------
(* User code runs at top level, inside a batch function, or inside a       *)
(* subscriber of a ticket that is being settled; the hook it calls runs    *)
(* where it was called, and so does a dispatch.                            *)

\* The loop of the latest load_many has keys left to load.
LoadManyRuns ==
  many # <<>> /\ many[Len(many)].at < Len(many[Len(many)].keys)

\* The innermost hook goes on: no dispatch it called is in progress.
HookRuns == hooks # <<>> /\ Head(hooks).depth = Len(calls)

UserCodeRuns ==
  /\ ~LoadManyRuns /\ ~HookRuns
  /\ calls # <<>> => Head(calls).phase \in {"batch", "notify"}

\* The innermost dispatch goes on.
DispatchRuns == calls # <<>> /\ ~LoadManyRuns /\ ~HookRuns

Settled(t) == status[t] # "pending"

\* What the callbacks of a settled ticket are given.
Outcome(t) == value[t]

-----------------------------------------------------------------------------
(* load, prime, clear                                                      *)

Hit(l, k) == Caching[l] /\ promises[l][k] # None

\* Ticket t is the one load(k) of loader l returns; a miss creates it.
LoadTicket(l, k) == IF Hit(l, k) THEN promises[l][k] ELSE made + 1

\* A new ticket, and the cache entry of a caching loader.
NewTicket(l, k, st, v) ==
  /\ made < MaxTickets
  /\ made' = made + 1
  /\ load' = [load EXCEPT ![made + 1] = [loader |-> l, key |-> k]]
  /\ status' = [status EXCEPT ![made + 1] = st]
  /\ value' = [value EXCEPT ![made + 1] = v]
  /\ promises' = IF Caching[l]
                 THEN [promises EXCEPT ![l][k] = made + 1]
                 ELSE promises

\* load: a hit changes nothing, a miss queues its new ticket.
EnqueueLoadMiss(l, k) ==
  /\ NewTicket(l, k, "pending", None)
  /\ queue' = [queue EXCEPT ![l] = Append(@, made + 1)]

Load(l, k) ==
  /\ UserCodeRuns
  /\ ~Hit(l, k)
  /\ EnqueueLoadMiss(l, k)
  /\ UNCHANGED <<subscribers, calls, hooks, many>>

\* Mutant: priming a fetched key overwrites its ticket.
PrimeOverwrites(l, k) ==
  /\ UserCodeRuns
  /\ Hit(l, k) /\ Settled(promises[l][k])
  /\ status' = [status EXCEPT ![promises[l][k]] = "resolved"]
  /\ value' = [value EXCEPT ![promises[l][k]] = Primed]
  /\ UNCHANGED <<made, load, promises, subscribers, queue, calls, hooks, many>>

Prime(l, k) ==
  /\ UserCodeRuns
  /\ Caching[l] /\ ~Hit(l, k)
  /\ NewTicket(l, k, "resolved", Primed)
  /\ UNCHANGED <<subscribers, queue, calls, hooks, many>>

Clear(l, k) ==
  /\ UserCodeRuns
  /\ promises' = [promises EXCEPT ![l][k] = None]
  /\ UNCHANGED <<made, load, status, value, subscribers, queue, calls, hooks,
                 many>>

ClearAll(l) ==
  /\ UserCodeRuns
  /\ promises' = [promises EXCEPT ![l] = [k \in LoadKeys |-> None]]
  /\ UNCHANGED <<made, load, status, value, subscribers, queue, calls, hooks,
                 many>>

-----------------------------------------------------------------------------
(* load_many                                                               *)

\* Call m, its slot i filled.
Filled(m, i, outcome) ==
  [loader |-> m.loader, keys |-> m.keys, at |-> m.at, waits |-> m.waits,
   results |-> [m.results EXCEPT ![i] = outcome], remaining |-> m.remaining - 1]

\* Mutant: a rejected key does not count down.
FilledResolved(m, i, outcome) ==
  [m EXCEPT !.results[i] = outcome,
            !.remaining = IF outcome \in Errors \cup {Failed} THEN @ ELSE @ - 1]
DeliverResolved(ms, slot, outcome) ==
  [ms EXCEPT ![slot.call] = FilledResolved(ms[slot.call], slot.index, outcome)]

\* A callback of load_many stores its result and counts down; at 0 the call's
\* own ticket is resolved with the results.
Deliver(ms, slot, outcome) ==
  [ms EXCEPT ![slot.call] = Filled(ms[slot.call], slot.index, outcome)]

\* Call m, its key i loaded as ticket t.
Awaiting(m, i, t) ==
  [loader |-> m.loader, keys |-> m.keys, at |-> i,
   waits |-> [m.waits EXCEPT ![i] = t],
   results |-> m.results, remaining |-> m.remaining]

\* At most so many tickets are new when load_many is called.
Misses(l, keys) ==
  IF Caching[l]
  THEN Cardinality({k \in {keys[i] : i \in DOMAIN keys} : ~Hit(l, k)})
  ELSE Len(keys)

LoadMany(l, keys) ==
  /\ UserCodeRuns
  /\ Len(many) < MaxMany /\ made + Misses(l, keys) <= MaxTickets
  /\ many' = Append(many,
       [loader |-> l, keys |-> keys, at |-> 0, remaining |-> Len(keys),
        waits |-> [i \in 1 .. Len(keys) |-> None],
        results |-> [i \in 1 .. Len(keys) |-> None]])
  /\ UNCHANGED <<tickets, subscribers, queue, calls, hooks>>

\* One iteration: load the key, subscribe to its ticket.  A settled ticket
\* calls back at once.
LoadManyNext ==
  /\ LoadManyRuns
  /\ LET c    == Len(many)
         i    == many[c].at + 1
         l    == many[c].loader
         k    == many[c].keys[i]
         t    == LoadTicket(l, k)
         slot == [call |-> c, index |-> i]
         next == [many EXCEPT ![c] = Awaiting(many[c], i, t)]
     IN  /\ IF Hit(l, k) THEN UNCHANGED <<tickets, queue>>
                         ELSE EnqueueLoadMiss(l, k)
         /\ IF Hit(l, k) /\ Settled(t)
            THEN /\ many' = Deliver(next, slot, Outcome(t))
                 /\ UNCHANGED subscribers
            ELSE /\ many' = next
                 /\ subscribers' = [subscribers EXCEPT ![t] = Append(@, slot)]
  /\ UNCHANGED <<calls, hooks>>

-----------------------------------------------------------------------------
(* dispatch                                                                *)

Min(a, b) == IF a < b THEN a ELSE b

ChunkSize(l, left) ==
  IF MaxBatchSize[l] > 0 THEN Min(MaxBatchSize[l], left) ELSE left

NewCall(l) ==
  [loader |-> l, taken |-> queue[l], offset |-> 0, size |-> 0, at |-> 0,
   phase |-> "chunk", keys |-> <<>>, reply |-> "values", values |-> <<>>,
   waiting |-> <<>>]

\* Mutants: the queue is reset to undef; the queue is kept.
TakeQueueUndef(l) ==
  /\ queue[l] # <<>>
  /\ queue' = [queue EXCEPT ![l] = None]
  /\ calls' = <<NewCall(l)>> \o calls
TakeQueueKept(l) ==
  /\ queue[l] # <<>>
  /\ calls' = <<NewCall(l)>> \o calls
  /\ UNCHANGED queue

\* dispatch takes the queue; an empty queue returns 0 and changes nothing.
TakeQueue(l) ==
  /\ queue[l] # <<>>
  /\ queue' = [queue EXCEPT ![l] = <<>>]
  /\ calls' = <<NewCall(l)>> \o calls

Dispatch(l) ==
  /\ UserCodeRuns
  /\ Len(calls) < MaxNesting
  /\ TakeQueue(l)
  /\ UNCHANGED <<tickets, subscribers, hooks, many>>

\* Mutant: keys are counted from the start of the queue.
ChunkKeysOfQueue(f, n) == [i \in 1 .. n |-> load[f.taken[i]].key]

\* The keys of the n entries from offset on, for the batch function.
ChunkKeys(f, n) == [i \in 1 .. n |-> load[f.taken[f.offset + i]].key]

\* Dispatch f with its next n entries sent to the batch function.
Batching(f, n) ==
  [loader |-> f.loader, taken |-> f.taken, offset |-> f.offset, size |-> n,
   at |-> 0, phase |-> "batch", keys |-> ChunkKeys(f, n), reply |-> "values",
   values |-> <<>>, waiting |-> <<>>]

\* What the batch function may answer to keys: a value or an Error per key.
Answers(keys) ==
  {[i \in 1 .. Len(keys) |-> IF i \in failing THEN ErrorOf(keys[i]) ELSE keys[i]] :
     failing \in SUBSET (1 .. Len(keys))}

\* What the batch function made of the chunk.
Replied(f, reply, values) ==
  [loader |-> f.loader, taken |-> f.taken, offset |-> f.offset,
   size |-> f.size, at |-> 0, phase |-> "settle", keys |-> <<>>,
   reply |-> reply, values |-> values, waiting |-> <<>>]

\* The subscribers f still has to call.
Notifying(f, waiting) ==
  [loader |-> f.loader, taken |-> f.taken, offset |-> f.offset,
   size |-> f.size, at |-> f.at, phase |-> "notify", keys |-> <<>>,
   reply |-> f.reply, values |-> f.values, waiting |-> waiting]

\* The next entry of the chunk, and the next chunk.
AtNextEntry(f) ==
  [loader |-> f.loader, taken |-> f.taken, offset |-> f.offset,
   size |-> f.size, at |-> f.at + 1, phase |-> "settle", keys |-> <<>>,
   reply |-> f.reply, values |-> f.values, waiting |-> <<>>]

AtNextChunk(f) ==
  [loader |-> f.loader, taken |-> f.taken, offset |-> f.offset + f.size,
   size |-> 0, at |-> 0, phase |-> "chunk", keys |-> <<>>,
   reply |-> "values", values |-> <<>>, waiting |-> <<>>]

SetTop(f) == calls' = [calls EXCEPT ![1] = f]

\* Hook h after a loader that dispatched n keys.
Passed(h, n) ==
  [depth |-> h.depth, loader |-> h.loader + 1, round |-> h.round + n]

SetHook(h) == hooks' = [hooks EXCEPT ![1] = h]

\* The next chunk of keys goes to the batch function.
CallBatch ==
  /\ DispatchRuns
  /\ LET f == Head(calls) IN
       /\ f.phase = "chunk" /\ f.offset < Len(f.taken)
       /\ SetTop(Batching(f, ChunkSize(f.loader, Len(f.taken) - f.offset)))
  /\ UNCHANGED <<tickets, subscribers, queue, hooks, many>>

\* Mutant: a batch function that dies leaves its chunk unsettled.
BatchReturnsUnsettled(reply) ==
  /\ DispatchRuns
  /\ LET f == Head(calls) IN
       /\ f.phase = "batch"
       /\ SetTop(IF reply = "dies" THEN AtNextChunk(f)
                 ELSE Replied(f, reply, f.keys))
  /\ UNCHANGED <<tickets, subscribers, queue, hooks, many>>

\* It returns one entry per key, or it dies or returns anything else.
BatchReturns(reply) ==
  /\ DispatchRuns
  /\ LET f == Head(calls) IN
       /\ f.phase = "batch"
       /\ \E values \in IF reply = "values" THEN Answers(f.keys) ELSE {<<>>} :
            SetTop(Replied(f, reply, values))
  /\ UNCHANGED <<tickets, subscribers, queue, hooks, many>>

\* The ticket at position at of the chunk, and the value at that position.
CurrentTicket(f) == f.taken[f.offset + f.at + 1]
CurrentValue(f) == f.values[f.at + 1]

\* An Error object among the values rejects its own entry; a batch function
\* that dies rejects the whole chunk.
Rejects(f) == f.reply = "dies" \/ CurrentValue(f) \in Errors

\* Settle one ticket: only a pending one changes, its subscribers are detached
\* and then called.
SettleTicket ==
  /\ DispatchRuns
  /\ LET f == Head(calls)
         t == CurrentTicket(f)
     IN  /\ f.phase = "settle" /\ f.at < f.size
         /\ IF Settled(t)
            THEN /\ SetTop(Notifying(f, <<>>))
                 /\ UNCHANGED <<status, value, subscribers>>
            ELSE /\ status' = [status EXCEPT ![t] =
                      IF Rejects(f) THEN "rejected" ELSE "resolved"]
                 /\ value' = [value EXCEPT ![t] =
                      IF f.reply = "dies" THEN Failed ELSE CurrentValue(f)]
                 /\ subscribers' = [subscribers EXCEPT ![t] = <<>>]
                 /\ SetTop(Notifying(f, subscribers[t]))
  /\ UNCHANGED <<made, load, promises, queue, hooks, many>>

\* Subscribers are called in the order they subscribed.
NotifySubscriber ==
  /\ DispatchRuns
  /\ LET f == Head(calls) IN
       /\ f.phase = "notify" /\ f.waiting # <<>>
       /\ many' = Deliver(many, Head(f.waiting), Outcome(CurrentTicket(f)))
       /\ SetTop(Notifying(f, Tail(f.waiting)))
  /\ UNCHANGED <<tickets, subscribers, queue, hooks>>

\* All subscribers were called: go on with the next entry, or the next chunk.
NextEntry ==
  /\ DispatchRuns
  /\ LET f == Head(calls) IN
       /\ f.phase = "notify" /\ f.waiting = <<>>
       /\ SetTop(IF f.at + 1 < f.size THEN AtNextEntry(f) ELSE AtNextChunk(f))
  /\ UNCHANGED <<tickets, subscribers, queue, hooks, many>>

\* dispatch returns the number of keys it dispatched, to user code or to the
\* loop of the hook that called it.
DispatchReturns ==
  /\ DispatchRuns
  /\ LET f == Head(calls) IN
       /\ f.phase = "chunk" /\ f.offset = Len(f.taken)
       /\ calls' = Tail(calls)
       /\ IF hooks # <<>> /\ Head(hooks).depth = Len(calls) - 1
          THEN SetHook(Passed(Head(hooks), Len(f.taken)))
          ELSE UNCHANGED hooks
  /\ UNCHANGED <<tickets, subscribers, queue, many>>

-----------------------------------------------------------------------------
(* on_stall_for: pass over the loaders until a whole pass dispatches       *)
(* nothing.  The total it reports is left out.  The executor calls the     *)
(* hook when it cannot go on; a batch function or a subscriber may as well. *)

OnStall ==
  /\ UserCodeRuns
  /\ Len(calls) < MaxNesting
  /\ hooks' = <<[depth |-> Len(calls), loader |-> 1, round |-> 0]>>
              \o hooks
  /\ UNCHANGED <<tickets, subscribers, queue, calls, many>>

\* The executor's call.
StallBegin == calls = <<>> /\ OnStall

StallDispatch ==
  /\ HookRuns
  /\ LET h == Head(hooks) IN
       /\ h.loader \in Loaders
       /\ IF queue[h.loader] = <<>>
          THEN SetHook(Passed(h, 0)) /\ UNCHANGED <<queue, calls>>
          ELSE TakeQueue(h.loader) /\ UNCHANGED hooks
  /\ UNCHANGED <<tickets, subscribers, many>>

StallNextRound ==
  /\ HookRuns
  /\ LET h == Head(hooks) IN
       /\ h.loader \notin Loaders /\ h.round > 0
       /\ SetHook([depth |-> h.depth, loader |-> 1, round |-> 0])
  /\ UNCHANGED <<tickets, subscribers, queue, calls, many>>

\* Mutant: the hook returns after one pass.
StallReturnsEarly ==
  /\ HookRuns
  /\ Head(hooks).loader \notin Loaders
  /\ hooks' = Tail(hooks)
  /\ UNCHANGED <<tickets, subscribers, queue, calls, many>>

StallReturns ==
  /\ HookRuns
  /\ Head(hooks).loader \notin Loaders /\ Head(hooks).round = 0
  /\ hooks' = Tail(hooks)
  /\ UNCHANGED <<tickets, subscribers, queue, calls, many>>

-----------------------------------------------------------------------------
Init ==
  /\ made = 0
  /\ load = [t \in Tickets |-> None]
  /\ status = [t \in Tickets |-> "pending"]
  /\ value = [t \in Tickets |-> None]
  /\ subscribers = [t \in Tickets |-> <<>>]
  /\ promises = [l \in Loaders |-> [k \in LoadKeys |-> None]]
  /\ queue = [l \in Loaders |-> <<>>]
  /\ calls = <<>>
  /\ hooks = <<>>
  /\ many = <<>>

UserStep ==
  \/ \E l \in Loaders :
       \/ \E k \in LoadKeys : Load(l, k) \/ Prime(l, k) \/ Clear(l, k)
       \/ \E keys \in ManyKeys : LoadMany(l, keys)
       \/ ClearAll(l)
       \/ Dispatch(l)
  \/ OnStall

\* What a dispatch does on its own once it was called.
DispatchStep ==
  \/ LoadManyNext
  \/ CallBatch
  \/ \E reply \in {"values", "dies"} : BatchReturns(reply)
  \/ SettleTicket
  \/ NotifySubscriber
  \/ NextEntry
  \/ DispatchReturns

HookStep == StallDispatch \/ StallNextRound \/ StallReturns

Next == UserStep \/ DispatchStep \/ HookStep

Spec == Init /\ [][Next]_vars

\* User callbacks return: those a dispatch calls do not call on_stall, which
\* returns every time, again and again without end.  The executor keeps
\* calling on_stall while its response is incomplete.
FairSpec ==
  /\ Spec
  /\ SF_vars(DispatchStep) /\ WF_vars(HookStep) /\ WF_vars(StallBegin)

-----------------------------------------------------------------------------
(* Properties                                                              *)

Exists(t) == t <= made

TypeOK ==
  /\ made \in 0 .. MaxTickets
  /\ load \in [Tickets -> Loads \cup {None}]
  /\ \A t \in Tickets : Exists(t) => load[t] \in Loads
  /\ status \in [Tickets -> {"pending", "resolved", "rejected"}]
  /\ value \in [Tickets -> Values]
  /\ subscribers \in [Tickets -> Seq(Slots)]
  /\ promises \in [Loaders -> [LoadKeys -> Tickets \cup {None}]]
  /\ queue \in [Loaders -> Seq(Tickets)]
  /\ calls \in Seq(Frames)
  /\ hooks \in Seq(Hooks)
  /\ many \in Seq(ManyCalls) /\ Len(many) <= MaxMany

\* How many tickets of the queue it took dispatch f has settled.
SettledBy(f) == f.offset + f.at + (IF f.phase = "notify" THEN 1 ELSE 0)

\* The positions of ticket t in a queue, and in the part of a dispatch that is
\* still to be settled.
QueuedAt(t) ==
  {p \in Loaders \X Tickets :
     p[2] <= Len(queue[p[1]]) /\ queue[p[1]][p[2]] = t}
InFlightAt(t) ==
  {p \in (1 .. Len(calls)) \X Tickets :
     /\ SettledBy(calls[p[1]]) < p[2] /\ p[2] <= Len(calls[p[1]].taken)
     /\ calls[p[1]].taken[p[2]] = t}

\* A key that was loaded is sent to the batch function once and only once:
\* a pending ticket waits in exactly one place, its own loader's queue or the
\* unfinished part of one dispatch, and a settled one waits nowhere, although
\* user code may load, clear and dispatch in the middle of a dispatch.
NoTicketLostOrRepeated ==
  \A t \in Tickets : Exists(t) =>
    LET queued == QueuedAt(t)
        flying == InFlightAt(t)
    IN  IF Settled(t) THEN queued = {} /\ flying = {}
        ELSE \/ /\ \E i \in Tickets : queued = {<<load[t].loader, i>>}
                /\ flying = {}
             \/ /\ queued = {}
                /\ \E p \in (1 .. Len(calls)) \X Tickets :
                     flying = {p} /\ calls[p[1]].loader = load[t].loader

\* _dispatch_queue pairs keys and values by their position in the chunk: a
\* settled ticket holds the value, or the Error, of its own key, however the
\* queue was cut and whatever ran while the values were handed out.
TicketHoldsItsOwnKey ==
  \A t \in Tickets :
    LET k == load[t].key IN
      /\ status[t] = "resolved" => value[t] \in {k, Primed}
      /\ status[t] = "rejected" => value[t] \in {ErrorOf(k), Failed}

\* The slots of load_many calls that still have to be called back: they wait
\* on a pending ticket, or are about to be called by the dispatch settling it.
Undelivered(c) ==
  {i \in 1 .. many[c].at :
     \/ \E j \in 1 .. Len(subscribers[many[c].waits[i]]) :
          subscribers[many[c].waits[i]][j] = [call |-> c, index |-> i]
     \/ \E f \in 1 .. Len(calls) : \E j \in 1 .. Len(calls[f].waiting) :
          calls[f].waiting[j] = [call |-> c, index |-> i]}

\* load_many resolves when, and only when, every key has settled and called
\* back, with the results in key order: the countdown is the number of keys
\* not yet called back, even when keys repeat, are cached or settle while the
\* loop is still subscribing, and a filled slot holds its own key's outcome.
LoadManyCountsDown ==
  \A c \in 1 .. Len(many) :
    LET m == many[c]
        done == (1 .. m.at) \ Undelivered(c)
    IN  /\ m.remaining = Len(m.keys) - Cardinality(done)
        /\ \A i \in done :
             /\ Settled(m.waits[i])
             /\ m.results[i] = Outcome(m.waits[i])

\* on_stall_for returns only when every loader is drained: when a hook
\* returns, the only tickets still pending are those in the hands of a dispatch
\* that was in progress when the hook was called.  The executor's own call
\* leaves none.
StallDrainsEveryLoader ==
  [][Len(hooks') < Len(hooks) =>
       /\ Len(calls) = Head(hooks).depth
       /\ \A t \in Tickets : Exists(t) /\ ~Settled(t) => InFlightAt(t) # {}]_vars

\* A ticket settles once: what it holds never changes again (settle returns
\* early unless the ticket is pending).
SettledIsFinal ==
  [][\A t \in Tickets : Exists(t) /\ Settled(t) =>
       status'[t] = status[t] /\ value'[t] = value[t]]_vars

\* Every loaded key is eventually settled and every load_many call resolves,
\* when on_stall keeps being called and user callbacks return.
EveryLoadSettles ==
  /\ \A t \in Tickets : [](Exists(t) => <>Settled(t))
  /\ \A c \in Manys :
       [](c <= Len(many) => <>(c <= Len(many) /\ many[c].remaining = 0))

=============================================================================
