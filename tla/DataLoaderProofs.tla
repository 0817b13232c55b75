--------------------------- MODULE DataLoaderProofs ---------------------------
(***************************************************************************)
(* Proofs about DataLoader for every number of loaders, every batch size,  *)
(* every cache option and every bound.                                     *)
(*                                                                         *)
(* The argument has four layers, each an invariant that uses the ones      *)
(* before it.  Shape: the loop of every dispatch in progress stands inside *)
(* the queue it took.  Places: a ticket that was queued is in one queue or *)
(* in one taken queue, once; in a taken queue it is pending exactly after  *)
(* the point the loop has reached.  Pairs: keys and values stand at the    *)
(* positions of their tickets.  Slots: a callback of load_many waits       *)
(* in one place, with its own ticket or with the dispatch that settled it, *)
(* and a slot that waits nowhere holds the outcome of its settled ticket.  *)
(***************************************************************************)
EXTENDS DataLoader, FiniteSetTheorems, SequenceTheorems, TLAPS

-----------------------------------------------------------------------------
(* Shape *)

FrameOK(f) ==
  /\ f.taken # <<>> /\ f.offset + f.size <= Len(f.taken)
  /\ f.phase = "chunk" => f.at = 0 /\ f.size = 0
  /\ f.phase = "batch" => f.at = 0 /\ 0 < f.size /\ Len(f.keys) = f.size
  /\ f.phase \in {"settle", "notify"} =>
       f.at < f.size /\ (f.reply = "values" => Len(f.values) = f.size)
  /\ f.phase # "notify" => f.waiting = <<>>

FramesOK == \A c \in 1 .. Len(calls) : FrameOK(calls[c])

\* A hook waits below the dispatches it called; an inner one was called from
\* a dispatch of the outer one.
HooksOK ==
  /\ \A h \in 1 .. Len(hooks) : hooks[h].depth <= Len(calls)
  /\ \A g, h \in 1 .. Len(hooks) : g < h => hooks[h].depth < hooks[g].depth

ManyCallOK(m) ==
  /\ m.at <= Len(m.keys)
  /\ Len(m.waits) = Len(m.keys) /\ Len(m.results) = Len(m.keys)
  /\ \A i \in 1 .. m.at : m.waits[i] \in 1 .. made
ManyCallsOK == \A c \in 1 .. Len(many) : ManyCallOK(many[c])

CacheOK ==
  \A l \in Loaders, k \in LoadKeys :
    promises[l][k] # None => Exists(promises[l][k])

QueuedExist ==
  \A l \in Loaders : \A i \in 1 .. Len(queue[l]) : Exists(queue[l][i])
TakenExist ==
  \A c \in 1 .. Len(calls) :
    \A i \in 1 .. Len(calls[c].taken) : Exists(calls[c].taken[i])

ShapeInv ==
  /\ TypeOK
  /\ FramesOK /\ HooksOK
  /\ ManyCallsOK
  /\ CacheOK /\ QueuedExist /\ TakenExist

-----------------------------------------------------------------------------
(* Places *)

NewTicketsArePending ==
  \A t \in Tickets : ~Exists(t) => ~Settled(t)

\* A queue holds pending tickets of its own loader, each once.
QueueOK(l) ==
  /\ Len(queue[l]) <= made
  /\ \A i \in 1 .. Len(queue[l]) :
       /\ ~Settled(queue[l][i])
       /\ load[queue[l][i]].loader = l
  /\ \A i, j \in 1 .. Len(queue[l]) : queue[l][i] = queue[l][j] => i = j
QueuesOK == \A l \in Loaders : QueueOK(l)

\* A dispatch took tickets of its loader, each once, and has settled those up
\* to the point its loop has reached.
TakenOK(f) ==
  /\ Len(f.taken) <= made
  /\ \A i \in 1 .. Len(f.taken) :
       /\ load[f.taken[i]].loader = f.loader
       /\ Settled(f.taken[i]) <=> i <= SettledBy(f)
  /\ \A i, j \in 1 .. Len(f.taken) : f.taken[i] = f.taken[j] => i = j
AllTakenOK == \A c \in 1 .. Len(calls) : TakenOK(calls[c])

\* What one dispatch took no other dispatch took, and no queue holds.
TakenOnce ==
  /\ \A c, d \in 1 .. Len(calls) :
       c # d => \A i \in 1 .. Len(calls[c].taken), j \in 1 .. Len(calls[d].taken) :
                  calls[c].taken[i] # calls[d].taken[j]
  /\ \A c \in 1 .. Len(calls), l \in Loaders :
       \A i \in 1 .. Len(calls[c].taken), j \in 1 .. Len(queue[l]) :
         calls[c].taken[i] # queue[l][j]

IsQueued(t) == \E l \in Loaders : \E i \in 1 .. Len(queue[l]) : queue[l][i] = t
IsTaken(t) ==
  \E c \in 1 .. Len(calls) :
    \E i \in 1 .. Len(calls[c].taken) : calls[c].taken[i] = t
PendingIsPlaced ==
  \A t \in Tickets : Exists(t) /\ ~Settled(t) => IsQueued(t) \/ IsTaken(t)

PlacesInv ==
  /\ NewTicketsArePending
  /\ QueuesOK
  /\ AllTakenOK
  /\ TakenOnce
  /\ PendingIsPlaced

-----------------------------------------------------------------------------
(* Pairs *)

KeyAt(f, i) == load[f.taken[f.offset + i]].key

\* The keys in the hands of the batch function, and the values it returned,
\* stand at the positions of their tickets.
PairedOK(f) ==
  /\ f.phase = "batch" => \A i \in 1 .. f.size : f.keys[i] = KeyAt(f, i)
  /\ f.phase \in {"settle", "notify"} /\ f.reply = "values" =>
       \A i \in 1 .. f.size : f.values[i] \in {KeyAt(f, i), ErrorOf(KeyAt(f, i))}
PairsInv == \A c \in 1 .. Len(calls) : PairedOK(calls[c])

-----------------------------------------------------------------------------
(* The hook *)

\* While a hook runs no user code does, and if its pass has dispatched nothing
\* so far, the loaders it passed are drained.
PassedAreDrained ==
  HookRuns =>
    /\ ~LoadManyRuns
    /\ Head(hooks).round = 0 =>
         \A l \in Loaders : l < Head(hooks).loader => queue[l] = <<>>

-----------------------------------------------------------------------------
(* Slots *)

Slot(c, i) == [call |-> c, index |-> i]

\* Slot s is a position of a load_many call that was loaded as ticket t.
SlotOf(s, t) ==
  /\ s.call \in 1 .. Len(many)
  /\ s.index \in 1 .. many[s.call].at
  /\ many[s.call].waits[s.index] = t
SlotsOK(w, t) ==
  /\ \A j \in 1 .. Len(w) : SlotOf(w[j], t)
  /\ \A i, j \in 1 .. Len(w) : w[i] = w[j] => i = j

SubscribersOK ==
  \A t \in Tickets : /\ Settled(t) => subscribers[t] = <<>>
                     /\ SlotsOK(subscribers[t], t)
WaitingOK ==
  \A c \in 1 .. Len(calls) : SlotsOK(calls[c].waiting, CurrentTicket(calls[c]))

\* The two places where a slot waits.
Subscribed(s, t) == \E j \in 1 .. Len(subscribers[t]) : subscribers[t][j] = s
Calling(s) ==
  \E f \in 1 .. Len(calls) :
    \E j \in 1 .. Len(calls[f].waiting) : calls[f].waiting[j] = s

Waits(c, i) ==
  Subscribed(Slot(c, i), many[c].waits[i]) \/ Calling(Slot(c, i))
Done(c) == {i \in 1 .. many[c].at : ~Waits(c, i)}

DeliveredOK ==
  \A c \in 1 .. Len(many) : \A i \in Done(c) :
    /\ Settled(many[c].waits[i])
    /\ many[c].results[i] = Outcome(many[c].waits[i])
CountdownOK ==
  \A c \in 1 .. Len(many) :
    many[c].remaining = Len(many[c].keys) - Cardinality(Done(c))

SlotsInv == SubscribersOK /\ WaitingOK /\ DeliveredOK /\ CountdownOK

-----------------------------------------------------------------------------
(* Records and the stack of dispatches *)

\* What the constants are.
LEMMA ConstantFacts ==
  /\ MaxTickets \in Nat /\ MaxMany \in Nat /\ LoaderCount \in Nat
  /\ Tickets = 1 .. MaxTickets /\ Loaders = 1 .. LoaderCount
  /\ None \notin Tickets /\ None \in Values
  /\ \A k \in LoadKeys : k \in Values /\ ErrorOf(k) \in Values /\ ErrorOf(k) \in Errors
  /\ \A k \in LoadKeys : k \notin Errors
BY LoadersAssumption, BoundsAssumption, NoneAssumption, ErrorsAssumption
   DEF Tickets, Loaders, Values, Errors

\* The frames a dispatch goes through are frames.
LEMMA FrameTypes ==
  /\ \A f \in Frames, n \in Nat : ChunkKeys(f, n) \in Seq(LoadKeys) => Batching(f, n) \in Frames
  /\ \A f \in Frames, r \in {"values", "dies"}, v \in Seq(LoadKeys \cup Errors) :
       Replied(f, r, v) \in Frames
  /\ \A f \in Frames, w \in Seq(Slots) : Notifying(f, w) \in Frames
  /\ \A f \in Frames : AtNextEntry(f) \in Frames /\ AtNextChunk(f) \in Frames
BY EmptySeq DEF Frames, Batching, Replied, Notifying, AtNextEntry, AtNextChunk

\* The innermost dispatch is the first of the stack.
LEMMA TopFacts ==
  ASSUME TypeOK, calls # <<>>
  PROVE  /\ Head(calls) = calls[1] /\ calls[1] \in Frames
         /\ Len(calls) \in Nat /\ 1 \in 1 .. Len(calls)
BY DEF TypeOK

\* What changing the innermost dispatch leaves of the stack.
LEMMA SetTopFacts ==
  ASSUME TypeOK, calls # <<>>, NEW f \in Frames, SetTop(f)
  PROVE  /\ calls' \in Seq(Frames) /\ Len(calls') = Len(calls)
         /\ calls' # <<>> /\ calls'[1] = f
         /\ \A c \in 1 .. Len(calls) : c # 1 => calls'[c] = calls[c]
BY TopFacts DEF SetTop, TypeOK

\* What starting a dispatch makes of the stack.
LEMMA PushFacts ==
  ASSUME TypeOK, NEW f \in Frames, calls' = <<f>> \o calls
  PROVE  /\ calls' \in Seq(Frames) /\ Len(calls') = Len(calls) + 1
         /\ calls' # <<>> /\ calls'[1] = f
         /\ \A c \in 1 .. Len(calls') :
              c # 1 => c - 1 \in 1 .. Len(calls) /\ calls'[c] = calls[c - 1]
         /\ \A c \in 1 .. Len(calls) : calls'[c + 1] = calls[c]
<1>1. calls \in Seq(Frames) /\ Len(calls) \in Nat
  BY DEF TypeOK
<1>2. <<f>> \in Seq(Frames) /\ Len(<<f>>) = 1 /\ <<f>>[1] = f
  OBVIOUS
<1>3. /\ calls' \in Seq(Frames) /\ Len(calls') = 1 + Len(calls)
      /\ \A i \in 1 .. 1 + Len(calls) :
           calls'[i] = IF i <= 1 THEN <<f>>[i] ELSE calls[i - 1]
  BY <1>1, <1>2, ConcatProperties
<1> QED BY <1>1, <1>2, <1>3

\* What the return of a dispatch leaves of the stack.
LEMMA PopFacts ==
  ASSUME TypeOK, calls # <<>>, calls' = Tail(calls)
  PROVE  /\ calls' \in Seq(Frames) /\ Len(calls') = Len(calls) - 1
         /\ \A c \in 1 .. Len(calls') :
              c + 1 \in 1 .. Len(calls) /\ calls'[c] = calls[c + 1]
BY HeadTailProperties DEF TypeOK

\* How deep a hook was called is a number.
LEMMA HookDepths ==
  ASSUME TypeOK
  PROVE  /\ hooks \in Seq(Hooks) /\ Len(hooks) \in Nat /\ Len(calls) \in Nat
         /\ \A h \in 1 .. Len(hooks) : hooks[h].depth \in Nat
<1>1. hooks \in Seq(Hooks) /\ Len(hooks) \in Nat /\ Len(calls) \in Nat
  BY DEF TypeOK
<1>2. \A h \in 1 .. Len(hooks) : hooks[h] \in Hooks
  BY <1>1
<1>3. \A h \in Hooks : h.depth \in Nat
  BY DEF Hooks
<1> QED BY <1>1, <1>2, <1>3

\* What is made of a chunk: at least one key, at most those left.
LEMMA ChunkFacts ==
  ASSUME NEW l \in Loaders, NEW left \in Nat, left > 0
  PROVE  ChunkSize(l, left) \in 1 .. left
BY BatchAssumption DEF ChunkSize, Min

\* The ticket load returns exists once load has returned.
LEMMA LoadTicketFacts ==
  ASSUME TypeOK, CacheOK, NEW l \in Loaders, NEW k \in LoadKeys
  PROVE  /\ Hit(l, k) => LoadTicket(l, k) \in Tickets /\ Exists(LoadTicket(l, k))
         /\ ~Hit(l, k) => LoadTicket(l, k) = made + 1
BY ConstantFacts DEF TypeOK, CacheOK, Hit, LoadTicket

\* A new ticket changes nothing of the tickets there are.
LEMMA NewTicketFacts ==
  ASSUME TypeOK, CacheOK, NEW l \in Loaders, NEW k \in LoadKeys,
         NEW st \in {"pending", "resolved", "rejected"}, NEW v \in Values,
         NewTicket(l, k, st, v)
  PROVE  /\ made' = made + 1 /\ made' \in Tickets /\ made' \in 0 .. MaxTickets
         /\ load' \in [Tickets -> Loads \cup {None}]
         /\ status' \in [Tickets -> {"pending", "resolved", "rejected"}]
         /\ value' \in [Tickets -> Values]
         /\ promises' \in [Loaders -> [LoadKeys -> Tickets \cup {None}]]
         /\ load'[made'] = [loader |-> l, key |-> k] /\ load'[made'] \in Loads
         /\ status'[made'] = st /\ value'[made'] = v
         /\ \A t \in Tickets : t # made' => /\ load'[t] = load[t]
                                            /\ status'[t] = status[t]
                                            /\ value'[t] = value[t]
         /\ CacheOK'
<1>1. /\ made' = made + 1 /\ made' \in Tickets /\ made' \in 0 .. MaxTickets
  BY ConstantFacts DEF NewTicket, TypeOK
<1>2. [loader |-> l, key |-> k] \in Loads
  BY DEF Loads
<1>3. /\ load' \in [Tickets -> Loads \cup {None}]
      /\ load'[made'] = [loader |-> l, key |-> k]
      /\ \A t \in Tickets : t # made' => load'[t] = load[t]
  BY <1>1, <1>2 DEF NewTicket, TypeOK
<1>4. /\ status' \in [Tickets -> {"pending", "resolved", "rejected"}]
      /\ status'[made'] = st
      /\ \A t \in Tickets : t # made' => status'[t] = status[t]
  BY <1>1 DEF NewTicket, TypeOK
<1>5. /\ value' \in [Tickets -> Values]
      /\ value'[made'] = v
      /\ \A t \in Tickets : t # made' => value'[t] = value[t]
  BY <1>1 DEF NewTicket, TypeOK
<1>6. /\ promises' \in [Loaders -> [LoadKeys -> Tickets \cup {None}]]
      /\ \A m \in Loaders, j \in LoadKeys :
           promises'[m][j] = promises[m][j] \/ promises'[m][j] = made'
  BY <1>1 DEF NewTicket, TypeOK
<1>7. ASSUME NEW m \in Loaders, NEW j \in LoadKeys, promises'[m][j] # None
      PROVE  promises'[m][j] <= made'
  <2>1. CASE promises'[m][j] = promises[m][j]
    <3>1. promises[m][j] \in Tickets /\ promises[m][j] <= made
      BY <1>7, <2>1 DEF CacheOK, Exists, TypeOK
    <3> QED BY <2>1, <3>1, <1>1, ConstantFacts DEF TypeOK
  <2>2. CASE promises'[m][j] = made'
    BY <2>2, <1>1, ConstantFacts
  <2> QED BY <2>1, <2>2, <1>6
<1>8. CacheOK'
  BY <1>7 DEF CacheOK, Exists
<1> QED BY <1>1, <1>2, <1>3, <1>4, <1>5, <1>6, <1>8

-----------------------------------------------------------------------------
(* Shape is invariant *)

\* A step that changes no dispatch and no load_many call, and forgets no
\* ticket, keeps their shape.
LEMMA ShapeKept ==
  ASSUME ShapeInv, made \in Nat, made' \in Nat, made <= made'
  PROVE  /\ calls' = calls /\ hooks' = hooks => FramesOK' /\ HooksOK'
         /\ many' = many => ManyCallsOK'
         /\ calls' = calls => TakenExist'
         /\ queue' = queue => QueuedExist'
<1>1. ASSUME many' = many, NEW c \in 1 .. Len(many)
      PROVE  ManyCallOK(many[c])'
  <2>1. ManyCallOK(many[c])
    BY DEF ShapeInv, ManyCallsOK
  <2>2. many'[c] = many[c]
    BY <1>1
  <2> QED BY <2>1, <2>2 DEF ManyCallOK
<1>2. many' = many => ManyCallsOK'
  BY <1>1 DEF ManyCallsOK
<1>3. /\ \A c \in 1 .. Len(calls) : calls[c].taken \in Seq(Tickets)
      /\ \A l \in Loaders : queue[l] \in Seq(Tickets)
  <2>1. calls \in Seq(Frames) /\ queue \in [Loaders -> Seq(Tickets)]
    BY DEF ShapeInv, TypeOK
  <2>2. \A c \in 1 .. Len(calls) : calls[c] \in Frames
    BY <2>1
  <2>3. \A f \in Frames : f.taken \in Seq(Tickets)
    BY DEF Frames
  <2> QED BY <2>1, <2>2, <2>3
<1>4. calls' = calls => TakenExist'
  BY <1>3, ConstantFacts DEF ShapeInv, TakenExist, Exists
<1>5. queue' = queue => QueuedExist'
  BY <1>3, ConstantFacts DEF ShapeInv, QueuedExist, Exists
<1> QED BY <1>2, <1>4, <1>5 DEF ShapeInv, FramesOK, HooksOK

\* A step that only moves the innermost dispatch keeps the shape of the others.
LEMMA ShapeSetTop ==
  ASSUME ShapeInv, calls # <<>>, NEW f \in Frames, FrameOK(f),
         f.taken = calls[1].taken, SetTop(f),
         hooks' = hooks, made' = made
  PROVE  calls' \in Seq(Frames) /\ FramesOK' /\ HooksOK' /\ TakenExist'
<1>1. TypeOK
  BY DEF ShapeInv
<1>2. /\ calls' \in Seq(Frames) /\ Len(calls') = Len(calls) /\ calls'[1] = f
      /\ \A c \in 1 .. Len(calls) : c # 1 => calls'[c] = calls[c]
      /\ 1 \in 1 .. Len(calls)
  BY <1>1, SetTopFacts, TopFacts
<1>3. TakenExist'
  BY <1>2 DEF ShapeInv, TakenExist, Exists
<1> QED BY <1>2, <1>3 DEF ShapeInv, FramesOK, HooksOK

\* The innermost dispatch has its shape.
LEMMA TopShape ==
  ASSUME ShapeInv, calls # <<>>
  PROVE  /\ Head(calls) = calls[1] /\ calls[1] \in Frames /\ FrameOK(calls[1])
         /\ Len(calls) \in Nat /\ 1 \in 1 .. Len(calls)
BY TopFacts DEF ShapeInv, FramesOK

\* A dispatch that starts has its shape.
LEMMA NewCallShape ==
  ASSUME TypeOK, NEW l \in Loaders, queue[l] # <<>>
  PROVE  NewCall(l) \in Frames /\ FrameOK(NewCall(l))
<1>1. queue[l] \in Seq(Tickets) /\ Len(queue[l]) \in Nat
  BY DEF TypeOK
<1> QED BY <1>1, EmptySeq DEF NewCall, Frames, FrameOK

\* load
LEMMA LoadShape ==
  ASSUME ShapeInv, NEW l \in Loaders, NEW k \in LoadKeys, EnqueueLoadMiss(l, k)
  PROVE  /\ made' \in 0 .. MaxTickets /\ made <= made' /\ made \in Nat /\ made' \in Nat
         /\ load' \in [Tickets -> Loads \cup {None}]
         /\ \A t \in Tickets : Exists(t)' => load'[t] \in Loads
         /\ status' \in [Tickets -> {"pending", "resolved", "rejected"}]
         /\ value' \in [Tickets -> Values]
         /\ promises' \in [Loaders -> [LoadKeys -> Tickets \cup {None}]]
         /\ queue' \in [Loaders -> Seq(Tickets)]
         /\ CacheOK' /\ QueuedExist'
<1>1. TypeOK /\ CacheOK /\ None \in Values
  BY ConstantFacts DEF ShapeInv
<1>2. NewTicket(l, k, "pending", None)
  BY DEF EnqueueLoadMiss
<1>3. /\ made' = made + 1 /\ made' \in Tickets /\ made' \in 0 .. MaxTickets
      /\ load' \in [Tickets -> Loads \cup {None}]
      /\ status' \in [Tickets -> {"pending", "resolved", "rejected"}]
      /\ value' \in [Tickets -> Values]
      /\ promises' \in [Loaders -> [LoadKeys -> Tickets \cup {None}]]
      /\ load'[made'] \in Loads
      /\ \A t \in Tickets : t # made' => load'[t] = load[t]
      /\ CacheOK'
  BY <1>1, <1>2, NewTicketFacts
<1>4. \A t \in Tickets : Exists(t)' => load'[t] \in Loads
  <2>1. ASSUME NEW t \in Tickets, t <= made', t # made'
        PROVE  load[t] \in Loads
    <3>1. t \in Nat /\ made \in Nat
      BY <1>1, ConstantFacts DEF TypeOK
    <3>2. t <= made
      BY <1>3, <2>1, <3>1
    <3> QED BY <1>1, <3>2 DEF TypeOK, Exists
  <2> QED BY <1>3, <2>1 DEF Exists
<1>5. queue' \in [Loaders -> Seq(Tickets)]
  BY <1>1, <1>3 DEF EnqueueLoadMiss, TypeOK
<1>6. made <= made' /\ made \in Nat /\ made' \in Nat
  BY <1>1, <1>3 DEF TypeOK
<1>7. ASSUME NEW m \in Loaders, NEW i \in 1 .. Len(queue'[m])
      PROVE  queue'[m][i] <= made'
  <2>1. /\ queue[m] \in Seq(Tickets) /\ Len(queue[m]) \in Nat
        /\ made \in Nat /\ made' = made + 1 /\ made + 1 \in Tickets
    BY <1>1, <1>3 DEF TypeOK
  <2>2. CASE i \in 1 .. Len(queue[m])
    <3>1. queue'[m][i] = queue[m][i]
      <4>1. queue' = [queue EXCEPT ![l] = Append(@, made + 1)]
        BY DEF EnqueueLoadMiss
      <4> QED BY <1>1, <2>1, <2>2, <4>1 DEF TypeOK
    <3>2. queue[m][i] <= made /\ queue[m][i] \in Tickets
      BY <2>1, <2>2 DEF ShapeInv, QueuedExist, Exists
    <3> QED BY <2>1, <3>1, <3>2, ConstantFacts
  <2>3. CASE i \notin 1 .. Len(queue[m])
    <3>1. queue' = [queue EXCEPT ![l] = Append(@, made + 1)]
      BY DEF EnqueueLoadMiss
    <3>2. queue'[m][i] = made + 1
      BY <1>1, <2>1, <2>3, <3>1 DEF TypeOK
    <3> QED BY <2>1, <3>2
  <2> QED BY <2>2, <2>3
<1>8. QueuedExist'
  BY <1>7 DEF QueuedExist, Exists
<1> QED BY <1>3, <1>4, <1>5, <1>6, <1>8

\* prime
LEMMA PrimeShape ==
  ASSUME ShapeInv, NEW l \in Loaders, NEW k \in LoadKeys, Prime(l, k)
  PROVE  ShapeInv'
<1>1. TypeOK /\ CacheOK /\ Primed \in Values
  BY DEF ShapeInv, Values
<1>2. NewTicket(l, k, "resolved", Primed)
  BY DEF Prime
<1>3. /\ made' = made + 1 /\ made' \in Tickets /\ made' \in 0 .. MaxTickets
      /\ load' \in [Tickets -> Loads \cup {None}]
      /\ status' \in [Tickets -> {"pending", "resolved", "rejected"}]
      /\ value' \in [Tickets -> Values]
      /\ promises' \in [Loaders -> [LoadKeys -> Tickets \cup {None}]]
      /\ load'[made'] \in Loads
      /\ \A t \in Tickets : t # made' => load'[t] = load[t]
      /\ CacheOK'
  BY <1>1, <1>2, NewTicketFacts
<1>4. \A t \in Tickets : Exists(t)' => load'[t] \in Loads
  <2>1. ASSUME NEW t \in Tickets, t <= made', t # made'
        PROVE  load[t] \in Loads
    <3>1. t \in Nat /\ made \in Nat
      BY <1>1, ConstantFacts DEF TypeOK
    <3>2. t <= made
      BY <1>3, <2>1, <3>1
    <3> QED BY <1>1, <3>2 DEF TypeOK, Exists
  <2> QED BY <1>3, <2>1 DEF Exists
<1>5. TypeOK'
  BY <1>1, <1>3, <1>4 DEF TypeOK, Prime
<1>6. made <= made' /\ made \in Nat /\ made' \in Nat
  BY <1>1, <1>3 DEF TypeOK
<1>7. FramesOK' /\ HooksOK' /\ ManyCallsOK' /\ QueuedExist' /\ TakenExist'
  BY <1>6, ShapeKept DEF Prime
<1> QED BY <1>3, <1>5, <1>7 DEF ShapeInv

\* load, when the key is not cached
LEMMA LoadStepShape ==
  ASSUME ShapeInv, NEW l \in Loaders, NEW k \in LoadKeys, Load(l, k)
  PROVE  ShapeInv'
<1>1. /\ EnqueueLoadMiss(l, k)
      /\ UNCHANGED <<subscribers, calls, hooks, many>>
  BY DEF Load
<1>2. TypeOK'
  BY <1>1, LoadShape DEF TypeOK, ShapeInv
<1>3. FramesOK' /\ HooksOK' /\ ManyCallsOK' /\ TakenExist'
  BY <1>1, LoadShape, ShapeKept
<1> QED BY <1>1, <1>2, <1>3, LoadShape DEF ShapeInv

\* clear and clear_all
LEMMA ClearShape ==
  ASSUME ShapeInv, NEW l \in Loaders,
         ClearAll(l) \/ \E k \in LoadKeys : Clear(l, k)
  PROVE  ShapeInv'
<1>1. TypeOK /\ CacheOK
  BY DEF ShapeInv
<1>2. UNCHANGED <<made, load, status, value, subscribers, queue, calls, hooks, many>>
  BY DEF Clear, ClearAll
<1>3. /\ promises' \in [Loaders -> [LoadKeys -> Tickets \cup {None}]]
      /\ \A m \in Loaders, j \in LoadKeys :
           promises'[m][j] = promises[m][j] \/ promises'[m][j] = None
  <2>1. promises \in [Loaders -> [LoadKeys -> Tickets \cup {None}]]
    BY <1>1 DEF TypeOK
  <2>2. CASE ClearAll(l)
    BY <2>1, <2>2 DEF ClearAll
  <2>3. ASSUME NEW k \in LoadKeys, Clear(l, k)
        PROVE  /\ promises' \in [Loaders -> [LoadKeys -> Tickets \cup {None}]]
               /\ \A m \in Loaders, j \in LoadKeys :
                    promises'[m][j] = promises[m][j] \/ promises'[m][j] = None
    BY <2>1, <2>3 DEF Clear
  <2> QED BY <2>2, <2>3
<1>4. TypeOK'
  BY <1>1, <1>2, <1>3 DEF TypeOK, Exists
<1>5. CacheOK'
  BY <1>1, <1>2, <1>3 DEF CacheOK, Exists
<1>6. made <= made' /\ made \in Nat /\ made' \in Nat
  BY <1>1, <1>2 DEF TypeOK
<1>7. FramesOK' /\ HooksOK' /\ ManyCallsOK' /\ QueuedExist' /\ TakenExist'
  BY <1>2, <1>6, ShapeKept
<1> QED BY <1>4, <1>5, <1>7 DEF ShapeInv

\* load_many, before its loop
LEMMA LoadManyShape ==
  ASSUME ShapeInv, NEW l \in Loaders, NEW keys \in ManyKeys, LoadMany(l, keys)
  PROVE  ShapeInv'
<1> DEFINE new ==
       [loader |-> l, keys |-> keys, at |-> 0, remaining |-> Len(keys),
        waits |-> [i \in 1 .. Len(keys) |-> None],
        results |-> [i \in 1 .. Len(keys) |-> None]]
<1>1. TypeOK /\ CacheOK /\ None \in Values
  BY ConstantFacts DEF ShapeInv
<1>2. UNCHANGED <<made, load, status, value, subscribers, promises, queue, calls, hooks>>
  BY DEF LoadMany, tickets
<1>3. keys \in Seq(LoadKeys) /\ Len(keys) \in Nat
  BY ManyAssumption
<1>4. /\ new.waits \in Seq(Tickets \cup {None}) /\ Len(new.waits) = Len(keys)
      /\ new.results \in Seq(Values) /\ Len(new.results) = Len(keys)
  BY <1>1, <1>3
<1>5. new \in ManyCalls
  BY <1>3, <1>4 DEF ManyCalls
<1>6. /\ many' \in Seq(ManyCalls) /\ Len(many') = Len(many) + 1
      /\ Len(many) \in Nat /\ Len(many) < MaxMany
      /\ many'[Len(many')] = new
      /\ \A c \in 1 .. Len(many) : many'[c] = many[c]
  <2> HIDE DEF new
  <2>1. many \in Seq(ManyCalls) /\ many' = Append(many, new) /\ Len(many) < MaxMany
    BY <1>1 DEF TypeOK, LoadMany, new
  <2> QED BY <2>1, <1>5, AppendProperties
<1>7. TypeOK'
  BY <1>1, <1>2, <1>6, ConstantFacts DEF TypeOK, Exists
<1>8. made <= made' /\ made \in Nat /\ made' \in Nat
  BY <1>1, <1>2 DEF TypeOK
<1>9. FramesOK' /\ HooksOK' /\ QueuedExist' /\ TakenExist'
  BY <1>2, <1>8, ShapeKept
<1>10. ASSUME NEW c \in 1 .. Len(many')
       PROVE  ManyCallOK(many[c])'
  <2>1. CASE c = Len(many')
    BY <2>1, <1>3, <1>4, <1>6 DEF ManyCallOK
  <2>2. CASE c # Len(many')
    <3>1. c \in 1 .. Len(many) /\ many'[c] = many[c]
      BY <2>2, <1>6
    <3>2. ManyCallOK(many[c])
      BY <3>1 DEF ShapeInv, ManyCallsOK
    <3> QED BY <3>1, <3>2, <1>2 DEF ManyCallOK
  <2> QED BY <2>1, <2>2
<1>11. CacheOK'
  BY <1>1, <1>2 DEF CacheOK, Exists
<1> QED BY <1>7, <1>9, <1>10, <1>11 DEF ShapeInv, ManyCallsOK

\* What an iteration of load_many works on.
LEMMA LoopFacts ==
  ASSUME TypeOK, ManyCallsOK, LoadManyRuns
  PROVE  LET c == Len(many)
             i == many[c].at + 1
         IN  /\ c \in 1 .. Len(many) /\ c \in Manys /\ Len(many) \in Nat
             /\ many[c] \in ManyCalls /\ ManyCallOK(many[c])
             /\ i \in 1 .. Len(many[c].keys) /\ i \in Nat \ {0}
             /\ i \in 1 .. Len(many[c].waits) /\ i \in 1 .. Len(many[c].results)
             /\ many[c].loader \in Loaders /\ many[c].keys[i] \in LoadKeys
             /\ [call |-> c, index |-> i] \in Slots
<1> DEFINE c == Len(many)
           i == many[c].at + 1
<1>1. many \in Seq(ManyCalls) /\ Len(many) \in Nat /\ Len(many) <= MaxMany /\ many # <<>>
  BY DEF TypeOK, LoadManyRuns
<1>2. c \in 1 .. Len(many) /\ c \in Manys
  BY <1>1, ConstantFacts DEF Manys
<1>3. many[c] \in ManyCalls
  BY <1>1, <1>2
<1>4. /\ many[c].loader \in Loaders /\ many[c].keys \in Seq(LoadKeys)
      /\ many[c].at \in Nat
  BY <1>3 DEF ManyCalls
<1>5. ManyCallOK(many[c])
  BY <1>2 DEF ManyCallsOK
<1>6. many[c].at < Len(many[c].keys) /\ Len(many[c].keys) \in Nat
  BY <1>4 DEF LoadManyRuns
<1>7. i \in 1 .. Len(many[c].keys) /\ i \in Nat \ {0}
  BY <1>4, <1>6
<1>8. i \in 1 .. Len(many[c].waits) /\ i \in 1 .. Len(many[c].results)
  BY <1>5, <1>7 DEF ManyCallOK
<1>9. many[c].keys[i] \in LoadKeys
  BY <1>4, <1>7
<1>10. [call |-> c, index |-> i] \in Slots
  BY <1>2, <1>7 DEF Slots
<1> QED BY <1>1, <1>2, <1>3, <1>4, <1>5, <1>7, <1>8, <1>9, <1>10

\* A call that goes on to its next key keeps its type and its lengths.
LEMMA AwaitingTypes ==
  ASSUME NEW m \in ManyCalls, NEW i \in 1 .. Len(m.waits), NEW t \in Tickets
  PROVE  /\ Awaiting(m, i, t) \in ManyCalls
         /\ Len(Awaiting(m, i, t).waits) = Len(m.waits)
         /\ Awaiting(m, i, t).waits[i] = t
         /\ \A j \in 1 .. Len(m.waits) :
              j # i => Awaiting(m, i, t).waits[j] = m.waits[j]
<1>1. /\ m.waits \in Seq(Tickets \cup {None}) /\ m.results \in Seq(Values)
      /\ m.loader \in Loaders /\ m.keys \in Seq(LoadKeys) /\ m.at \in Nat
      /\ m.remaining \in Int /\ i \in Nat
  BY DEF ManyCalls
<1> DEFINE w == [m.waits EXCEPT ![i] = t]
<1>2. /\ w \in Seq(Tickets \cup {None}) /\ Len(w) = Len(m.waits)
      /\ w[i] = t /\ \A j \in 1 .. Len(m.waits) : j # i => w[j] = m.waits[j]
  BY <1>1
<1>3. Awaiting(m, i, t) = [loader |-> m.loader, keys |-> m.keys, at |-> i,
        waits |-> w, results |-> m.results, remaining |-> m.remaining]
  BY DEF Awaiting
<1> HIDE DEF w
<1> QED BY <1>1, <1>2, <1>3 DEF ManyCalls

\* One that fills a slot does too.
LEMMA FilledTypes ==
  ASSUME NEW m \in ManyCalls, NEW i \in 1 .. Len(m.results), NEW v \in Values
  PROVE  /\ Filled(m, i, v) \in ManyCalls
         /\ Len(Filled(m, i, v).results) = Len(m.results)
         /\ Filled(m, i, v).results[i] = v
         /\ \A j \in 1 .. Len(m.results) :
              j # i => Filled(m, i, v).results[j] = m.results[j]
<1>1. /\ m.waits \in Seq(Tickets \cup {None}) /\ m.results \in Seq(Values)
      /\ m.loader \in Loaders /\ m.keys \in Seq(LoadKeys) /\ m.at \in Nat
      /\ m.remaining \in Int /\ i \in Nat
  BY DEF ManyCalls
<1> DEFINE w == [m.results EXCEPT ![i] = v]
<1>2. /\ w \in Seq(Values) /\ Len(w) = Len(m.results)
      /\ w[i] = v /\ \A j \in 1 .. Len(m.results) : j # i => w[j] = m.results[j]
  BY <1>1
<1> HIDE DEF w
<1>3. Filled(m, i, v).results = w
  BY DEF Filled, w
<1>4. Filled(m, i, v) \in ManyCalls
  BY <1>1, <1>2 DEF Filled, ManyCalls, w
<1> QED BY <1>2, <1>3, <1>4

\* What a ticket delivers is a value.
LEMMA OutcomeType ==
  ASSUME TypeOK, NEW t \in Tickets
  PROVE  Outcome(t) \in Values
BY DEF TypeOK, Outcome, Values

\* What a callback of load_many does to the calls.
LEMMA DeliverFacts ==
  ASSUME NEW ms \in Seq(ManyCalls), NEW slot, NEW v \in Values,
         slot.call \in 1 .. Len(ms), slot.index \in 1 .. Len(ms[slot.call].waits),
         slot.index \in 1 .. Len(ms[slot.call].results)
  PROVE  LET new == Deliver(ms, slot, v)
             old == ms[slot.call]
             m   == new[slot.call]
         IN  /\ new \in Seq(ManyCalls) /\ Len(new) = Len(ms)
             /\ \A d \in 1 .. Len(ms) : d # slot.call => new[d] = ms[d]
             /\ m \in ManyCalls
             /\ m.loader = old.loader /\ m.keys = old.keys /\ m.at = old.at
             /\ m.waits = old.waits
             /\ m.remaining = old.remaining - 1
             /\ Len(m.results) = Len(old.results)
             /\ m.results[slot.index] = v
             /\ \A j \in 1 .. Len(old.results) :
                  j # slot.index => m.results[j] = old.results[j]
<1> DEFINE c == slot.call
           i == slot.index
           f == Filled(ms[c], i, v)
           new == Deliver(ms, slot, v)
<1>1. ms[c] \in ManyCalls
  OBVIOUS
<1>2. /\ f \in ManyCalls
      /\ Len(f.results) = Len(ms[c].results)
      /\ f.results[i] = v
      /\ \A j \in 1 .. Len(ms[c].results) : j # i => f.results[j] = ms[c].results[j]
  BY <1>1, FilledTypes
<1>3. /\ f.loader = ms[c].loader /\ f.keys = ms[c].keys /\ f.at = ms[c].at
      /\ f.waits = ms[c].waits /\ f.remaining = ms[c].remaining - 1
  BY DEF Filled
<1>4. /\ new \in Seq(ManyCalls) /\ Len(new) = Len(ms) /\ new[c] = f
      /\ \A d \in 1 .. Len(ms) : d # c => new[d] = ms[d]
  <2> HIDE DEF f
  <2>1. new = [ms EXCEPT ![c] = f]
    BY DEF Deliver, f
  <2> QED BY <2>1, <1>2
<1> HIDE DEF f
<1> QED BY <1>2, <1>3, <1>4

\* What an iteration of load_many does to its call c, m after the step, whose key
\* at position i is loaded as ticket t.
LoopCall(c, i, t, m) ==
  /\ many' \in Seq(ManyCalls) /\ Len(many') = Len(many)
  /\ \A d \in 1 .. Len(many) : d # c => many'[d] = many[d]
  /\ m.loader = many[c].loader /\ m.keys = many[c].keys /\ m.at = i
  /\ Len(m.waits) = Len(many[c].waits) /\ Len(m.results) = Len(many[c].results)
  /\ m.waits[i] = t
  /\ \A j \in 1 .. Len(many[c].waits) : j # i => m.waits[j] = many[c].waits[j]
  /\ \A j \in 1 .. Len(many[c].results) : j # i => m.results[j] = many[c].results[j]

\* What it does to the tickets.
LoopTicket(c, i, t) ==
  LET hit == Hit(many[c].loader, many[c].keys[i]) IN
  /\ t \in Tickets /\ t \in 1 .. made'
  /\ hit => t \in 1 .. made /\ UNCHANGED <<tickets, queue>>
  /\ ~hit => t = made + 1 /\ EnqueueLoadMiss(many[c].loader, many[c].keys[i])

\* Whether it fills the slot or subscribes.
LoopOutcome(c, i, t, m) ==
  LET hit == Hit(many[c].loader, many[c].keys[i]) IN
  /\ hit /\ Settled(t) => /\ m.results[i] = Outcome(t)
                          /\ m.remaining = many[c].remaining - 1
                          /\ subscribers' = subscribers
  /\ ~(hit /\ Settled(t)) =>
       /\ m.remaining = many[c].remaining
       /\ subscribers' = [subscribers EXCEPT ![t] = Append(@, [call |-> c, index |-> i])]

\* What an iteration of load_many does to its call: the key is loaded and its
\* ticket remembered; a settled ticket fills the slot at once.
LEMMA LoopEffect ==
  ASSUME ShapeInv, LoadManyNext,
         NEW c, NEW i, NEW t, NEW m,
         c = Len(many), i = many[c].at + 1,
         t = LoadTicket(many[c].loader, many[c].keys[i]),
         m = many'[c]
  PROVE  LoopCall(c, i, t, m) /\ LoopTicket(c, i, t) /\ LoopOutcome(c, i, t, m)
<1> DEFINE l == many[c].loader
           k == many[c].keys[i]
           slot == [call |-> c, index |-> i]
           a == Awaiting(many[c], i, t)
           next == [many EXCEPT ![c] = Awaiting(many[c], i, t)]
<1>1. TypeOK /\ CacheOK /\ ManyCallsOK /\ LoadManyRuns
  BY DEF ShapeInv, LoadManyNext
<1>2. /\ c \in 1 .. Len(many) /\ many[c] \in ManyCalls
      /\ i \in 1 .. Len(many[c].waits) /\ i \in 1 .. Len(many[c].results)
      /\ l \in Loaders /\ k \in LoadKeys
      /\ many \in Seq(ManyCalls)
  BY <1>1, LoopFacts DEF TypeOK
<1>3. /\ IF Hit(l, k) THEN UNCHANGED <<tickets, queue>> ELSE EnqueueLoadMiss(l, k)
      /\ IF Hit(l, k) /\ Settled(t)
         THEN many' = Deliver(next, slot, Outcome(t)) /\ UNCHANGED subscribers
         ELSE /\ many' = next
              /\ subscribers' = [subscribers EXCEPT ![t] = Append(@, slot)]
  BY DEF LoadManyNext
<1>4. /\ Hit(l, k) => t \in Tickets /\ t \in 1 .. made /\ made' = made
      /\ ~Hit(l, k) => t = made + 1 /\ t \in Tickets /\ made' = made + 1
  <2>1. CASE Hit(l, k)
    <3>1. t \in Tickets /\ t <= made /\ made \in Nat
      BY <2>1, <1>1, <1>2, LoadTicketFacts DEF Exists, TypeOK
    <3>2. made' = made
      BY <2>1, <1>3 DEF tickets
    <3>3. t \in 1 .. made
      BY <3>1, ConstantFacts
    <3> QED BY <2>1, <3>1, <3>2, <3>3
  <2>2. CASE ~Hit(l, k)
    <3>1. t = made + 1
      BY <2>2, <1>1, <1>2, LoadTicketFacts
    <3>2. made < MaxTickets /\ made' = made + 1 /\ made \in Nat
      <4>1. EnqueueLoadMiss(l, k)
        BY <2>2, <1>3
      <4>2. made < MaxTickets /\ made' = made + 1
        BY <4>1 DEF EnqueueLoadMiss, NewTicket
      <4>3. made \in Nat
        BY <1>1 DEF TypeOK
      <4> QED BY <4>2, <4>3
    <3> QED BY <2>2, <3>1, <3>2, ConstantFacts
  <2> QED BY <2>1, <2>2
<1>5. t \in Tickets /\ t \in 1 .. made'
  <2>1. CASE Hit(l, k)
    BY <1>4, <2>1
  <2>2. CASE ~Hit(l, k)
    <3>1. made \in Nat
      BY <1>1 DEF TypeOK
    <3>2. t = made' /\ made' = made + 1 /\ t \in Tickets
      BY <1>4, <2>2
    <3> QED BY <3>1, <3>2
  <2> QED BY <2>1, <2>2
<1>6. /\ a \in ManyCalls
      /\ Len(a.waits) = Len(many[c].waits) /\ a.waits[i] = t
      /\ \A j \in 1 .. Len(many[c].waits) : j # i => a.waits[j] = many[c].waits[j]
  <2>1. many[c] \in ManyCalls /\ i \in 1 .. Len(many[c].waits) /\ t \in Tickets
    BY <1>2, <1>5
  <2>2. a = Awaiting(many[c], i, t)
    OBVIOUS
  <2> HIDE DEF a, next, slot, l, k
  <2>3. /\ Awaiting(many[c], i, t) \in ManyCalls
        /\ Len(Awaiting(many[c], i, t).waits) = Len(many[c].waits)
        /\ Awaiting(many[c], i, t).waits[i] = t
        /\ \A j \in 1 .. Len(many[c].waits) :
             j # i => Awaiting(many[c], i, t).waits[j] = many[c].waits[j]
    BY <2>1, AwaitingTypes
  <2> QED BY <2>2, <2>3
<1>7. /\ a.loader = many[c].loader /\ a.keys = many[c].keys /\ a.at = i
      /\ a.results = many[c].results /\ a.remaining = many[c].remaining
  BY DEF Awaiting
<1>8. /\ next \in Seq(ManyCalls) /\ Len(next) = Len(many) /\ next[c] = a
      /\ \A d \in 1 .. Len(many) : d # c => next[d] = many[d]
  <2> HIDE DEF a
  <2>1. next = [many EXCEPT ![c] = a]
    BY DEF a
  <2> QED BY <2>1, <1>2, <1>6
<1> HIDE DEF a, next
<1>9. /\ Hit(l, k) => t \in 1 .. made /\ UNCHANGED <<tickets, queue>>
      /\ ~Hit(l, k) => t = made + 1 /\ EnqueueLoadMiss(l, k)
  BY <1>3, <1>4
<1>13. LoopTicket(c, i, t)
  BY <1>5, <1>9 DEF LoopTicket
<1>10. Outcome(t) \in Values
  BY <1>1, <1>5, OutcomeType
<1>11. CASE Hit(l, k) /\ Settled(t)
  <2>1. many' = Deliver(next, slot, Outcome(t)) /\ subscribers' = subscribers
    BY <1>3, <1>11
  <2>2. slot.call = c /\ slot.index = i
    OBVIOUS
  <2>3. /\ slot.call \in 1 .. Len(next) /\ slot.index \in 1 .. Len(next[slot.call].waits)
        /\ slot.index \in 1 .. Len(next[slot.call].results)
    BY <2>2, <1>2, <1>6, <1>7, <1>8
  <2> HIDE DEF slot
  <2> DEFINE v == Outcome(t)
  <2>4. v \in Values /\ many' = Deliver(next, slot, v) /\ next \in Seq(ManyCalls)
    BY <2>1, <1>8, <1>10
  <2> HIDE DEF v
  <2>5. LET new == Deliver(next, slot, v) IN
          /\ new \in Seq(ManyCalls) /\ Len(new) = Len(next)
          /\ \A d \in 1 .. Len(next) : d # slot.call => new[d] = next[d]
          /\ new[slot.call].loader = next[slot.call].loader
          /\ new[slot.call].keys = next[slot.call].keys
          /\ new[slot.call].at = next[slot.call].at
          /\ new[slot.call].waits = next[slot.call].waits
          /\ new[slot.call].remaining = next[slot.call].remaining - 1
          /\ Len(new[slot.call].results) = Len(next[slot.call].results)
          /\ new[slot.call].results[slot.index] = v
          /\ \A j \in 1 .. Len(next[slot.call].results) :
               j # slot.index => new[slot.call].results[j] = next[slot.call].results[j]
    BY <2>3, <2>4, DeliverFacts, SMTT(60)
  <2>6. /\ many' \in Seq(ManyCalls) /\ Len(many') = Len(next)
        /\ \A d \in 1 .. Len(next) : d # c => many'[d] = next[d]
        /\ m.loader = a.loader /\ m.keys = a.keys /\ m.at = a.at
        /\ m.waits = a.waits
        /\ m.remaining = a.remaining - 1
        /\ Len(m.results) = Len(a.results)
        /\ m.results[i] = Outcome(t)
        /\ \A j \in 1 .. Len(a.results) : j # i => m.results[j] = a.results[j]
    BY <2>2, <2>4, <2>5, <1>8 DEF v
  <2>7. /\ many' \in Seq(ManyCalls) /\ Len(many') = Len(many)
        /\ \A d \in 1 .. Len(many) : d # c => many'[d] = many[d]
        /\ m.loader = many[c].loader /\ m.keys = many[c].keys /\ m.at = i
        /\ Len(m.waits) = Len(many[c].waits) /\ Len(m.results) = Len(many[c].results)
        /\ m.waits[i] = t
        /\ \A j \in 1 .. Len(many[c].waits) : j # i => m.waits[j] = many[c].waits[j]
        /\ \A j \in 1 .. Len(many[c].results) : j # i => m.results[j] = many[c].results[j]
    BY <2>6, <1>6, <1>7, <1>8
  <2>8. /\ m.results[i] = Outcome(t) /\ m.remaining = many[c].remaining - 1
        /\ subscribers' = subscribers
    BY <2>1, <2>6, <1>7
  <2>9. LoopCall(c, i, t, m)
    BY <2>7 DEF LoopCall
  <2>10. LoopOutcome(c, i, t, m)
    BY <2>8, <1>11 DEF LoopOutcome
  <2> QED BY <2>9, <2>10, <1>13
<1>12. CASE ~(Hit(l, k) /\ Settled(t))
  <2>1. many' = next /\ subscribers' = [subscribers EXCEPT ![t] = Append(@, slot)]
    BY <1>3, <1>12
  <2>2. m = a
    BY <2>1, <1>8
  <2>3. LoopCall(c, i, t, m)
    BY <2>1, <2>2, <1>6, <1>7, <1>8 DEF LoopCall
  <2>4. LoopOutcome(c, i, t, m)
    BY <2>1, <2>2, <1>7, <1>12 DEF LoopOutcome
  <2> QED BY <2>3, <2>4, <1>13
<1> QED BY <1>11, <1>12

\* What loading a key does to the tickets, whether it is cached or not.
LEMMA TicketsShape ==
  ASSUME ShapeInv, NEW l \in Loaders, NEW k \in LoadKeys,
         UNCHANGED <<tickets, queue>> \/ EnqueueLoadMiss(l, k)
  PROVE  /\ made' \in 0 .. MaxTickets /\ made <= made' /\ made \in Nat /\ made' \in Nat
         /\ load' \in [Tickets -> Loads \cup {None}]
         /\ \A t \in Tickets : Exists(t)' => load'[t] \in Loads
         /\ status' \in [Tickets -> {"pending", "resolved", "rejected"}]
         /\ value' \in [Tickets -> Values]
         /\ promises' \in [Loaders -> [LoadKeys -> Tickets \cup {None}]]
         /\ queue' \in [Loaders -> Seq(Tickets)]
         /\ CacheOK' /\ QueuedExist'
<1>1. CASE EnqueueLoadMiss(l, k)
  BY <1>1, LoadShape
<1>2. CASE UNCHANGED <<tickets, queue>>
  <2>1. TypeOK /\ CacheOK
    BY DEF ShapeInv
  <2>2. CacheOK'
    BY <2>1, <1>2 DEF CacheOK, Exists, tickets
  <2>3. QueuedExist'
    BY <1>2 DEF ShapeInv, QueuedExist, Exists, tickets
  <2> QED BY <2>1, <2>2, <2>3, <1>2 DEF TypeOK, Exists, tickets
<1> QED BY <1>1, <1>2

\* an iteration of load_many
LEMMA LoopShape ==
  ASSUME ShapeInv, LoadManyNext
  PROVE  ShapeInv'
<1> DEFINE c == Len(many)
           i == many[c].at + 1
           l == many[c].loader
           k == many[c].keys[i]
           t == LoadTicket(many[c].loader, many[c].keys[i])
           m == many'[c]
           slot == [call |-> c, index |-> i]
<1>1. TypeOK /\ ManyCallsOK /\ LoadManyRuns
  BY DEF ShapeInv, LoadManyNext
<1>2. /\ c \in 1 .. Len(many) /\ many[c] \in ManyCalls /\ ManyCallOK(many[c])
      /\ i \in 1 .. Len(many[c].keys) /\ i \in 1 .. Len(many[c].waits)
      /\ l \in Loaders /\ k \in LoadKeys
      /\ slot \in Slots /\ i = many[c].at + 1
  BY <1>1, LoopFacts
<1>3. /\ many' \in Seq(ManyCalls) /\ Len(many') = Len(many)
      /\ \A d \in 1 .. Len(many) : d # c => many'[d] = many[d]
      /\ m.keys = many[c].keys /\ m.at = i
      /\ Len(m.waits) = Len(many[c].waits) /\ Len(m.results) = Len(many[c].results)
      /\ m.waits[i] = t
      /\ \A j \in 1 .. Len(many[c].waits) : j # i => m.waits[j] = many[c].waits[j]
      /\ t \in Tickets /\ t \in 1 .. made'
      /\ UNCHANGED <<tickets, queue>> \/ EnqueueLoadMiss(l, k)
      /\ subscribers' = subscribers \/ subscribers' = [subscribers EXCEPT ![t] = Append(@, slot)]
  <2>1. LoopCall(c, i, t, m) /\ LoopTicket(c, i, t) /\ LoopOutcome(c, i, t, m)
    BY LoopEffect
  <2> HIDE DEF t, m
  <2>2. subscribers' = subscribers \/ subscribers' = [subscribers EXCEPT ![t] = Append(@, slot)]
    BY <2>1 DEF LoopOutcome
  <2>3. /\ t \in Tickets /\ t \in 1 .. made'
        /\ UNCHANGED <<tickets, queue>> \/ EnqueueLoadMiss(l, k)
    BY <2>1 DEF LoopTicket
  <2> QED BY <2>1, <2>2, <2>3 DEF LoopCall
<1>4. UNCHANGED <<calls, hooks>>
  BY DEF LoadManyNext
<1> HIDE DEF t, slot, l, k
<1>5. /\ made' \in 0 .. MaxTickets /\ made <= made' /\ made \in Nat /\ made' \in Nat
      /\ load' \in [Tickets -> Loads \cup {None}]
      /\ \A u \in Tickets : Exists(u)' => load'[u] \in Loads
      /\ status' \in [Tickets -> {"pending", "resolved", "rejected"}]
      /\ value' \in [Tickets -> Values]
      /\ promises' \in [Loaders -> [LoadKeys -> Tickets \cup {None}]]
      /\ queue' \in [Loaders -> Seq(Tickets)]
      /\ CacheOK' /\ QueuedExist'
  BY <1>2, <1>3, TicketsShape
<1>6. subscribers' \in [Tickets -> Seq(Slots)]
  <2>1. subscribers \in [Tickets -> Seq(Slots)]
    BY <1>1 DEF TypeOK
  <2>2. CASE subscribers' = [subscribers EXCEPT ![t] = Append(@, slot)]
    <3>1. t \in Tickets /\ slot \in Slots /\ subscribers[t] \in Seq(Slots)
      BY <2>1, <1>2, <1>3
    <3>2. Append(subscribers[t], slot) \in Seq(Slots)
      BY <3>1, AppendProperties
    <3> QED BY <2>1, <2>2, <3>2
  <2> QED BY <2>1, <2>2, <1>3
<1>7. TypeOK'
  BY <1>1, <1>3, <1>4, <1>5, <1>6 DEF TypeOK
<1>8. FramesOK' /\ HooksOK' /\ TakenExist'
  BY <1>4, <1>5, ShapeKept
<1>9. ASSUME NEW d \in 1 .. Len(many')
      PROVE  ManyCallOK(many[d])'
  <2>1. ManyCallOK(many[d])
    BY <1>1, <1>3 DEF ManyCallsOK
  <2>2. CASE d # c
    <3>1. many'[d] = many[d]
      BY <2>2, <1>3
    <3> QED BY <2>1, <3>1, <1>5 DEF ManyCallOK
  <2>3. CASE d = c
    <3>1. \A j \in 1 .. m.at : m.waits[j] \in 1 .. made'
      <4> SUFFICES ASSUME NEW j \in 1 .. i PROVE m.waits[j] \in 1 .. made'
        BY <1>3
      <4>1. j \in 1 .. Len(many[c].waits)
        BY <1>2
      <4>2. CASE j = i
        BY <4>2, <1>3
      <4>3. CASE j # i
        <5>1. j \in 1 .. many[c].at
          BY <4>3, <1>2 DEF ManyCalls
        <5>2. many[c].waits[j] \in 1 .. made
          BY <5>1, <1>2 DEF ManyCallOK
        <5> QED BY <4>1, <4>3, <5>2, <1>3, <1>5
      <4> QED BY <4>2, <4>3
    <3>2. /\ m.at <= Len(m.keys) /\ Len(m.waits) = Len(m.keys)
          /\ Len(m.results) = Len(m.keys)
      <4>1. Len(many[c].waits) = Len(many[c].keys) /\ Len(many[c].results) = Len(many[c].keys)
        BY <1>2 DEF ManyCallOK
      <4> QED BY <4>1, <1>2, <1>3
    <3> QED BY <2>3, <3>1, <3>2 DEF ManyCallOK
  <2> QED BY <2>2, <2>3
<1> QED BY <1>5, <1>7, <1>8, <1>9 DEF ShapeInv, ManyCallsOK

\* dispatch, from user code or from the hook
LEMMA TakeQueueShape ==
  ASSUME ShapeInv, NEW l \in Loaders, TakeQueue(l), hooks' = hooks,
         UNCHANGED <<tickets, subscribers, many>>
  PROVE  ShapeInv'
<1> DEFINE f == NewCall(l)
<1>1. TypeOK /\ calls \in Seq(Frames) /\ Len(calls) \in Nat /\ CacheOK
  BY DEF ShapeInv, TypeOK
<1>2. /\ queue[l] # <<>> /\ calls' = <<f>> \o calls
      /\ queue' = [queue EXCEPT ![l] = <<>>]
  BY DEF TakeQueue
<1>3. f \in Frames /\ FrameOK(f)
  BY <1>1, <1>2, NewCallShape
<1> HIDE DEF f
<1>4. /\ calls' \in Seq(Frames) /\ Len(calls') = Len(calls) + 1
      /\ calls'[1] = f
      /\ \A c \in 1 .. Len(calls') :
           c # 1 => c - 1 \in 1 .. Len(calls) /\ calls'[c] = calls[c - 1]
  BY <1>1, <1>2, <1>3, PushFacts
<1>5. queue' \in [Loaders -> Seq(Tickets)]
  BY <1>1, <1>2, EmptySeq DEF TypeOK
<1>6. TypeOK'
  BY <1>1, <1>4, <1>5 DEF TypeOK, Exists, tickets
<1>7. FramesOK'
  BY <1>3, <1>4 DEF ShapeInv, FramesOK
<1>8. HooksOK'
  <2>1. hooks \in Seq(Hooks) /\ \A h \in 1 .. Len(hooks) : hooks[h].depth \in Nat
    BY <1>1, HookDepths
  <2> QED BY <2>1, <1>1, <1>4 DEF ShapeInv, HooksOK
<1>9. made <= made' /\ made \in Nat /\ made' \in Nat
  BY <1>1 DEF TypeOK, tickets
<1>10. ManyCallsOK'
  BY <1>9, ShapeKept
<1>11. CacheOK'
  BY <1>1 DEF CacheOK, Exists, tickets
<1>12. QueuedExist'
  BY <1>1, <1>2 DEF ShapeInv, QueuedExist, Exists, TypeOK, tickets
<1>13. TakenExist'
  <2>1. \A i \in 1 .. Len(f.taken) : f.taken[i] <= made
    BY DEF ShapeInv, QueuedExist, Exists, f, NewCall
  <2>2. made' = made
    BY DEF tickets
  <2> QED BY <2>1, <2>2, <1>4 DEF ShapeInv, TakenExist, Exists
<1> QED BY <1>6, <1>7, <1>8, <1>10, <1>11, <1>12, <1>13 DEF ShapeInv

\* A step that only moves the innermost dispatch keeps everything else.
LEMMA FrameStepShape ==
  ASSUME ShapeInv, calls' \in Seq(Frames), FramesOK', HooksOK', TakenExist',
         UNCHANGED <<tickets, subscribers, queue, hooks, many>>
  PROVE  ShapeInv'
<1>1. TypeOK /\ CacheOK
  BY DEF ShapeInv
<1>2. TypeOK'
  BY <1>1 DEF TypeOK, Exists, tickets
<1>3. made <= made' /\ made \in Nat /\ made' \in Nat
  BY <1>1 DEF TypeOK, tickets
<1>4. ManyCallsOK' /\ QueuedExist'
  BY <1>3, ShapeKept
<1>5. CacheOK'
  BY <1>1 DEF CacheOK, Exists, tickets
<1> QED BY <1>2, <1>4, <1>5 DEF ShapeInv

\* The keys of a chunk are one key per entry, of the ticket at that position.
LEMMA ChunkKeysFacts ==
  ASSUME TypeOK, TakenExist, calls # <<>>, NEW n,
         n \in 1 .. (Len(calls[1].taken) - calls[1].offset)
  PROVE  /\ ChunkKeys(calls[1], n) \in Seq(LoadKeys) /\ Len(ChunkKeys(calls[1], n)) = n
         /\ \A i \in 1 .. n :
              ChunkKeys(calls[1], n)[i] = load[calls[1].taken[calls[1].offset + i]].key
<1> DEFINE f == calls[1]
<1>1. f \in Frames /\ 1 \in 1 .. Len(calls)
  BY TopFacts
<1>2. f.taken \in Seq(Tickets) /\ f.offset \in Nat /\ Len(f.taken) \in Nat /\ n \in Nat
  BY <1>1 DEF Frames
<1>3. ASSUME NEW i \in 1 .. n
      PROVE  load[f.taken[f.offset + i]].key \in LoadKeys
  <2>1. f.offset + i \in 1 .. Len(f.taken)
    BY <1>2
  <2>2. f.taken[f.offset + i] \in Tickets /\ Exists(f.taken[f.offset + i])
    BY <1>1, <1>2, <2>1 DEF TakenExist
  <2> QED BY <2>2 DEF TypeOK, Loads
<1> QED BY <1>2, <1>3 DEF ChunkKeys

\* The innermost dispatch goes on to the next chunk.
LEMMA CallBatchShape ==
  ASSUME ShapeInv, CallBatch
  PROVE  ShapeInv'
<1> DEFINE f == calls[1]
           n == ChunkSize(f.loader, Len(f.taken) - f.offset)
           g == Batching(f, n)
<1>1. TypeOK /\ CacheOK /\ calls # <<>>
  BY DEF ShapeInv, CallBatch, DispatchRuns
<1>2. f = Head(calls) /\ f \in Frames
  BY <1>1, TopShape
<1>3. f.phase = "chunk" /\ f.offset < Len(f.taken) /\ SetTop(g)
  BY <1>2 DEF CallBatch
<1>4. /\ f.loader \in Loaders /\ f.taken \in Seq(Tickets) /\ f.offset \in Nat
      /\ Len(f.taken) \in Nat
  BY <1>2 DEF Frames
<1>5. n \in 1 .. (Len(f.taken) - f.offset)
  BY <1>3, <1>4, ChunkFacts
<1>6. ChunkKeys(f, n) \in Seq(LoadKeys) /\ Len(ChunkKeys(f, n)) = n
  BY <1>1, <1>2, <1>5, ChunkKeysFacts DEF ShapeInv
<1>7. n \in Nat
  BY <1>4, <1>5
<1> HIDE DEF n
<1>8. g \in Frames
  BY <1>2, <1>6, <1>7, FrameTypes
<1>9. g.taken = f.taken
  BY DEF Batching
<1>10. FrameOK(g)
  <2>1. f.taken # <<>>
    BY <1>1, TopShape DEF FrameOK
  <2> QED BY <2>1, <1>4, <1>5, <1>6 DEF FrameOK, Batching
<1> HIDE DEF g
<1>11. calls' \in Seq(Frames) /\ FramesOK' /\ HooksOK' /\ TakenExist'
  BY <1>1, <1>3, <1>8, <1>9, <1>10, ShapeSetTop DEF CallBatch, tickets
<1>12. UNCHANGED <<tickets, subscribers, queue, hooks, many>>
  BY DEF CallBatch
<1> QED BY <1>1, <1>11, <1>12, FrameStepShape

\* A batch function that answers gives one entry per key, by position.
LEMMA AnswersFacts ==
  ASSUME NEW keys \in Seq(LoadKeys), NEW values \in Answers(keys)
  PROVE  /\ values \in Seq(LoadKeys \cup Errors) /\ Len(values) = Len(keys)
         /\ \A i \in 1 .. Len(keys) : values[i] = keys[i] \/ values[i] = ErrorOf(keys[i])
<1>1. PICK failing \in SUBSET (1 .. Len(keys)) :
        values = [i \in 1 .. Len(keys) |-> IF i \in failing THEN ErrorOf(keys[i])
                                                          ELSE keys[i]]
  BY DEF Answers
<1>2. Len(keys) \in Nat /\ \A i \in 1 .. Len(keys) : keys[i] \in LoadKeys
  OBVIOUS
<1>3. \A i \in 1 .. Len(keys) :
        /\ values[i] \in LoadKeys \cup Errors
        /\ values[i] = keys[i] \/ values[i] = ErrorOf(keys[i])
  BY <1>1, <1>2, ConstantFacts
<1>4. values = [i \in 1 .. Len(keys) |-> values[i]]
  BY <1>1
<1> QED BY <1>2, <1>3, <1>4

\* What the batch function answered to the keys of the chunk.
LEMMA BatchReturnsFacts ==
  ASSUME ShapeInv, NEW reply \in {"values", "dies"}, BatchReturns(reply)
  PROVE  /\ calls # <<>> /\ calls[1] \in Frames /\ FrameOK(calls[1])
         /\ calls[1].phase = "batch"
         /\ UNCHANGED <<tickets, subscribers, queue, hooks, many>>
         /\ \E values \in Seq(LoadKeys \cup Errors) :
              /\ SetTop(Replied(calls[1], reply, values)) /\ calls[1].phase = "batch"
              /\ reply = "values" =>
                   /\ Len(values) = calls[1].size
                   /\ \A i \in 1 .. calls[1].size :
                        \/ values[i] = calls[1].keys[i]
                        \/ values[i] = ErrorOf(calls[1].keys[i])
<1> DEFINE f == calls[1]
<1>1. TypeOK /\ calls # <<>>
  BY DEF ShapeInv, BatchReturns, DispatchRuns
<1>2. f = Head(calls) /\ f \in Frames /\ FrameOK(f)
  BY <1>1, TopShape
<1>3. f.phase = "batch" /\ UNCHANGED <<tickets, subscribers, queue, hooks, many>>
  BY <1>2 DEF BatchReturns
<1>4. PICK values \in IF reply = "values" THEN Answers(f.keys) ELSE {<<>>} :
        SetTop(Replied(f, reply, values))
  BY <1>2 DEF BatchReturns
<1>5. f.keys \in Seq(LoadKeys) /\ Len(f.keys) = f.size
  BY <1>2, <1>3 DEF Frames, FrameOK
<1>6. CASE reply = "values"
  <2>1. /\ values \in Seq(LoadKeys \cup Errors) /\ Len(values) = Len(f.keys)
        /\ \A i \in 1 .. Len(f.keys) :
             values[i] = f.keys[i] \/ values[i] = ErrorOf(f.keys[i])
    BY <1>4, <1>5, <1>6, AnswersFacts
  <2> QED BY <1>1, <1>2, <1>3, <1>4, <1>5, <2>1
<1>7. CASE reply # "values"
  <2>1. values = <<>> /\ <<>> \in Seq(LoadKeys \cup Errors)
    BY <1>4, <1>7, EmptySeq
  <2> QED BY <1>1, <1>2, <1>3, <1>4, <1>7, <2>1
<1> QED BY <1>6, <1>7

\* The batch function returned, or died.
LEMMA BatchReturnsShape ==
  ASSUME ShapeInv, NEW reply \in {"values", "dies"}, BatchReturns(reply)
  PROVE  ShapeInv'
<1> DEFINE f == calls[1]
<1>1. TypeOK /\ CacheOK /\ calls # <<>>
  BY BatchReturnsFacts DEF ShapeInv
<1>2. f \in Frames /\ FrameOK(f)
  BY BatchReturnsFacts
<1>3. /\ f.phase = "batch" /\ UNCHANGED <<tickets, subscribers, queue, hooks, many>>
  BY BatchReturnsFacts
<1>4. PICK values \in Seq(LoadKeys \cup Errors) :
        /\ SetTop(Replied(f, reply, values))
        /\ reply = "values" => Len(values) = f.size
  BY BatchReturnsFacts
<1> DEFINE g == Replied(f, reply, values)
<1>5. g \in Frames
  BY <1>2, <1>4, FrameTypes
<1>6. g.taken = f.taken
  BY DEF Replied
<1>7. FrameOK(g)
  <2>1. f.offset \in Nat /\ f.size \in Nat /\ Len(f.taken) \in Nat
    BY <1>2 DEF Frames
  <2> QED BY <2>1, <1>2, <1>3, <1>4 DEF FrameOK, Replied
<1> HIDE DEF g
<1>8. UNCHANGED <<tickets, subscribers, queue, hooks, many>> /\ SetTop(g)
  BY <1>3, <1>4 DEF g
<1>9. calls' \in Seq(Frames) /\ FramesOK' /\ HooksOK' /\ TakenExist'
  BY <1>1, <1>5, <1>6, <1>7, <1>8, ShapeSetTop DEF tickets
<1> QED BY <1>1, <1>8, <1>9, FrameStepShape

\* The innermost dispatch goes on to the next entry, or leaves its chunk.
LEMMA NextEntryShape ==
  ASSUME ShapeInv, NextEntry
  PROVE  ShapeInv'
<1> DEFINE f == calls[1]
           g == IF f.at + 1 < f.size THEN AtNextEntry(f) ELSE AtNextChunk(f)
<1>1. TypeOK /\ CacheOK /\ calls # <<>>
  BY DEF ShapeInv, NextEntry, DispatchRuns
<1>2. f = Head(calls) /\ f \in Frames /\ FrameOK(f)
  BY <1>1, TopShape
<1>3. f.phase = "notify" /\ SetTop(g)
  BY <1>2 DEF NextEntry
<1>4. f.at \in Nat /\ f.size \in Nat /\ f.offset \in Nat /\ Len(f.taken) \in Nat
  BY <1>2 DEF Frames
<1>5. g \in Frames /\ g.taken = f.taken
  BY <1>2, FrameTypes DEF AtNextEntry, AtNextChunk
<1>6. FrameOK(g)
  BY <1>2, <1>3, <1>4 DEF FrameOK, AtNextEntry, AtNextChunk
<1> HIDE DEF g
<1>7. calls' \in Seq(Frames) /\ FramesOK' /\ HooksOK' /\ TakenExist'
  BY <1>1, <1>3, <1>5, <1>6, ShapeSetTop DEF NextEntry, tickets
<1>8. UNCHANGED <<tickets, subscribers, queue, hooks, many>>
  BY DEF NextEntry
<1> QED BY <1>1, <1>7, <1>8, FrameStepShape

\* Where the innermost dispatch settles, and whom it calls.
LEMMA SettleFacts ==
  ASSUME ShapeInv, SettleTicket
  PROVE  LET f == calls[1]
             t == CurrentTicket(f)
             w == IF Settled(t) THEN <<>> ELSE subscribers[t]
         IN  /\ calls # <<>> /\ f \in Frames /\ FrameOK(f)
             /\ f.phase = "settle" /\ f.at < f.size
             /\ f.offset + f.at + 1 \in 1 .. Len(f.taken)
             /\ t \in Tickets /\ t = f.taken[f.offset + f.at + 1]
             /\ w \in Seq(Slots) /\ SetTop(Notifying(f, w))
             /\ Notifying(f, w) \in Frames /\ FrameOK(Notifying(f, w))
<1> DEFINE f == calls[1]
           t == CurrentTicket(f)
           w == IF Settled(t) THEN <<>> ELSE subscribers[t]
<1>1. TypeOK /\ calls # <<>>
  BY DEF ShapeInv, SettleTicket, DispatchRuns
<1>2. f = Head(calls) /\ f \in Frames /\ FrameOK(f)
  BY <1>1, TopShape
<1>3. f.phase = "settle" /\ f.at < f.size
  BY <1>2 DEF SettleTicket
<1>4. /\ f.at \in Nat /\ f.size \in Nat /\ f.offset \in Nat /\ Len(f.taken) \in Nat
      /\ f.taken \in Seq(Tickets)
  BY <1>2 DEF Frames
<1>5. f.offset + f.at + 1 \in 1 .. Len(f.taken)
  BY <1>2, <1>3, <1>4 DEF FrameOK
<1>6. t \in Tickets /\ t = f.taken[f.offset + f.at + 1]
  BY <1>4, <1>5 DEF CurrentTicket
<1>7. w \in Seq(Slots)
  BY <1>1, <1>6, EmptySeq DEF TypeOK
<1>8. SetTop(Notifying(f, w))
  BY <1>2 DEF SettleTicket
<1>9. Notifying(f, w) \in Frames
  BY <1>2, <1>7, FrameTypes
<1>10. FrameOK(Notifying(f, w))
  BY <1>2, <1>3, <1>4 DEF FrameOK, Notifying
<1> QED BY <1>1, <1>2, <1>3, <1>5, <1>6, <1>7, <1>8, <1>9, <1>10

\* What settling the current ticket changes of the tickets.
LEMMA SettleEffect ==
  ASSUME ShapeInv, SettleTicket, NEW t, t = CurrentTicket(calls[1])
  PROVE  /\ UNCHANGED <<made, load, promises, queue, hooks, many>>
         /\ status' \in [Tickets -> {"pending", "resolved", "rejected"}]
         /\ value' \in [Tickets -> Values]
         /\ subscribers' \in [Tickets -> Seq(Slots)]
         /\ \A u \in Tickets : u # t => /\ status'[u] = status[u]
                                        /\ value'[u] = value[u]
                                        /\ subscribers'[u] = subscribers[u]
         /\ Settled(t) => UNCHANGED <<status, value, subscribers>>
         /\ ~Settled(t) =>
              /\ subscribers'[t] = <<>>
              /\ status'[t] = IF Rejects(calls[1]) THEN "rejected" ELSE "resolved"
              /\ value'[t] = IF calls[1].reply = "dies" THEN Failed
                                                       ELSE CurrentValue(calls[1])
<1> DEFINE f == calls[1]
           st == IF Rejects(f) THEN "rejected" ELSE "resolved"
           v == IF f.reply = "dies" THEN Failed ELSE CurrentValue(f)
<1>1. TypeOK /\ t \in Tickets /\ f \in Frames /\ f = Head(calls)
  BY SettleFacts, TopShape DEF ShapeInv
<1>2. v \in Values
  <2>1. f.reply = "values" => f.values \in Seq(LoadKeys \cup Errors) /\ f.at + 1 \in 1 .. Len(f.values)
    <3>1. FrameOK(f) /\ f.phase = "settle" /\ f.at < f.size /\ f.at \in Nat /\ f.size \in Nat
      BY <1>1, SettleFacts DEF Frames
    <3> QED BY <1>1, <3>1 DEF FrameOK, Frames
  <2>2. f.reply \in {"values", "dies"}
    BY <1>1 DEF Frames
  <2> QED BY <2>1, <2>2 DEF CurrentValue, Values
<1>3. UNCHANGED <<made, load, promises, queue, hooks, many>>
  BY DEF SettleTicket
<1>4. IF Settled(t)
      THEN UNCHANGED <<status, value, subscribers>>
      ELSE /\ status' = [status EXCEPT ![t] = st]
           /\ value' = [value EXCEPT ![t] = v]
           /\ subscribers' = [subscribers EXCEPT ![t] = <<>>]
  BY <1>1 DEF SettleTicket
<1>5. /\ status \in [Tickets -> {"pending", "resolved", "rejected"}]
      /\ value \in [Tickets -> Values]
      /\ subscribers \in [Tickets -> Seq(Slots)]
  BY <1>1 DEF TypeOK
<1>6. CASE Settled(t)
  BY <1>3, <1>4, <1>5, <1>6
<1>7. CASE ~Settled(t)
  <2>1. st \in {"pending", "resolved", "rejected"} /\ <<>> \in Seq(Slots)
    BY EmptySeq
  <2> HIDE DEF v, st
  <2>2. /\ status' \in [Tickets -> {"pending", "resolved", "rejected"}]
        /\ value' \in [Tickets -> Values]
        /\ subscribers' \in [Tickets -> Seq(Slots)]
        /\ \A u \in Tickets : u # t => /\ status'[u] = status[u]
                                       /\ value'[u] = value[u]
                                       /\ subscribers'[u] = subscribers[u]
        /\ status'[t] = st /\ subscribers'[t] = <<>> /\ value'[t] = v
    BY <1>1, <1>2, <1>4, <1>5, <1>7, <2>1
  <2> QED BY <2>2, <1>3, <1>7 DEF v, st
<1> QED BY <1>6, <1>7

\* One entry of a chunk is settled.
LEMMA SettleShape ==
  ASSUME ShapeInv, SettleTicket
  PROVE  ShapeInv'
<1> DEFINE f == calls[1]
           t == CurrentTicket(f)
           w == IF Settled(t) THEN <<>> ELSE subscribers[t]
           g == Notifying(f, w)
<1>1. TypeOK /\ CacheOK
  BY DEF ShapeInv
<1>2. calls # <<>> /\ SetTop(g) /\ g \in Frames /\ FrameOK(g)
  BY SettleFacts
<1>3. g.taken = f.taken
  BY DEF Notifying
<1>4. /\ UNCHANGED <<made, load, promises, queue, hooks, many>>
      /\ status' \in [Tickets -> {"pending", "resolved", "rejected"}]
      /\ value' \in [Tickets -> Values]
      /\ subscribers' \in [Tickets -> Seq(Slots)]
  BY SettleEffect
<1> HIDE DEF g
<1>5. calls' \in Seq(Frames) /\ FramesOK' /\ HooksOK' /\ TakenExist'
  BY <1>2, <1>3, <1>4, ShapeSetTop
<1>6. TypeOK'
  BY <1>1, <1>4, <1>5 DEF TypeOK, Exists
<1>7. made <= made' /\ made \in Nat /\ made' \in Nat
  BY <1>1, <1>4 DEF TypeOK
<1>8. ManyCallsOK' /\ QueuedExist'
  BY <1>4, <1>7, ShapeKept
<1>9. CacheOK'
  BY <1>1, <1>4 DEF CacheOK, Exists
<1> QED BY <1>5, <1>6, <1>8, <1>9 DEF ShapeInv

\* Whom the innermost dispatch calls.
LEMMA NotifyFacts ==
  ASSUME ShapeInv, NotifySubscriber
  PROVE  LET f == calls[1] IN
           /\ calls # <<>> /\ f \in Frames /\ FrameOK(f)
           /\ f.phase = "notify" /\ f.waiting # <<>> /\ f.waiting \in Seq(Slots)
           /\ f.offset + f.at + 1 \in 1 .. Len(f.taken)
           /\ CurrentTicket(f) \in Tickets
           /\ CurrentTicket(f) = f.taken[f.offset + f.at + 1]
           /\ Head(f.waiting) = f.waiting[1] /\ f.waiting[1] \in Slots
           /\ many' = Deliver(many, f.waiting[1], Outcome(CurrentTicket(f)))
           /\ SetTop(Notifying(f, Tail(f.waiting)))
           /\ Notifying(f, Tail(f.waiting)) \in Frames
           /\ FrameOK(Notifying(f, Tail(f.waiting)))
           /\ UNCHANGED <<tickets, subscribers, queue, hooks>>
<1> DEFINE f == calls[1]
<1>1. TypeOK /\ calls # <<>>
  BY DEF ShapeInv, NotifySubscriber, DispatchRuns
<1>2. f = Head(calls) /\ f \in Frames /\ FrameOK(f)
  BY <1>1, TopShape
<1>3. f.phase = "notify" /\ f.waiting # <<>>
  BY <1>2 DEF NotifySubscriber
<1>4. /\ f.at \in Nat /\ f.size \in Nat /\ f.offset \in Nat /\ Len(f.taken) \in Nat
      /\ f.taken \in Seq(Tickets) /\ f.waiting \in Seq(Slots)
  BY <1>2 DEF Frames
<1>5. f.offset + f.at + 1 \in 1 .. Len(f.taken)
  BY <1>2, <1>3, <1>4 DEF FrameOK
<1>6. /\ CurrentTicket(f) \in Tickets
      /\ CurrentTicket(f) = f.taken[f.offset + f.at + 1]
  BY <1>4, <1>5 DEF CurrentTicket
<1>7. Head(f.waiting) = f.waiting[1] /\ f.waiting[1] \in Slots /\ Tail(f.waiting) \in Seq(Slots)
  BY <1>3, <1>4
<1>8. /\ many' = Deliver(many, f.waiting[1], Outcome(CurrentTicket(f)))
      /\ SetTop(Notifying(f, Tail(f.waiting)))
      /\ UNCHANGED <<tickets, subscribers, queue, hooks>>
  BY <1>2, <1>7 DEF NotifySubscriber
<1>9. Notifying(f, Tail(f.waiting)) \in Frames
  BY <1>2, <1>7, FrameTypes
<1>10. FrameOK(Notifying(f, Tail(f.waiting)))
  BY <1>2, <1>3, <1>4 DEF FrameOK, Notifying
<1> QED BY <1>1, <1>2, <1>3, <1>4, <1>5, <1>6, <1>7, <1>8, <1>9, <1>10

\* A callback changes results and countdown of its call, and nothing else of it.
LEMMA DeliverShape ==
  ASSUME TypeOK, ManyCallsOK, made' = made, NEW slot \in Slots, NEW v \in Values,
         many' = Deliver(many, slot, v)
  PROVE  many' \in Seq(ManyCalls) /\ Len(many') = Len(many) /\ ManyCallsOK'
<1> DEFINE c == slot.call
           i == slot.index
           f == Filled(many[c], i, v)
<1>1. many \in Seq(ManyCalls)
  BY DEF TypeOK
<1>2. CASE c \notin 1 .. Len(many)
  <2>1. many' = many
    <3> HIDE DEF f
    <3>1. many' = [many EXCEPT ![c] = f]
      BY DEF Deliver, f
    <3> QED BY <1>1, <1>2, <3>1
  <2> QED BY <1>1, <2>1 DEF ManyCallsOK, ManyCallOK
<1>3. CASE c \in 1 .. Len(many)
  <2>1. many[c] \in ManyCalls /\ ManyCallOK(many[c])
    BY <1>1, <1>3 DEF ManyCallsOK
  <2>2. many[c].results \in Seq(Values)
    BY <2>1 DEF ManyCalls
  <2>3. /\ [many[c].results EXCEPT ![i] = v] \in Seq(Values)
        /\ Len([many[c].results EXCEPT ![i] = v]) = Len(many[c].results)
    <3>1. CASE i \in 1 .. Len(many[c].results)
      BY <2>2, <3>1
    <3>2. CASE i \notin 1 .. Len(many[c].results)
      <4>1. [many[c].results EXCEPT ![i] = v] = many[c].results
        BY <2>2, <3>2
      <4> QED BY <2>2, <4>1
    <3> QED BY <3>1, <3>2
  <2>4. f \in ManyCalls
    BY <2>1, <2>3 DEF ManyCalls, Filled
  <2>5. /\ f.at <= Len(f.keys)
        /\ Len(f.waits) = Len(f.keys) /\ Len(f.results) = Len(f.keys)
        /\ \A j \in 1 .. f.at : f.waits[j] \in 1 .. made
    BY <2>1, <2>3 DEF ManyCallOK, Filled
  <2>6. /\ many' \in Seq(ManyCalls) /\ Len(many') = Len(many) /\ many'[c] = f
        /\ \A d \in 1 .. Len(many) : d # c => many'[d] = many[d]
    <3> HIDE DEF f
    <3>1. many' = [many EXCEPT ![c] = f]
      BY DEF Deliver, f
    <3> QED BY <1>1, <1>3, <2>4, <3>1
  <2> HIDE DEF f, i
  <2>7. ASSUME NEW d \in 1 .. Len(many')
        PROVE  ManyCallOK(many[d])'
    <3>1. CASE d = c
      BY <3>1, <2>5, <2>6 DEF ManyCallOK
    <3>2. CASE d # c
      BY <3>2, <2>6 DEF ManyCallsOK, ManyCallOK
    <3> QED BY <3>1, <3>2
  <2> QED BY <2>6, <2>7 DEF ManyCallsOK
<1> QED BY <1>2, <1>3

\* A subscriber is called.
LEMMA NotifyShape ==
  ASSUME ShapeInv, NotifySubscriber
  PROVE  ShapeInv'
<1> DEFINE f == calls[1]
           g == Notifying(f, Tail(f.waiting))
           v == Outcome(CurrentTicket(f))
<1>1. TypeOK /\ CacheOK /\ ManyCallsOK
  BY DEF ShapeInv
<1>2. /\ calls # <<>> /\ SetTop(g) /\ g \in Frames /\ FrameOK(g)
      /\ CurrentTicket(f) \in Tickets /\ f.waiting[1] \in Slots
      /\ many' = Deliver(many, f.waiting[1], v)
      /\ UNCHANGED <<tickets, subscribers, queue, hooks>>
  BY NotifyFacts
<1>3. g.taken = f.taken
  BY DEF Notifying
<1>4. v \in Values
  BY <1>1, <1>2, OutcomeType
<1>5. UNCHANGED <<made, load, status, value, promises>>
  BY <1>2 DEF tickets
<1> HIDE DEF g, v
<1>6. calls' \in Seq(Frames) /\ FramesOK' /\ HooksOK' /\ TakenExist'
  BY <1>2, <1>3, <1>5, ShapeSetTop
<1>7. many' \in Seq(ManyCalls) /\ Len(many') = Len(many) /\ ManyCallsOK'
  BY <1>1, <1>2, <1>4, <1>5, DeliverShape
<1>8. TypeOK'
  BY <1>1, <1>2, <1>5, <1>6, <1>7 DEF TypeOK, Exists
<1>9. made <= made' /\ made \in Nat /\ made' \in Nat
  BY <1>1, <1>5 DEF TypeOK
<1>10. QueuedExist'
  BY <1>2, <1>9, ShapeKept
<1>11. CacheOK'
  BY <1>1, <1>5 DEF CacheOK, Exists
<1> QED BY <1>6, <1>7, <1>8, <1>10, <1>11 DEF ShapeInv

\* What a step of the innermost hook leaves of the stack of hooks.
LEMMA HookFacts ==
  ASSUME TypeOK, hooks # <<>>
  PROVE  /\ Head(hooks) = hooks[1] /\ hooks[1] \in Hooks
         /\ Len(hooks) \in Nat /\ 1 \in 1 .. Len(hooks)
         /\ \A n \in Nat : /\ Passed(hooks[1], n) \in Hooks
                            /\ Passed(hooks[1], n).depth = hooks[1].depth
                            /\ Passed(hooks[1], n).loader = hooks[1].loader + 1
                            /\ Passed(hooks[1], n).round = hooks[1].round + n
         /\ \A h \in Hooks :
              SetHook(h) => /\ hooks' \in Seq(Hooks) /\ Len(hooks') = Len(hooks)
                            /\ hooks' # <<>> /\ hooks'[1] = h
                            /\ \A g \in 1 .. Len(hooks) : g # 1 => hooks'[g] = hooks[g]
         /\ hooks' = Tail(hooks) =>
              /\ hooks' \in Seq(Hooks) /\ Len(hooks') = Len(hooks) - 1
              /\ \A g \in 1 .. Len(hooks') :
                   g + 1 \in 1 .. Len(hooks) /\ hooks'[g] = hooks[g + 1]
<1>1. /\ hooks \in Seq(Hooks) /\ Head(hooks) = hooks[1] /\ hooks[1] \in Hooks
      /\ Len(hooks) \in Nat /\ 1 \in 1 .. Len(hooks)
  BY DEF TypeOK
<1>2. \A n \in Nat : /\ Passed(hooks[1], n) \in Hooks
                      /\ Passed(hooks[1], n).depth = hooks[1].depth
                      /\ Passed(hooks[1], n).loader = hooks[1].loader + 1
                      /\ Passed(hooks[1], n).round = hooks[1].round + n
  BY <1>1 DEF Passed, Hooks
<1>3. ASSUME NEW h \in Hooks, SetHook(h)
      PROVE  /\ hooks' \in Seq(Hooks) /\ Len(hooks') = Len(hooks)
             /\ hooks' # <<>> /\ hooks'[1] = h
             /\ \A g \in 1 .. Len(hooks) : g # 1 => hooks'[g] = hooks[g]
  BY <1>1, <1>3 DEF SetHook
<1>4. hooks' = Tail(hooks) =>
        /\ hooks' \in Seq(Hooks) /\ Len(hooks') = Len(hooks) - 1
        /\ \A g \in 1 .. Len(hooks') :
             g + 1 \in 1 .. Len(hooks) /\ hooks'[g] = hooks[g + 1]
  BY <1>1, HeadTailProperties
<1> QED BY <1>1, <1>2, <1>3, <1>4

\* The dispatch that returns has gone through its queue; a hook waiting right
\* below it called it, and counts its keys.
LEMMA ReturnFacts ==
  ASSUME ShapeInv, DispatchReturns
  PROVE  LET f == calls[1] IN
           /\ calls # <<>> /\ f \in Frames /\ FrameOK(f)
           /\ f.phase = "chunk" /\ f.offset = Len(f.taken) /\ Len(f.taken) \in Nat
           /\ calls' = Tail(calls) /\ ~HookRuns /\ ~LoadManyRuns
           /\ \/ /\ hooks # <<>> /\ hooks[1].depth = Len(calls) - 1
                 /\ SetHook(Passed(hooks[1], Len(f.taken)))
              \/ hooks' = hooks /\ (hooks # <<>> => hooks[1].depth # Len(calls) - 1)
           /\ UNCHANGED <<tickets, subscribers, queue, many>>
<1> DEFINE f == calls[1]
<1>1. TypeOK /\ calls # <<>> /\ ~HookRuns /\ ~LoadManyRuns
  BY DEF ShapeInv, DispatchReturns, DispatchRuns
<1>2. f = Head(calls) /\ f \in Frames /\ FrameOK(f) /\ 1 \in 1 .. Len(calls)
  BY <1>1, TopShape
<1>3. /\ f.phase = "chunk" /\ f.offset = Len(f.taken)
      /\ calls' = Tail(calls)
      /\ UNCHANGED <<tickets, subscribers, queue, many>>
  BY <1>2 DEF DispatchReturns
<1>4. Len(f.taken) \in Nat
  BY <1>2 DEF Frames
<1>5. IF hooks # <<>> /\ Head(hooks).depth = Len(calls) - 1
      THEN SetHook(Passed(Head(hooks), Len(f.taken)))
      ELSE UNCHANGED hooks
  BY <1>2 DEF DispatchReturns
<1>6. hooks # <<>> => Head(hooks) = hooks[1]
  BY <1>1, HookFacts
<1> QED BY <1>1, <1>2, <1>3, <1>4, <1>5, <1>6

\* Its return leaves the hooks below the dispatches that remain.
LEMMA ReturnHooks ==
  ASSUME ShapeInv, DispatchReturns, Len(calls') = Len(calls) - 1
  PROVE  hooks' \in Seq(Hooks) /\ HooksOK'
<1>1. /\ TypeOK /\ HooksOK /\ hooks \in Seq(Hooks) /\ Len(calls) \in Nat
      /\ \A h \in 1 .. Len(hooks) : hooks[h].depth \in Nat
  BY HookDepths DEF ShapeInv
<1>2. ASSUME hooks # <<>>
      PROVE  hooks[1].depth < Len(calls)
  <2>1. Head(hooks) = hooks[1] /\ 1 \in 1 .. Len(hooks) /\ hooks[1].depth # Len(calls)
    BY <1>1, <1>2, HookFacts, ReturnFacts DEF HookRuns
  <2> QED BY <1>1, <2>1 DEF HooksOK
<1>3. \A h \in 1 .. Len(hooks) : hooks[h].depth <= Len(calls) - 1
  <2> SUFFICES ASSUME NEW h \in 1 .. Len(hooks)
               PROVE  hooks[h].depth <= Len(calls) - 1
    OBVIOUS
  <2>1. hooks # <<>> /\ 1 \in 1 .. Len(hooks) /\ h \in Nat
    BY <1>1
  <2>2. h = 1 \/ hooks[h].depth < hooks[1].depth
    BY <1>1, <2>1 DEF HooksOK
  <2> QED BY <1>1, <1>2, <2>1, <2>2
<1>4. CASE /\ hooks # <<>> /\ hooks[1].depth = Len(calls) - 1
           /\ SetHook(Passed(hooks[1], Len(calls[1].taken)))
  <2> DEFINE h == Passed(hooks[1], Len(calls[1].taken))
  <2>1. h \in Hooks /\ h.depth = hooks[1].depth /\ 1 \in 1 .. Len(hooks)
    BY <1>1, <1>4, ReturnFacts, HookFacts
  <2> HIDE DEF h
  <2>2. /\ hooks' \in Seq(Hooks) /\ Len(hooks') = Len(hooks) /\ hooks'[1] = h
        /\ \A g \in 1 .. Len(hooks) : g # 1 => hooks'[g] = hooks[g]
    BY <1>1, <1>4, <2>1, HookFacts DEF h
  <2>3. \A g \in 1 .. Len(hooks) : hooks'[g].depth = hooks[g].depth
    BY <2>1, <2>2
  <2> QED BY <1>1, <1>3, <2>2, <2>3 DEF HooksOK
<1>5. CASE hooks' = hooks
  BY <1>1, <1>3, <1>5 DEF HooksOK
<1> QED BY <1>4, <1>5, ReturnFacts

\* dispatch returns
LEMMA ReturnShape ==
  ASSUME ShapeInv, DispatchReturns
  PROVE  ShapeInv'
<1>1. TypeOK /\ CacheOK
  BY DEF ShapeInv
<1>2. /\ calls # <<>> /\ calls' = Tail(calls)
      /\ UNCHANGED <<tickets, subscribers, queue, many>>
  BY ReturnFacts
<1>3. UNCHANGED <<made, load, status, value, promises>>
  BY <1>2 DEF tickets
<1>4. /\ calls' \in Seq(Frames) /\ Len(calls') = Len(calls) - 1 /\ Len(calls) \in Nat
      /\ \A c \in 1 .. Len(calls') :
           c + 1 \in 1 .. Len(calls) /\ calls'[c] = calls[c + 1]
  BY <1>1, <1>2, PopFacts DEF TypeOK
<1>5. hooks' \in Seq(Hooks) /\ HooksOK'
  BY <1>4, ReturnHooks
<1>6. FramesOK'
  BY <1>4 DEF ShapeInv, FramesOK
<1>7. TypeOK'
  BY <1>1, <1>2, <1>3, <1>4, <1>5 DEF TypeOK, Exists
<1>8. TakenExist'
  BY <1>3, <1>4 DEF ShapeInv, TakenExist, Exists
<1>9. made <= made' /\ made \in Nat /\ made' \in Nat
  BY <1>1, <1>3 DEF TypeOK
<1>10. ManyCallsOK' /\ QueuedExist'
  BY <1>2, <1>9, ShapeKept
<1>11. CacheOK'
  BY <1>1, <1>3 DEF CacheOK, Exists
<1> QED BY <1>5, <1>6, <1>7, <1>8, <1>10, <1>11 DEF ShapeInv

\* A step of a hook that dispatches nothing.
LEMMA HookStepShape ==
  ASSUME ShapeInv, hooks' \in Seq(Hooks), HooksOK',
         UNCHANGED <<tickets, subscribers, queue, calls, many>>
  PROVE  ShapeInv'
<1>1. TypeOK /\ CacheOK /\ FramesOK
  BY DEF ShapeInv
<1>2. UNCHANGED <<made, load, status, value, promises>>
  BY DEF tickets
<1>3. TypeOK'
  BY <1>1, <1>2 DEF TypeOK, Exists
<1>4. FramesOK'
  BY <1>1 DEF FramesOK
<1>5. made <= made' /\ made \in Nat /\ made' \in Nat
  BY <1>1, <1>2 DEF TypeOK
<1>6. ManyCallsOK' /\ QueuedExist' /\ TakenExist'
  BY <1>5, ShapeKept
<1>7. CacheOK'
  BY <1>1, <1>2 DEF CacheOK, Exists
<1> QED BY <1>3, <1>4, <1>6, <1>7 DEF ShapeInv

\* on_stall is called: its hook starts above the dispatches in progress.
LEMMA OnStallShape ==
  ASSUME ShapeInv, OnStall
  PROVE  ShapeInv'
<1> DEFINE h == [depth |-> Len(calls), loader |-> 1, round |-> 0]
<1>1. /\ HooksOK /\ hooks \in Seq(Hooks) /\ Len(hooks) \in Nat /\ Len(calls) \in Nat
      /\ \A g \in 1 .. Len(hooks) : hooks[g].depth \in Nat
  BY HookDepths DEF ShapeInv
<1>2. h \in Hooks /\ h.depth = Len(calls)
  BY <1>1 DEF Hooks
<1>3. hooks' = <<h>> \o hooks /\ ~HookRuns
  BY DEF OnStall, UserCodeRuns
<1> HIDE DEF h
<1>4. /\ hooks' \in Seq(Hooks) /\ Len(hooks') = 1 + Len(hooks)
      /\ \A g \in 1 .. 1 + Len(hooks) : hooks'[g] = IF g <= 1 THEN h ELSE hooks[g - 1]
  <2>1. <<h>> \in Seq(Hooks) /\ Len(<<h>>) = 1 /\ <<h>>[1] = h
    BY <1>2
  <2> QED BY <1>1, <1>3, <2>1, ConcatProperties
<1>5. \A g \in 1 .. Len(hooks) : hooks[g].depth < Len(calls)
  <2> SUFFICES ASSUME NEW g \in 1 .. Len(hooks)
               PROVE  hooks[g].depth < Len(calls)
    OBVIOUS
  <2>1. hooks # <<>> /\ 1 \in 1 .. Len(hooks) /\ Head(hooks) = hooks[1]
    BY <1>1
  <2>2. hooks[1].depth < Len(calls)
    BY <1>1, <1>3, <2>1 DEF HooksOK, HookRuns
  <2>3. g = 1 \/ hooks[g].depth < hooks[1].depth
    BY <1>1, <2>1 DEF HooksOK
  <2> QED BY <1>1, <2>1, <2>2, <2>3
<1>6. calls' = calls
  BY DEF OnStall
<1>7. HooksOK'
  <2>1. \A g \in 1 .. Len(hooks') : hooks'[g].depth <= Len(calls)
    BY <1>1, <1>2, <1>4, <1>5
  <2>2. ASSUME NEW f \in 1 .. Len(hooks'), NEW g \in 1 .. Len(hooks'), f < g
        PROVE  hooks'[g].depth < hooks'[f].depth
    <3>1. g - 1 \in 1 .. Len(hooks) /\ hooks'[g] = hooks[g - 1]
      BY <1>1, <1>4, <2>2
    <3>2. CASE f = 1
      BY <1>1, <1>2, <1>4, <1>5, <3>1, <3>2
    <3>3. CASE f # 1
      <4>1. f - 1 \in 1 .. Len(hooks) /\ hooks'[f] = hooks[f - 1] /\ f - 1 < g - 1
        BY <1>1, <1>4, <2>2, <3>3
      <4> QED BY <1>1, <3>1, <4>1 DEF HooksOK
    <3> QED BY <3>2, <3>3
  <2> QED BY <1>6, <2>1, <2>2 DEF HooksOK
<1> QED BY <1>4, <1>7, HookStepShape DEF OnStall

\* The innermost hook goes on by itself.
LEMMA SetHookShape ==
  ASSUME ShapeInv, hooks # <<>>, NEW h \in Hooks, h.depth = hooks[1].depth, SetHook(h),
         UNCHANGED <<tickets, subscribers, queue, calls, many>>
  PROVE  ShapeInv'
<1>1. /\ TypeOK /\ HooksOK /\ hooks \in Seq(Hooks)
      /\ hooks' \in Seq(Hooks) /\ Len(hooks') = Len(hooks) /\ hooks'[1] = h
      /\ \A g \in 1 .. Len(hooks) : g # 1 => hooks'[g] = hooks[g]
  BY HookFacts DEF ShapeInv, TypeOK
<1>2. \A g \in 1 .. Len(hooks) : hooks'[g].depth = hooks[g].depth
  BY <1>1
<1>3. HooksOK'
  BY <1>1, <1>2 DEF HooksOK
<1> QED BY <1>1, <1>3, HookStepShape

\* The hook passes a drained loader, calls dispatch, starts over, returns.
LEMMA HookShape ==
  ASSUME ShapeInv, HookStep
  PROVE  ShapeInv'
<1> DEFINE h == hooks[1]
<1>1. TypeOK /\ hooks # <<>> /\ h = Head(hooks) /\ h \in Hooks
  BY HookFacts DEF ShapeInv, HookStep, StallDispatch, StallNextRound, StallReturns, HookRuns
<1>2. CASE StallReturns
  <2>1. /\ hooks' \in Seq(Hooks) /\ Len(hooks') = Len(hooks) - 1
        /\ \A g \in 1 .. Len(hooks') :
             g + 1 \in 1 .. Len(hooks) /\ hooks'[g] = hooks[g + 1]
        /\ calls' = calls /\ Len(hooks) \in Nat
    BY <1>1, <1>2, HookFacts DEF StallReturns
  <2>2. HooksOK'
    <3>1. HooksOK /\ \A g \in 1 .. Len(hooks) : hooks[g].depth \in Nat
      BY <1>1, HookDepths DEF ShapeInv
    <3>2. \A g \in 1 .. Len(hooks') : hooks'[g].depth <= Len(calls')
      BY <2>1, <3>1 DEF HooksOK
    <3>3. ASSUME NEW f \in 1 .. Len(hooks'), NEW g \in 1 .. Len(hooks'), f < g
          PROVE  hooks'[g].depth < hooks'[f].depth
      <4>1. /\ f + 1 \in 1 .. Len(hooks) /\ g + 1 \in 1 .. Len(hooks) /\ f + 1 < g + 1
            /\ hooks'[f] = hooks[f + 1] /\ hooks'[g] = hooks[g + 1]
        BY <2>1, <3>3
      <4> QED BY <3>1, <4>1 DEF HooksOK
    <3> QED BY <3>2, <3>3 DEF HooksOK
  <2> QED BY <1>2, <2>1, <2>2, HookStepShape DEF StallReturns
<1>3. CASE StallNextRound
  <2> DEFINE g == [depth |-> h.depth, loader |-> 1, round |-> 0]
  <2>1. g \in Hooks /\ g.depth = h.depth
    BY <1>1 DEF Hooks
  <2>2. SetHook(g)
    BY <1>1, <1>3 DEF StallNextRound
  <2> HIDE DEF g
  <2> QED BY <1>1, <1>3, <2>1, <2>2, SetHookShape DEF StallNextRound
<1>4. CASE StallDispatch /\ queue[h.loader] = <<>>
  <2>1. Passed(h, 0) \in Hooks /\ Passed(h, 0).depth = h.depth /\ SetHook(Passed(h, 0))
    BY <1>1, <1>4, HookFacts DEF StallDispatch
  <2>2. UNCHANGED <<tickets, subscribers, queue, calls, many>>
    BY <1>1, <1>4 DEF StallDispatch
  <2> QED BY <1>1, <2>1, <2>2, SetHookShape
<1>5. CASE StallDispatch /\ queue[h.loader] # <<>>
  <2>1. /\ h.loader \in Loaders /\ TakeQueue(h.loader) /\ hooks' = hooks
        /\ UNCHANGED <<tickets, subscribers, many>>
    BY <1>1, <1>5 DEF StallDispatch
  <2> QED BY <2>1, TakeQueueShape
<1> QED BY <1>2, <1>3, <1>4, <1>5 DEF HookStep

\* dispatch, called by user code
LEMMA DispatchShape ==
  ASSUME ShapeInv, NEW l \in Loaders, Dispatch(l)
  PROVE  ShapeInv'
BY TakeQueueShape DEF Dispatch

\* Shape is inductive.
LEMMA ShapeStep == ShapeInv /\ [Next]_vars => ShapeInv'
<1> SUFFICES ASSUME ShapeInv, [Next]_vars PROVE ShapeInv'
  OBVIOUS
<1>1. ASSUME NEW l \in Loaders, NEW k \in LoadKeys, Load(l, k)
      PROVE  ShapeInv'
  BY <1>1, LoadStepShape
<1>2. ASSUME NEW l \in Loaders, NEW k \in LoadKeys, Prime(l, k)
      PROVE  ShapeInv'
  BY <1>2, PrimeShape
<1>3. ASSUME NEW l \in Loaders, NEW k \in LoadKeys, Clear(l, k)
      PROVE  ShapeInv'
  BY <1>3, ClearShape
<1>4. ASSUME NEW l \in Loaders, ClearAll(l)
      PROVE  ShapeInv'
  BY <1>4, ClearShape
<1>5. ASSUME NEW l \in Loaders, NEW keys \in ManyKeys, LoadMany(l, keys)
      PROVE  ShapeInv'
  BY <1>5, LoadManyShape
<1>6. ASSUME NEW l \in Loaders, Dispatch(l)
      PROVE  ShapeInv'
  BY <1>6, DispatchShape
<1>7. CASE LoadManyNext
  BY <1>7, LoopShape
<1>8. CASE CallBatch
  BY <1>8, CallBatchShape
<1>9. ASSUME NEW reply \in {"values", "dies"}, BatchReturns(reply)
      PROVE  ShapeInv'
  BY <1>9, BatchReturnsShape
<1>10. CASE SettleTicket
  BY <1>10, SettleShape
<1>11. CASE NotifySubscriber
  BY <1>11, NotifyShape
<1>12. CASE NextEntry
  BY <1>12, NextEntryShape
<1>13. CASE DispatchReturns
  BY <1>13, ReturnShape
<1>14. CASE OnStall
  BY <1>14, OnStallShape
<1>15. CASE HookStep
  BY <1>15, HookShape
<1>16. CASE UNCHANGED vars
  <2>1. UNCHANGED <<tickets, subscribers, queue, hooks, many, calls, made, load,
                    status, value, promises>>
    BY <1>16 DEF vars, tickets
  <2>2. calls' \in Seq(Frames) /\ FramesOK' /\ HooksOK' /\ TakenExist'
    BY <2>1 DEF ShapeInv, TypeOK, FramesOK, HooksOK, TakenExist, Exists
  <2> QED BY <2>1, <2>2, FrameStepShape
<1> QED
  BY <1>1, <1>2, <1>3, <1>4, <1>5, <1>6, <1>7, <1>8, <1>9, <1>10, <1>11, <1>12,
     <1>13, <1>14, <1>15, <1>16 DEF Next, UserStep, DispatchStep

\* Nothing exists initially.
LEMMA ShapeInit == Init => ShapeInv
<1> SUFFICES ASSUME Init PROVE ShapeInv
  OBVIOUS
<1>1. /\ Len(calls) = 0 /\ Len(many) = 0 /\ calls \in Seq(Frames) /\ many \in Seq(ManyCalls)
      /\ Len(hooks) = 0 /\ hooks \in Seq(Hooks)
  BY EmptySeq DEF Init
<1>2. /\ subscribers \in [Tickets -> Seq(Slots)]
      /\ queue \in [Loaders -> Seq(Tickets)]
      /\ \A l \in Loaders : Len(queue[l]) = 0
  BY EmptySeq DEF Init
<1>3. TypeOK
  BY <1>1, <1>2, ConstantFacts DEF Init, TypeOK, Exists
<1>4. CacheOK
  BY DEF Init, CacheOK
<1>5. QueuedExist
  BY <1>2 DEF QueuedExist
<1> QED BY <1>1, <1>3, <1>4, <1>5 DEF ShapeInv, FramesOK, HooksOK, ManyCallsOK, TakenExist

\* Every reachable state has its shape.
LEMMA ShapeHolds == Spec => []ShapeInv
BY ShapeInit, ShapeStep, PTL DEF Spec

\* The state of the loaders is what TypeOK says it is, for every number of
\* loaders and keys: no operation leaves a queue that is not a queue, a cached
\* ticket that does not exist, or a position outside the queue taken.
THEOREM TypesHold == Spec => []TypeOK
BY ShapeHolds, PTL DEF ShapeInv

-----------------------------------------------------------------------------
(* Places is invariant *)

\* What a queue and a taken queue hold.
LEMMA HeldFacts ==
  ASSUME ShapeInv
  PROVE  /\ made \in Nat
         /\ \A l \in Loaders : /\ queue[l] \in Seq(Tickets) /\ Len(queue[l]) \in Nat
                               /\ \A i \in 1 .. Len(queue[l]) :
                                    queue[l][i] \in Tickets /\ queue[l][i] <= made
         /\ \A c \in 1 .. Len(calls) :
              /\ calls[c] \in Frames
              /\ calls[c].taken \in Seq(Tickets) /\ Len(calls[c].taken) \in Nat
              /\ \A i \in 1 .. Len(calls[c].taken) :
                   calls[c].taken[i] \in Tickets /\ calls[c].taken[i] <= made
<1>1. made \in Nat
  BY DEF ShapeInv, TypeOK
<1>2. ASSUME NEW l \in Loaders
      PROVE  /\ queue[l] \in Seq(Tickets) /\ Len(queue[l]) \in Nat
             /\ \A i \in 1 .. Len(queue[l]) :
                  queue[l][i] \in Tickets /\ queue[l][i] <= made
  <2>1. queue[l] \in Seq(Tickets)
    BY DEF ShapeInv, TypeOK
  <2> QED BY <2>1 DEF ShapeInv, QueuedExist, Exists
<1>3. ASSUME NEW c \in 1 .. Len(calls)
      PROVE  /\ calls[c] \in Frames
             /\ calls[c].taken \in Seq(Tickets) /\ Len(calls[c].taken) \in Nat
             /\ \A i \in 1 .. Len(calls[c].taken) :
                  calls[c].taken[i] \in Tickets /\ calls[c].taken[i] <= made
  <2>1. calls[c] \in Frames
    BY DEF ShapeInv, TypeOK
  <2>2. calls[c].taken \in Seq(Tickets)
    BY <2>1 DEF Frames
  <2> QED BY <2>1, <2>2 DEF ShapeInv, TakenExist, Exists
<1> QED BY <1>1, <1>2, <1>3

\* A step that settles nothing and leaves queues and taken queues alone.
LEMMA PlacesKept ==
  ASSUME PlacesInv, UNCHANGED <<made, load, status, queue>>,
         Len(calls') = Len(calls),
         \A c \in 1 .. Len(calls) : /\ calls'[c].taken = calls[c].taken
                                    /\ calls'[c].loader = calls[c].loader
                                    /\ SettledBy(calls'[c]) = SettledBy(calls[c])
  PROVE  PlacesInv'
<1>1. NewTicketsArePending'
  BY DEF PlacesInv, NewTicketsArePending, Exists, Settled
<1>2. QueuesOK'
  BY DEF PlacesInv, QueuesOK, QueueOK, Settled
<1>3. AllTakenOK'
  <2> SUFFICES ASSUME NEW c \in 1 .. Len(calls) PROVE TakenOK(calls[c])'
    BY DEF AllTakenOK
  <2>1. TakenOK(calls[c])
    BY DEF PlacesInv, AllTakenOK
  <2>2. /\ calls'[c].taken = calls[c].taken /\ calls'[c].loader = calls[c].loader
        /\ SettledBy(calls'[c]) = SettledBy(calls[c])
    OBVIOUS
  <2> QED BY <2>1, <2>2 DEF TakenOK, Settled
<1>4. TakenOnce'
  BY SMTT(40) DEF PlacesInv, TakenOnce
<1>5. PendingIsPlaced'
  BY DEF PlacesInv, PendingIsPlaced, IsQueued, IsTaken, Exists, Settled
<1> QED BY <1>1, <1>2, <1>3, <1>4, <1>5 DEF PlacesInv

\* A new ticket leaves the others where they are.
LEMMA NewTicketPlaces ==
  ASSUME ShapeInv, PlacesInv, NEW l \in Loaders, NEW k \in LoadKeys,
         NEW st \in {"pending", "resolved", "rejected"}, NEW v \in Values,
         NewTicket(l, k, st, v), calls' = calls
  PROVE  /\ NewTicketsArePending' /\ AllTakenOK'
         /\ \A t \in Tickets : Exists(t) =>
              t # made' /\ load'[t] = load[t] /\ status'[t] = status[t]
         /\ made' \in Tickets /\ made' = made + 1 /\ made \in Nat
         /\ load'[made'].loader = l /\ status'[made'] = st
<1>1. /\ made' = made + 1 /\ made' \in Tickets /\ made \in Nat
      /\ load'[made'] = [loader |-> l, key |-> k]
      /\ status'[made'] = st
      /\ \A t \in Tickets : t # made' => load'[t] = load[t] /\ status'[t] = status[t]
  BY NewTicketFacts, HeldFacts DEF ShapeInv
<1>2. \A t \in Tickets : t \in Nat
  BY ConstantFacts
<1>3. \A t \in Tickets : Exists(t) =>
        t # made' /\ load'[t] = load[t] /\ status'[t] = status[t]
  <2> SUFFICES ASSUME NEW t \in Tickets, t <= made
               PROVE  t # made' /\ load'[t] = load[t] /\ status'[t] = status[t]
    BY DEF Exists
  <2>1. t # made'
    BY <1>1, <1>2
  <2> QED BY <2>1, <1>1
<1>4. NewTicketsArePending'
  BY <1>1, <1>2 DEF PlacesInv, NewTicketsArePending, Exists, Settled
<1>5. ASSUME NEW c \in 1 .. Len(calls)
      PROVE  TakenOK(calls[c])'
  <2>1. TakenOK(calls[c])
    BY DEF PlacesInv, AllTakenOK
  <2>2. /\ Len(calls[c].taken) \in Nat
        /\ \A i \in 1 .. Len(calls[c].taken) :
             calls[c].taken[i] \in Tickets /\ Exists(calls[c].taken[i])
    BY HeldFacts DEF Exists
  <2>3. /\ Len(calls[c].taken) <= made'
        /\ \A i \in 1 .. Len(calls[c].taken) :
             /\ load'[calls[c].taken[i]].loader = calls[c].loader
             /\ Settled(calls[c].taken[i])' <=> i <= SettledBy(calls[c])
        /\ \A i, j \in 1 .. Len(calls[c].taken) :
             calls[c].taken[i] = calls[c].taken[j] => i = j
    <3>1. Len(calls[c].taken) <= made'
      BY <1>1, <2>1, <2>2 DEF TakenOK
    <3>2. ASSUME NEW i \in 1 .. Len(calls[c].taken)
          PROVE  /\ load'[calls[c].taken[i]].loader = calls[c].loader
                 /\ Settled(calls[c].taken[i])' <=> i <= SettledBy(calls[c])
      <4>1. calls[c].taken[i] \in Tickets /\ Exists(calls[c].taken[i])
        BY <2>2
      <4>2. /\ load'[calls[c].taken[i]] = load[calls[c].taken[i]]
            /\ status'[calls[c].taken[i]] = status[calls[c].taken[i]]
        BY <4>1, <1>1, <1>3
      <4>3. /\ load[calls[c].taken[i]].loader = calls[c].loader
            /\ Settled(calls[c].taken[i]) <=> i <= SettledBy(calls[c])
        BY <2>1 DEF TakenOK
      <4> QED BY <4>2, <4>3 DEF Settled
    <3> QED BY <3>1, <3>2, <2>1 DEF TakenOK
  <2> QED BY <2>3 DEF TakenOK, Settled
<1> QED BY <1>1, <1>3, <1>4, <1>5 DEF AllTakenOK

\* load queues its new ticket behind the others.
LEMMA EnqueuePlaces ==
  ASSUME ShapeInv, PlacesInv, NEW l \in Loaders, NEW k \in LoadKeys,
         EnqueueLoadMiss(l, k), calls' = calls
  PROVE  PlacesInv'
<1> DEFINE n == made + 1
<1>1. /\ NewTicketsArePending' /\ AllTakenOK'
      /\ \A t \in Tickets : Exists(t) =>
           t # made' /\ load'[t] = load[t] /\ status'[t] = status[t]
      /\ made' \in Tickets /\ made' = n /\ made \in Nat
      /\ load'[made'].loader = l /\ status'[made'] = "pending"
  BY NewTicketPlaces, ConstantFacts DEF EnqueueLoadMiss
<1>2. /\ \A m \in Loaders : m # l => queue'[m] = queue[m]
      /\ queue'[l] = Append(queue[l], n)
  BY DEF EnqueueLoadMiss, ShapeInv, TypeOK
<1>3. \A m \in Loaders :
        /\ queue[m] \in Seq(Tickets) /\ Len(queue[m]) \in Nat
        /\ \A i \in 1 .. Len(queue[m]) : queue[m][i] \in Tickets /\ Exists(queue[m][i])
  BY HeldFacts DEF Exists
<1>4. /\ Len(queue'[l]) = Len(queue[l]) + 1
      /\ queue'[l][Len(queue[l]) + 1] = n
      /\ \A i \in 1 .. Len(queue[l]) : queue'[l][i] = queue[l][i]
  BY <1>1, <1>2, <1>3, AppendProperties
<1>5. ASSUME NEW m \in Loaders, NEW i \in 1 .. Len(queue'[m])
      PROVE  \/ i \in 1 .. Len(queue[m]) /\ queue'[m][i] = queue[m][i] /\ queue'[m][i] # n
             \/ m = l /\ i = Len(queue[l]) + 1 /\ queue'[m][i] = n
  <2>1. CASE m # l
    <3>1. queue'[m] = queue[m]
      BY <2>1, <1>2
    <3>2. queue[m][i] <= made /\ queue[m][i] \in Tickets
      BY <3>1, <1>3 DEF Exists
    <3> QED BY <3>1, <3>2, <1>1, ConstantFacts
  <2>2. CASE m = l /\ i \in 1 .. Len(queue[l])
    <3>1. queue[l][i] <= made /\ queue[l][i] \in Tickets
      BY <2>2, <1>3 DEF Exists
    <3> QED BY <2>2, <3>1, <1>1, <1>4, ConstantFacts
  <2>3. CASE m = l /\ i \notin 1 .. Len(queue[l])
    <3>1. i = Len(queue[l]) + 1
      BY <2>3, <1>3, <1>4
    <3> QED BY <2>3, <3>1, <1>4
  <2> QED BY <2>1, <2>2, <2>3
<1>6. QueuesOK'
  <2> SUFFICES ASSUME NEW m \in Loaders PROVE QueueOK(m)'
    BY DEF QueuesOK
  <2>1. QueueOK(m)
    BY DEF PlacesInv, QueuesOK
  <2>2. Len(queue'[m]) <= made'
    BY <1>1, <1>2, <1>3, <1>4, <2>1 DEF QueueOK
  <2>3. ASSUME NEW i \in 1 .. Len(queue'[m])
        PROVE  status'[queue'[m][i]] = "pending" /\ load'[queue'[m][i]].loader = m
    <3>1. CASE i \in 1 .. Len(queue[m]) /\ queue'[m][i] = queue[m][i]
      <4>1. ~Settled(queue[m][i]) /\ load[queue[m][i]].loader = m
        BY <2>1, <3>1 DEF QueueOK
      <4>2. queue[m][i] \in Tickets /\ Exists(queue[m][i])
        BY <3>1, <1>3
      <4>3. /\ load'[queue[m][i]] = load[queue[m][i]]
            /\ status'[queue[m][i]] = status[queue[m][i]]
        BY <4>2, <1>1
      <4>4. status'[queue[m][i]] = "pending"
        BY <4>1, <4>3 DEF Settled
      <4> QED BY <3>1, <4>1, <4>3, <4>4
    <3>2. CASE m = l /\ queue'[m][i] = n
      BY <3>2, <1>1
    <3> QED BY <3>1, <3>2, <1>5
  <2>4. ASSUME NEW i \in 1 .. Len(queue'[m]), NEW j \in 1 .. Len(queue'[m]),
               queue'[m][i] = queue'[m][j]
        PROVE  i = j
    BY <2>1, <2>4, <1>5 DEF QueueOK
  <2> QED BY <2>2, <2>3, <2>4 DEF QueueOK, Settled
<1>7. TakenOnce'
  <2>1. ASSUME NEW c \in 1 .. Len(calls), NEW m \in Loaders,
               NEW i \in 1 .. Len(calls[c].taken), NEW j \in 1 .. Len(queue'[m])
        PROVE  calls[c].taken[i] # queue'[m][j]
    <3>1. calls[c].taken[i] # n
      BY SMTT(40), HeldFacts, <1>1, ConstantFacts
    <3>2. j \in 1 .. Len(queue[m]) => calls[c].taken[i] # queue[m][j]
      BY DEF PlacesInv, TakenOnce
    <3> QED BY <3>1, <3>2, <1>5
  <2> QED BY <2>1 DEF PlacesInv, TakenOnce
<1>8. PendingIsPlaced'
  <2> SUFFICES ASSUME NEW t \in Tickets, Exists(t)', ~Settled(t)'
               PROVE  IsQueued(t)' \/ IsTaken(t)'
    BY DEF PendingIsPlaced
  <2>1. CASE t = n
    <3>1. Len(queue[l]) + 1 \in 1 .. Len(queue'[l])
      BY <1>3, <1>4
    <3> QED BY <2>1, <3>1, <1>4 DEF IsQueued
  <2>2. CASE t # n
    <3>1. Exists(t) /\ ~Settled(t)
      <4>1. Exists(t)
        BY <2>2, <1>1, ConstantFacts DEF Exists
      <4> QED BY <4>1, <1>1 DEF Settled
    <3>2. CASE IsTaken(t)
      BY <3>2 DEF IsTaken
    <3>3. CASE IsQueued(t)
      <4>1. PICK m \in Loaders : \E i \in 1 .. Len(queue[m]) : queue[m][i] = t
        BY <3>3 DEF IsQueued
      <4>2. PICK i \in 1 .. Len(queue[m]) : queue[m][i] = t
        BY <4>1
      <4>3. i \in 1 .. Len(queue'[m]) /\ queue'[m][i] = t
        BY <4>2, <1>2, <1>3, <1>4
      <4> QED BY <4>3 DEF IsQueued
    <3> QED BY <3>1, <3>2, <3>3 DEF PlacesInv, PendingIsPlaced
  <2> QED BY <2>1, <2>2
<1> QED BY <1>1, <1>6, <1>7, <1>8 DEF PlacesInv

\* prime makes a ticket that waits nowhere, and is settled.
LEMMA PrimePlaces ==
  ASSUME ShapeInv, PlacesInv, NEW l \in Loaders, NEW k \in LoadKeys, Prime(l, k)
  PROVE  PlacesInv'
<1>1. /\ NewTicket(l, k, "resolved", Primed) /\ Primed \in Values
      /\ UNCHANGED <<subscribers, queue, calls, hooks, many>>
  BY DEF Prime, Values
<1>2. /\ NewTicketsArePending' /\ AllTakenOK'
      /\ \A t \in Tickets : Exists(t) =>
           t # made' /\ load'[t] = load[t] /\ status'[t] = status[t]
      /\ made' \in Tickets /\ made' = made + 1 /\ made \in Nat
      /\ status'[made'] = "resolved"
  BY <1>1, NewTicketPlaces
<1>3. QueuesOK'
  <2> SUFFICES ASSUME NEW m \in Loaders PROVE QueueOK(m)'
    BY DEF QueuesOK
  <2>1. QueueOK(m)
    BY DEF PlacesInv, QueuesOK
  <2>2. ASSUME NEW i \in 1 .. Len(queue[m])
        PROVE  status'[queue[m][i]] = "pending" /\ load'[queue[m][i]].loader = m
    <3>1. queue[m][i] \in Tickets /\ Exists(queue[m][i])
      BY HeldFacts DEF Exists
    <3>2. ~Settled(queue[m][i]) /\ load[queue[m][i]].loader = m
      BY <2>1 DEF QueueOK
    <3>3. /\ load'[queue[m][i]] = load[queue[m][i]]
          /\ status'[queue[m][i]] = status[queue[m][i]]
      BY <3>1, <1>2
    <3> QED BY <3>2, <3>3 DEF Settled
  <2>3. queue' = queue /\ Len(queue[m]) <= made'
    BY <1>1, <1>2, <2>1, HeldFacts DEF QueueOK
  <2> QED BY <2>1, <2>2, <2>3, <1>1 DEF QueueOK, Settled
<1>4. TakenOnce'
  BY <1>1 DEF PlacesInv, TakenOnce
<1>5. PendingIsPlaced'
  <2> SUFFICES ASSUME NEW t \in Tickets, Exists(t)', ~Settled(t)'
               PROVE  IsQueued(t)' \/ IsTaken(t)'
    BY DEF PendingIsPlaced
  <2>1. t # made'
    BY <1>2 DEF Settled
  <2>2. Exists(t) /\ ~Settled(t)
    <3>1. Exists(t)
      BY <2>1, <1>2, ConstantFacts DEF Exists
    <3> QED BY <3>1, <1>2 DEF Settled
  <2>3. IsQueued(t) \/ IsTaken(t)
    BY <2>2 DEF PlacesInv, PendingIsPlaced
  <2> QED BY <2>3, <1>1 DEF IsQueued, IsTaken
<1> QED BY <1>2, <1>3, <1>4, <1>5 DEF PlacesInv

\* dispatch moves the tickets of a queue, all pending, to a new frame.
LEMMA TakeQueuePlaces ==
  ASSUME ShapeInv, PlacesInv, NEW l \in Loaders, TakeQueue(l),
         NewCall(l) \in Frames,
         UNCHANGED <<made, load, status>>
  PROVE  PlacesInv'
<1> DEFINE f == NewCall(l)
<1>1. TypeOK
  BY DEF ShapeInv
<1>2. calls' = <<f>> \o calls /\ queue' = [queue EXCEPT ![l] = <<>>]
  BY DEF TakeQueue
<1>3. f.taken = queue[l] /\ f.loader = l /\ SettledBy(f) = 0
  BY DEF NewCall, SettledBy
<1> HIDE DEF f
<1>4. /\ Len(calls') = Len(calls) + 1 /\ calls'[1] = f /\ Len(calls) \in Nat
      /\ \A c \in 1 .. Len(calls') :
           c # 1 => c - 1 \in 1 .. Len(calls) /\ calls'[c] = calls[c - 1]
      /\ \A c \in 1 .. Len(calls) : calls'[c + 1] = calls[c]
  BY <1>1, <1>2, PushFacts DEF f, TypeOK
<1>5. /\ Len(queue'[l]) = 0
      /\ \A m \in Loaders : m # l => queue'[m] = queue[m]
  BY <1>1, <1>2 DEF TypeOK
<1>6. NewTicketsArePending'
  BY DEF PlacesInv, NewTicketsArePending, Exists, Settled
<1>7. QueuesOK'
  <2> SUFFICES ASSUME NEW m \in Loaders PROVE QueueOK(m)'
    BY DEF QueuesOK
  <2>1. CASE m = l
    <3>1. made \in Nat
      BY HeldFacts
    <3> QED BY <2>1, <3>1, <1>5 DEF QueueOK
  <2>2. CASE m # l
    <3>1. QueueOK(m) /\ queue'[m] = queue[m]
      BY <2>2, <1>5 DEF PlacesInv, QueuesOK
    <3> QED BY <3>1 DEF QueueOK, Settled
  <2> QED BY <2>1, <2>2
<1>8. AllTakenOK'
  <2> SUFFICES ASSUME NEW c \in 1 .. Len(calls') PROVE TakenOK(calls[c])'
    BY DEF AllTakenOK
  <2>1. CASE c = 1
    <3>1. QueueOK(l)
      BY DEF PlacesInv, QueuesOK
    <3>2. \A i \in 1 .. Len(queue[l]) : i \in Nat /\ ~(i <= 0)
      BY HeldFacts
    <3>3. /\ Len(f.taken) <= made
          /\ \A i \in 1 .. Len(f.taken) :
               /\ load[f.taken[i]].loader = f.loader
               /\ ~Settled(f.taken[i]) /\ ~(i <= SettledBy(f))
          /\ \A i, j \in 1 .. Len(f.taken) : f.taken[i] = f.taken[j] => i = j
      BY <3>1, <3>2, <1>3 DEF QueueOK
    <3> QED BY <2>1, <3>3, <1>4 DEF TakenOK, Settled
  <2>2. CASE c # 1
    <3>1. TakenOK(calls[c - 1]) /\ calls'[c] = calls[c - 1]
      BY <2>2, <1>4 DEF PlacesInv, AllTakenOK
    <3> QED BY <3>1 DEF TakenOK, Settled
  <2> QED BY <2>1, <2>2
<1>9. TakenOnce'
  <2>1. ASSUME NEW c \in 1 .. Len(calls), NEW i \in 1 .. Len(f.taken),
               NEW j \in 1 .. Len(calls[c].taken)
        PROVE  f.taken[i] # calls[c].taken[j]
    BY <1>3 DEF PlacesInv, TakenOnce
  <2>2. ASSUME NEW c \in 1 .. Len(calls'), NEW d \in 1 .. Len(calls'), c # d,
               NEW i \in 1 .. Len(calls'[c].taken), NEW j \in 1 .. Len(calls'[d].taken)
        PROVE  calls'[c].taken[i] # calls'[d].taken[j]
    <3>1. CASE c = 1
      <4>1. /\ d - 1 \in 1 .. Len(calls) /\ calls'[d] = calls[d - 1] /\ calls'[c] = f
        BY <3>1, <2>2, <1>4
      <4>2. i \in 1 .. Len(f.taken) /\ j \in 1 .. Len(calls[d - 1].taken)
        BY <4>1
      <4>3. f.taken[i] # calls[d - 1].taken[j]
        BY <4>1, <4>2, <2>1
      <4> QED BY <4>1, <4>3
    <3>2. CASE d = 1
      <4>1. /\ c - 1 \in 1 .. Len(calls) /\ calls'[c] = calls[c - 1] /\ calls'[d] = f
        BY <3>2, <2>2, <1>4
      <4>2. j \in 1 .. Len(f.taken) /\ i \in 1 .. Len(calls[c - 1].taken)
        BY <4>1
      <4>3. f.taken[j] # calls[c - 1].taken[i]
        BY <4>1, <4>2, <2>1
      <4> QED BY <4>1, <4>3
    <3>3. CASE c # 1 /\ d # 1
      <4>1. /\ c - 1 \in 1 .. Len(calls) /\ calls'[c] = calls[c - 1]
            /\ d - 1 \in 1 .. Len(calls) /\ calls'[d] = calls[d - 1]
            /\ c - 1 # d - 1
        BY <3>3, <2>2, <1>4
      <4> QED BY <4>1 DEF PlacesInv, TakenOnce
    <3> QED BY <3>1, <3>2, <3>3
  <2>3. ASSUME NEW c \in 1 .. Len(calls'), NEW m \in Loaders,
               NEW i \in 1 .. Len(calls'[c].taken), NEW j \in 1 .. Len(queue'[m])
        PROVE  calls'[c].taken[i] # queue'[m][j]
    <3>1. m # l /\ queue'[m] = queue[m]
      BY <2>3, <1>5
    <3>2. CASE c = 1
      <4>1. QueueOK(l) /\ QueueOK(m)
        BY DEF PlacesInv, QueuesOK
      <4>2. i \in 1 .. Len(queue[l]) /\ calls'[c].taken[i] = queue[l][i]
        BY <3>2, <1>3, <1>4
      <4>3. load[queue[l][i]].loader = l /\ load[queue[m][j]].loader = m
        BY <4>1, <4>2, <3>1 DEF QueueOK
      <4> QED BY <4>2, <4>3, <3>1
    <3>3. CASE c # 1
      <4>1. c - 1 \in 1 .. Len(calls) /\ calls'[c] = calls[c - 1]
        BY <3>3, <1>4
      <4> QED BY <4>1, <3>1 DEF PlacesInv, TakenOnce
    <3> QED BY <3>2, <3>3
  <2> QED BY <2>2, <2>3 DEF TakenOnce
<1>10. PendingIsPlaced'
  <2> SUFFICES ASSUME NEW t \in Tickets, Exists(t)', ~Settled(t)'
               PROVE  IsQueued(t)' \/ IsTaken(t)'
    BY DEF PendingIsPlaced
  <2>1. IsQueued(t) \/ IsTaken(t)
    BY DEF PlacesInv, PendingIsPlaced, Exists, Settled
  <2>2. ASSUME NEW c \in 1 .. Len(calls), NEW i \in 1 .. Len(calls[c].taken),
               calls[c].taken[i] = t
        PROVE  IsTaken(t)'
    <3>1. c + 1 \in 1 .. Len(calls') /\ calls'[c + 1] = calls[c]
      BY <1>4
    <3> QED BY <3>1, <2>2 DEF IsTaken
  <2>3. ASSUME NEW m \in Loaders, NEW i \in 1 .. Len(queue[m]), queue[m][i] = t
        PROVE  IsQueued(t)' \/ IsTaken(t)'
    <3>1. CASE m = l
      <4>1. 1 \in 1 .. Len(calls') /\ i \in 1 .. Len(calls'[1].taken)
            /\ calls'[1].taken[i] = t
        BY <3>1, <2>3, <1>3, <1>4
      <4> QED BY <4>1 DEF IsTaken
    <3>2. CASE m # l
      BY <3>2, <2>3, <1>5 DEF IsQueued
    <3> QED BY <3>1, <3>2
  <2> QED BY <2>1, <2>2, <2>3 DEF IsQueued, IsTaken
<1> QED BY <1>6, <1>7, <1>8, <1>9, <1>10 DEF PlacesInv

\* Settling an entry settles a pending ticket, the next of its taken queue.
LEMMA SettlePlace ==
  ASSUME ShapeInv, PlacesInv, SettleTicket, NEW t, t = CurrentTicket(calls[1])
  PROVE  /\ t \in Tickets /\ ~Settled(t) /\ Exists(t)
         /\ status'[t] # "pending"
         /\ \A u \in Tickets : u # t => status'[u] = status[u]
         /\ subscribers'[t] = <<>>
         /\ SetTop(Notifying(calls[1], subscribers[t]))
<1> DEFINE f == calls[1]
           n == f.offset + f.at + 1
<1>1. /\ calls # <<>> /\ f \in Frames /\ f.phase = "settle"
      /\ n \in 1 .. Len(f.taken) /\ t \in Tickets /\ t = f.taken[n]
      /\ 1 \in 1 .. Len(calls)
  BY SettleFacts, TopShape
<1>2. TakenOK(f)
  BY <1>1 DEF PlacesInv, AllTakenOK
<1>3. f.offset \in Nat /\ f.at \in Nat
  BY <1>1 DEF Frames
<1>4. ~(n <= SettledBy(f))
  BY <1>1, <1>3 DEF SettledBy
<1>5. ~Settled(t)
  BY <1>1, <1>2, <1>4 DEF TakenOK
<1>6. Exists(t)
  BY <1>1 DEF ShapeInv, TakenExist
<1>7. /\ status'[t] # "pending" /\ subscribers'[t] = <<>>
      /\ \A u \in Tickets : u # t => status'[u] = status[u]
  BY <1>5, SettleEffect
<1>8. SetTop(Notifying(f, subscribers[t]))
  BY <1>5, SettleFacts
<1> QED BY <1>1, <1>5, <1>6, <1>7, <1>8

\* Settling an entry keeps every ticket at its place.
LEMMA SettlePlaces ==
  ASSUME ShapeInv, PlacesInv, SettleTicket
  PROVE  PlacesInv'
<1> DEFINE f == calls[1]
           t == CurrentTicket(f)
           n == f.offset + f.at + 1
           g == Notifying(f, subscribers[t])
<1>1. /\ t \in Tickets /\ ~Settled(t) /\ Exists(t) /\ status'[t] # "pending"
      /\ \A u \in Tickets : u # t => status'[u] = status[u]
      /\ SetTop(g)
  BY SettlePlace
<1>2. /\ calls # <<>> /\ f \in Frames /\ f.phase = "settle"
      /\ n \in 1 .. Len(f.taken) /\ t = f.taken[n]
      /\ 1 \in 1 .. Len(calls) /\ TypeOK
  BY SettleFacts, TopShape DEF ShapeInv
<1>3. UNCHANGED <<made, load, promises, queue, hooks, many>>
  BY SettleEffect
<1>4. subscribers[t] \in Seq(Slots) /\ g \in Frames
  BY <1>1, <1>2, FrameTypes DEF TypeOK
<1>5. /\ g.taken = f.taken /\ g.loader = f.loader
      /\ SettledBy(g) = n /\ SettledBy(f) = n - 1 /\ n \in Nat
  BY <1>2 DEF Notifying, SettledBy, Frames
<1> HIDE DEF g, t, n
<1>6. /\ Len(calls') = Len(calls) /\ calls'[1] = g
      /\ \A c \in 1 .. Len(calls) : c # 1 => calls'[c] = calls[c]
  BY <1>1, <1>2, <1>4, SetTopFacts
<1>7. NewTicketsArePending'
  BY <1>1, <1>3 DEF PlacesInv, NewTicketsArePending, Exists, Settled
<1>8. QueuesOK'
  <2> SUFFICES ASSUME NEW m \in Loaders PROVE QueueOK(m)'
    BY DEF QueuesOK
  <2>1. QueueOK(m)
    BY DEF PlacesInv, QueuesOK
  <2>2. ASSUME NEW i \in 1 .. Len(queue[m])
        PROVE  status'[queue[m][i]] = status[queue[m][i]]
    <3>1. queue[m][i] \in Tickets /\ queue[m][i] # t
      BY <1>2, HeldFacts DEF PlacesInv, TakenOnce
    <3> QED BY <3>1, <1>1
  <2> QED BY <2>1, <2>2, <1>3 DEF QueueOK, Settled
<1>9. AllTakenOK'
  <2> SUFFICES ASSUME NEW c \in 1 .. Len(calls) PROVE TakenOK(calls[c])'
    BY <1>6 DEF AllTakenOK
  <2>1. TakenOK(calls[c]) /\ TakenOK(f)
    BY <1>2 DEF PlacesInv, AllTakenOK
  <2>2. CASE c # 1
    <3>1. ASSUME NEW i \in 1 .. Len(calls[c].taken)
          PROVE  status'[calls[c].taken[i]] = status[calls[c].taken[i]]
      <4>1. calls[c].taken[i] \in Tickets /\ calls[c].taken[i] # t
        BY <2>2, <1>2, HeldFacts DEF PlacesInv, TakenOnce
      <4> QED BY <4>1, <1>1
    <3>2. calls'[c] = calls[c]
      BY <2>2, <1>6
    <3> QED BY <2>1, <3>1, <3>2, <1>3 DEF TakenOK, Settled
  <2>3. CASE c = 1
    <3>1. ASSUME NEW i \in 1 .. Len(f.taken)
          PROVE  status'[f.taken[i]] # "pending" <=> i <= n
      <4>1. f.taken[i] \in Tickets /\ i \in Nat
        BY <1>2, HeldFacts
      <4>2. status[f.taken[i]] # "pending" <=> i <= n - 1
        BY <2>1, <1>5 DEF TakenOK, Settled
      <4>3. CASE i = n
        BY <4>3, <1>1, <1>2, <1>5
      <4>4. CASE i # n
        <5>1. f.taken[i] # t
          BY <4>4, <2>1, <1>2 DEF TakenOK
        <5>2. i <= n - 1 <=> i <= n
          BY <4>1, <4>4, <1>5
        <5> QED BY <4>1, <4>2, <5>1, <5>2, <1>1
      <4> QED BY <4>3, <4>4
    <3> QED BY <2>1, <2>3, <3>1, <1>3, <1>5, <1>6 DEF TakenOK, Settled
  <2> QED BY <2>2, <2>3
<1>10. \A c \in 1 .. Len(calls) : calls'[c].taken = calls[c].taken
  BY <1>5, <1>6
<1>11. TakenOnce'
  BY SMTT(40), <1>3, <1>6, <1>10 DEF PlacesInv, TakenOnce
<1>12. PendingIsPlaced'
  <2> SUFFICES ASSUME NEW u \in Tickets, Exists(u)', ~Settled(u)'
               PROVE  IsQueued(u)' \/ IsTaken(u)'
    BY DEF PendingIsPlaced
  <2>1. Exists(u) /\ ~Settled(u)
    BY <1>1, <1>3 DEF Exists, Settled
  <2>2. IsQueued(u) \/ IsTaken(u)
    BY <2>1 DEF PlacesInv, PendingIsPlaced
  <2> QED BY <2>2, <1>3, <1>6, <1>10 DEF IsQueued, IsTaken
<1> QED BY <1>7, <1>8, <1>9, <1>11, <1>12 DEF PlacesInv

\* A frame that moves without settling a ticket keeps every place.
LEMMA MovePlaces ==
  ASSUME ShapeInv, PlacesInv, calls # <<>>, NEW g \in Frames, SetTop(g),
         g.taken = calls[1].taken, g.loader = calls[1].loader,
         SettledBy(g) = SettledBy(calls[1]),
         UNCHANGED <<made, load, status, queue>>
  PROVE  PlacesInv'
<1>1. TypeOK
  BY DEF ShapeInv
<1>2. /\ Len(calls') = Len(calls) /\ calls'[1] = g
      /\ \A c \in 1 .. Len(calls) : c # 1 => calls'[c] = calls[c]
  BY <1>1, SetTopFacts
<1> QED BY <1>2, PlacesKept

\* The loop of a dispatch, between two tickets it settles.
LEMMA LoopPlaces ==
  ASSUME ShapeInv, PlacesInv,
         \/ CallBatch \/ NextEntry \/ NotifySubscriber
         \/ \E reply \in {"values", "dies"} : BatchReturns(reply)
  PROVE  PlacesInv'
<1> DEFINE f == calls[1]
<1>1. UNCHANGED <<made, load, status, queue>>
  BY DEF CallBatch, NextEntry, NotifySubscriber, BatchReturns, tickets
<1>2. calls # <<>>
  BY DEF CallBatch, NextEntry, NotifySubscriber, BatchReturns, DispatchRuns
<1>3. f = Head(calls) /\ f \in Frames /\ FrameOK(f)
  BY <1>2, TopShape
<1>4. f.offset \in Nat /\ f.at \in Nat /\ f.size \in Nat
  BY <1>3 DEF Frames
<1>5. CASE CallBatch
  <2> DEFINE s == ChunkSize(f.loader, Len(f.taken) - f.offset)
             g == Batching(f, s)
  <2>1. f.phase = "chunk" /\ f.offset < Len(f.taken) /\ SetTop(g)
    BY <1>3, <1>5 DEF CallBatch
  <2>2. s \in Nat
    <3>1. f.loader \in Loaders /\ Len(f.taken) \in Nat
      BY <1>3 DEF Frames
    <3>2. s \in 1 .. (Len(f.taken) - f.offset)
      BY <1>4, <2>1, <3>1, ChunkFacts
    <3> QED BY <3>1, <3>2
  <2>3. /\ g \in Frames /\ g.taken = f.taken /\ g.loader = f.loader
        /\ SettledBy(g) = SettledBy(f)
    <3>1. ChunkKeys(f, s) \in Seq(LoadKeys)
      <4>1. s \in 1 .. (Len(f.taken) - f.offset)
        BY <1>3, <1>4, <2>1, ChunkFacts DEF Frames
      <4> HIDE DEF s
      <4> QED BY <1>2, <4>1, ChunkKeysFacts DEF ShapeInv
    <3> HIDE DEF s
    <3>2. g \in Frames
      BY <1>3, <2>2, <3>1, FrameTypes
    <3>3. f.at = 0
      BY <1>3, <2>1 DEF FrameOK
    <3>4. SettledBy(f) = f.offset /\ SettledBy(g) = f.offset
      BY <1>4, <2>1, <3>3 DEF SettledBy, Batching
    <3> QED BY <3>2, <3>4 DEF Batching
  <2> HIDE DEF g
  <2> QED BY <1>1, <1>2, <2>1, <2>3, MovePlaces
<1>6. CASE NextEntry
  <2> DEFINE g == IF f.at + 1 < f.size THEN AtNextEntry(f) ELSE AtNextChunk(f)
  <2>1. f.phase = "notify" /\ f.at < f.size /\ SetTop(g)
    BY <1>3, <1>6 DEF NextEntry, FrameOK
  <2>2. SettledBy(f) = f.offset + f.at + 1
    BY <1>4, <2>1 DEF SettledBy
  <2>3. g \in Frames /\ g.taken = f.taken /\ g.loader = f.loader
    BY <1>3, FrameTypes DEF AtNextEntry, AtNextChunk
  <2>4. SettledBy(g) = SettledBy(f)
    <3>1. CASE f.at + 1 < f.size
      <4>1. SettledBy(g) = f.offset + (f.at + 1)
        BY <1>4, <3>1 DEF AtNextEntry, SettledBy
      <4> QED BY <1>4, <2>2, <4>1
    <3>2. CASE ~(f.at + 1 < f.size)
      <4>1. SettledBy(g) = f.offset + f.size /\ f.at + 1 = f.size
        BY <1>4, <2>1, <3>2 DEF AtNextChunk, SettledBy
      <4> QED BY <1>4, <2>2, <4>1
    <3> QED BY <3>1, <3>2
  <2> HIDE DEF g
  <2> QED BY <1>1, <1>2, <2>1, <2>3, <2>4, MovePlaces
<1>7. CASE NotifySubscriber
  <2> DEFINE g == Notifying(f, Tail(f.waiting))
  <2>1. g \in Frames /\ SetTop(g) /\ f.phase = "notify"
    BY <1>7, NotifyFacts
  <2>2. g.taken = f.taken /\ g.loader = f.loader /\ SettledBy(g) = SettledBy(f)
    BY <1>4, <2>1 DEF Notifying, SettledBy
  <2> HIDE DEF g
  <2> QED BY <1>1, <1>2, <2>1, <2>2, MovePlaces
<1>8. ASSUME NEW reply \in {"values", "dies"}, BatchReturns(reply)
      PROVE  PlacesInv'
  <2>1. PICK values \in Seq(LoadKeys \cup Errors) :
          SetTop(Replied(f, reply, values)) /\ f.phase = "batch"
    BY <1>8, BatchReturnsFacts
  <2> DEFINE g == Replied(f, reply, values)
  <2>2. g \in Frames
    BY <1>3, FrameTypes
  <2>3. f.at = 0
    BY <1>3, <2>1 DEF FrameOK
  <2>4. g.taken = f.taken /\ g.loader = f.loader /\ SettledBy(g) = SettledBy(f)
    BY <1>4, <2>1, <2>3 DEF Replied, SettledBy
  <2>5. SetTop(g)
    BY <2>1
  <2> HIDE DEF g
  <2> QED BY <1>1, <1>2, <2>2, <2>4, <2>5, MovePlaces
<1> QED BY <1>5, <1>6, <1>7, <1>8

\* A dispatch that returns has settled all it took.
LEMMA ReturnPlaces ==
  ASSUME ShapeInv, PlacesInv, DispatchReturns
  PROVE  PlacesInv'
<1> DEFINE f == calls[1]
<1>1. TypeOK
  BY DEF ShapeInv
<1>2. /\ calls # <<>> /\ f \in Frames /\ FrameOK(f) /\ f.phase = "chunk"
      /\ f.offset = Len(f.taken) /\ calls' = Tail(calls)
      /\ UNCHANGED <<tickets, subscribers, queue, many>>
  BY ReturnFacts
<1>3. UNCHANGED <<made, load, status>>
  BY <1>2 DEF tickets
<1>4. /\ Len(calls') = Len(calls) - 1 /\ Len(calls) \in Nat
      /\ \A c \in 1 .. Len(calls') :
           c + 1 \in 1 .. Len(calls) /\ calls'[c] = calls[c + 1]
  BY <1>1, <1>2, PopFacts DEF TypeOK
<1>5. NewTicketsArePending'
  BY <1>3 DEF PlacesInv, NewTicketsArePending, Exists, Settled
<1>6. QueuesOK'
  BY <1>2, <1>3 DEF PlacesInv, QueuesOK, QueueOK, Settled
<1>7. AllTakenOK'
  <2> SUFFICES ASSUME NEW c \in 1 .. Len(calls') PROVE TakenOK(calls[c])'
    BY DEF AllTakenOK
  <2>1. TakenOK(calls[c + 1]) /\ calls'[c] = calls[c + 1]
    BY <1>4 DEF PlacesInv, AllTakenOK
  <2> QED BY <2>1, <1>3 DEF TakenOK, Settled
<1>8. TakenOnce'
  <2>1. ASSUME NEW c \in 1 .. Len(calls'), NEW d \in 1 .. Len(calls'), c # d,
               NEW i \in 1 .. Len(calls'[c].taken), NEW j \in 1 .. Len(calls'[d].taken)
        PROVE  calls'[c].taken[i] # calls'[d].taken[j]
    <3>1. /\ c + 1 \in 1 .. Len(calls) /\ calls'[c] = calls[c + 1]
          /\ d + 1 \in 1 .. Len(calls) /\ calls'[d] = calls[d + 1]
          /\ c + 1 # d + 1
      BY <2>1, <1>4
    <3> QED BY <3>1 DEF PlacesInv, TakenOnce
  <2>2. ASSUME NEW c \in 1 .. Len(calls'), NEW m \in Loaders,
               NEW i \in 1 .. Len(calls'[c].taken), NEW j \in 1 .. Len(queue[m])
        PROVE  calls'[c].taken[i] # queue[m][j]
    <3>1. c + 1 \in 1 .. Len(calls) /\ calls'[c] = calls[c + 1]
      BY <1>4
    <3> QED BY <3>1 DEF PlacesInv, TakenOnce
  <2>3. queue' = queue
    BY <1>2
  <2> QED BY <2>1, <2>2, <2>3 DEF TakenOnce
<1>9. PendingIsPlaced'
  <2> SUFFICES ASSUME NEW t \in Tickets, Exists(t), ~Settled(t)
               PROVE  IsQueued(t)' \/ IsTaken(t)'
    BY <1>3 DEF PendingIsPlaced, Exists, Settled
  <2>1. CASE IsQueued(t)
    BY <2>1, <1>2 DEF IsQueued
  <2>2. CASE IsTaken(t)
    <3>1. PICK c \in 1 .. Len(calls) : \E i \in 1 .. Len(calls[c].taken) : calls[c].taken[i] = t
      BY <2>2 DEF IsTaken
    <3>2. c # 1
      <4> SUFFICES ASSUME c = 1 PROVE FALSE
        OBVIOUS
      <4>1. PICK i \in 1 .. Len(f.taken) : f.taken[i] = t
        BY <3>1
      <4>2. TakenOK(f)
        BY <3>1 DEF PlacesInv, AllTakenOK
      <4>3. i <= SettledBy(f)
        <5>1. f.at = 0 /\ Len(f.taken) \in Nat
          BY <1>2 DEF FrameOK, Frames
        <5> QED BY <1>2, <5>1 DEF SettledBy
      <4>4. Settled(t)
        BY <4>1, <4>2, <4>3 DEF TakenOK
      <4> QED BY <4>4
    <3>3. c - 1 \in 1 .. Len(calls') /\ calls'[c - 1] = calls[c]
      <4>1. c - 1 \in 1 .. Len(calls') /\ (c - 1) + 1 = c
        BY <3>2, <1>4
      <4> QED BY <4>1, <1>4
    <3> QED BY <3>1, <3>3 DEF IsTaken
  <2> QED BY <2>1, <2>2 DEF PlacesInv, PendingIsPlaced
<1> QED BY <1>5, <1>6, <1>7, <1>8, <1>9 DEF PlacesInv

\* A step that changes no ticket, queue or dispatch.
LEMMA IdlePlaces ==
  ASSUME PlacesInv, UNCHANGED <<made, load, status, queue, calls>>
  PROVE  PlacesInv'
BY PlacesKept

\* Places is inductive.
LEMMA PlacesStep == ShapeInv /\ PlacesInv /\ [Next]_vars => PlacesInv'
<1> SUFFICES ASSUME ShapeInv, PlacesInv, [Next]_vars PROVE PlacesInv'
  OBVIOUS
<1>1. ASSUME NEW l \in Loaders, NEW k \in LoadKeys, Load(l, k)
      PROVE  PlacesInv'
  BY <1>1, EnqueuePlaces DEF Load
<1>2. ASSUME NEW l \in Loaders, NEW k \in LoadKeys, Prime(l, k)
      PROVE  PlacesInv'
  BY <1>2, PrimePlaces
<1>3. ASSUME NEW l \in Loaders, NEW k \in LoadKeys, Clear(l, k)
      PROVE  PlacesInv'
  BY <1>3, IdlePlaces DEF Clear
<1>4. ASSUME NEW l \in Loaders, ClearAll(l)
      PROVE  PlacesInv'
  BY <1>4, IdlePlaces DEF ClearAll
<1>5. ASSUME NEW l \in Loaders, NEW keys \in ManyKeys, LoadMany(l, keys)
      PROVE  PlacesInv'
  BY <1>5, IdlePlaces DEF LoadMany, tickets
<1>6. ASSUME NEW l \in Loaders, Dispatch(l)
      PROVE  PlacesInv'
  <2>1. TakeQueue(l) /\ queue[l] # <<>> /\ UNCHANGED <<made, load, status>>
    BY <1>6 DEF Dispatch, TakeQueue, tickets
  <2>2. NewCall(l) \in Frames
    BY <2>1, NewCallShape DEF ShapeInv
  <2> QED BY <2>1, <2>2, TakeQueuePlaces
<1>7. CASE LoadManyNext
  <2> DEFINE c == Len(many)
             l == many[c].loader
             k == many[c].keys[many[c].at + 1]
  <2>1. calls' = calls /\ (UNCHANGED <<tickets, queue>> \/ EnqueueLoadMiss(l, k))
    BY <1>7 DEF LoadManyNext
  <2>2. l \in Loaders /\ k \in LoadKeys
    BY <1>7, LoopFacts DEF ShapeInv, LoadManyNext
  <2>3. CASE UNCHANGED <<tickets, queue>>
    BY <2>1, <2>3, IdlePlaces DEF tickets
  <2>4. CASE EnqueueLoadMiss(l, k)
    <3> HIDE DEF l, k
    <3> QED BY <2>1, <2>2, <2>4, EnqueuePlaces
  <2> QED BY <2>1, <2>3, <2>4
<1>8. CASE CallBatch
  BY <1>8, LoopPlaces
<1>9. ASSUME NEW reply \in {"values", "dies"}, BatchReturns(reply)
      PROVE  PlacesInv'
  BY <1>9, LoopPlaces
<1>10. CASE SettleTicket
  BY <1>10, SettlePlaces
<1>11. CASE NotifySubscriber \/ NextEntry
  BY <1>11, LoopPlaces
<1>12. CASE DispatchReturns
  BY <1>12, ReturnPlaces
<1>13. CASE OnStall \/ StallNextRound \/ StallReturns
  BY <1>13, IdlePlaces DEF OnStall, StallNextRound, StallReturns, tickets
<1>14. CASE StallDispatch
  <2> DEFINE l == Head(hooks).loader
  <2>1. CASE queue[l] = <<>>
    BY <2>1, <1>14, IdlePlaces DEF StallDispatch, tickets
  <2>2. CASE queue[l] # <<>>
    <3>1. l \in Loaders /\ TakeQueue(l) /\ UNCHANGED <<made, load, status>>
      BY <2>2, <1>14 DEF StallDispatch, tickets
    <3> HIDE DEF l
    <3>2. NewCall(l) \in Frames
      BY <2>2, <3>1, NewCallShape DEF ShapeInv
    <3> QED BY <3>1, <3>2, TakeQueuePlaces
  <2> QED BY <2>1, <2>2
<1>15. CASE UNCHANGED vars
  BY <1>15, IdlePlaces DEF vars
<1> QED
  BY <1>1, <1>2, <1>3, <1>4, <1>5, <1>6, <1>7, <1>8, <1>9, <1>10, <1>11, <1>12,
     <1>13, <1>14, <1>15 DEF Next, UserStep, DispatchStep, HookStep

\* Nothing is anywhere initially.
LEMMA PlacesInit == Init => PlacesInv
<1> SUFFICES ASSUME Init PROVE PlacesInv
  OBVIOUS
<1>1. Len(calls) = 0 /\ (\A l \in Loaders : Len(queue[l]) = 0) /\ made = 0
  BY EmptySeq DEF Init
<1>2. NewTicketsArePending
  BY DEF Init, NewTicketsArePending, Settled
<1>3. QueuesOK
  BY <1>1 DEF QueuesOK, QueueOK
<1>4. AllTakenOK /\ TakenOnce
  BY <1>1 DEF AllTakenOK, TakenOnce
<1>5. PendingIsPlaced
  BY <1>1, ConstantFacts DEF PendingIsPlaced, Exists
<1> QED BY <1>2, <1>3, <1>4, <1>5 DEF PlacesInv

\* In every reachable state every ticket is where the loop says it is.
LEMMA PlacesHold == Spec => [](ShapeInv /\ PlacesInv)
<1>1. Init => ShapeInv /\ PlacesInv
  BY ShapeInit, PlacesInit
<1>2. ShapeInv /\ PlacesInv /\ [Next]_vars => (ShapeInv /\ PlacesInv)'
  BY ShapeStep, PlacesStep
<1> QED BY <1>1, <1>2, PTL DEF Spec

-----------------------------------------------------------------------------
(* What follows from Places *)

\* A key that was loaded is sent to the batch function once and only once: in
\* every reachable state a pending ticket waits in exactly one place, its
\* loader's queue or the unfinished part of one dispatch, and a settled one
\* nowhere, however user code loads, clears and dispatches inside dispatches.
THEOREM TicketsWaitOnce == Spec => []NoTicketLostOrRepeated
<1>1. ShapeInv /\ PlacesInv => NoTicketLostOrRepeated
  <2> SUFFICES ASSUME ShapeInv, PlacesInv, NEW t \in Tickets, Exists(t)
               PROVE  IF Settled(t) THEN QueuedAt(t) = {} /\ InFlightAt(t) = {}
                      ELSE \/ /\ \E i \in Tickets : QueuedAt(t) = {<<load[t].loader, i>>}
                              /\ InFlightAt(t) = {}
                           \/ /\ QueuedAt(t) = {}
                              /\ \E p \in (1 .. Len(calls)) \X Tickets :
                                   /\ InFlightAt(t) = {p}
                                   /\ calls[p[1]].loader = load[t].loader
    BY DEF NoTicketLostOrRepeated
  <2>1. /\ \A l \in Loaders : QueueOK(l)
        /\ \A c \in 1 .. Len(calls) : TakenOK(calls[c])
        /\ made \in Nat /\ made <= MaxTickets
    BY DEF PlacesInv, QueuesOK, AllTakenOK, ShapeInv, TypeOK
  <2>2. ASSUME NEW p \in QueuedAt(t)
        PROVE  /\ p[1] \in Loaders /\ p[2] \in 1 .. Len(queue[p[1]])
               /\ queue[p[1]][p[2]] = t /\ p = <<p[1], p[2]>>
               /\ ~Settled(t) /\ p[1] = load[t].loader
    <3>1. /\ p \in Loaders \X Tickets /\ p[2] <= Len(queue[p[1]])
          /\ queue[p[1]][p[2]] = t
      BY DEF QueuedAt
    <3>2. p[1] \in Loaders /\ p[2] \in Tickets /\ p = <<p[1], p[2]>>
      BY <3>1
    <3>3. p[2] \in 1 .. Len(queue[p[1]])
      BY <3>1, <3>2, HeldFacts, ConstantFacts
    <3> QED BY <3>1, <3>2, <3>3, <2>1 DEF QueueOK
  <2>3. ASSUME NEW p \in InFlightAt(t)
        PROVE  /\ p[1] \in 1 .. Len(calls) /\ p[2] \in 1 .. Len(calls[p[1]].taken)
               /\ calls[p[1]].taken[p[2]] = t /\ p = <<p[1], p[2]>>
               /\ ~Settled(t)
    <3>1. /\ p \in (1 .. Len(calls)) \X Tickets
          /\ SettledBy(calls[p[1]]) < p[2] /\ p[2] <= Len(calls[p[1]].taken)
          /\ calls[p[1]].taken[p[2]] = t
      BY DEF InFlightAt
    <3>2. p[1] \in 1 .. Len(calls) /\ p[2] \in Tickets /\ p = <<p[1], p[2]>>
      BY <3>1
    <3>3. p[2] \in 1 .. Len(calls[p[1]].taken) /\ calls[p[1]] \in Frames
      BY <3>1, <3>2, HeldFacts, ConstantFacts
    <3>4. SettledBy(calls[p[1]]) \in Nat
      BY <3>3 DEF SettledBy, Frames
    <3>5. ~(p[2] <= SettledBy(calls[p[1]]))
      BY <3>1, <3>3, <3>4
    <3> QED BY <3>1, <3>2, <3>3, <3>5, <2>1 DEF TakenOK
  <2>4. ASSUME NEW p \in QueuedAt(t), NEW q \in InFlightAt(t)
        PROVE  FALSE
    BY <2>2, <2>3 DEF PlacesInv, TakenOnce
  <2>5. CASE Settled(t)
    BY <2>2, <2>3, <2>5
  <2>6. CASE ~Settled(t) /\ IsQueued(t)
    <3>1. PICK l \in Loaders : \E i \in 1 .. Len(queue[l]) : queue[l][i] = t
      BY <2>6 DEF IsQueued
    <3>2. PICK i \in 1 .. Len(queue[l]) : queue[l][i] = t
      BY <3>1
    <3>3. load[t].loader = l
      BY <3>2, <2>1 DEF QueueOK
    <3>4. i \in Tickets /\ i <= Len(queue[l])
      <4>1. Len(queue[l]) \in Nat /\ Len(queue[l]) <= made
        BY <2>1, HeldFacts DEF QueueOK
      <4> QED BY <4>1, <2>1, ConstantFacts
    <3>5. <<l, i>> \in QueuedAt(t)
      BY <3>2, <3>4 DEF QueuedAt
    <3>6. ASSUME NEW p \in QueuedAt(t) PROVE p = <<l, i>>
      <4>1. p[1] = l /\ p[2] \in 1 .. Len(queue[l]) /\ queue[l][p[2]] = t /\ p = <<p[1], p[2]>>
        BY <2>2, <3>3
      <4>2. p[2] = i
        BY <4>1, <3>2, <2>1 DEF QueueOK
      <4> QED BY <4>1, <4>2
    <3>7. QueuedAt(t) = {<<load[t].loader, i>>}
      BY <3>3, <3>5, <3>6
    <3>8. InFlightAt(t) = {}
      BY <3>5, <2>4
    <3> QED BY <2>6, <3>4, <3>7, <3>8
  <2>7. CASE ~Settled(t) /\ IsTaken(t)
    <3>1. PICK c \in 1 .. Len(calls) : \E i \in 1 .. Len(calls[c].taken) : calls[c].taken[i] = t
      BY <2>7 DEF IsTaken
    <3>2. PICK i \in 1 .. Len(calls[c].taken) : calls[c].taken[i] = t
      BY <3>1
    <3>3. calls[c].loader = load[t].loader /\ ~(i <= SettledBy(calls[c]))
      BY <3>2, <2>1, <2>7 DEF TakenOK
    <3>4. i \in Tickets /\ i <= Len(calls[c].taken)
      <4>1. Len(calls[c].taken) \in Nat /\ Len(calls[c].taken) <= made
        BY <2>1, HeldFacts DEF TakenOK
      <4> QED BY <4>1, <2>1, ConstantFacts
    <3>5. SettledBy(calls[c]) < i
      <4>1. SettledBy(calls[c]) \in Nat
        BY HeldFacts DEF SettledBy, Frames
      <4> QED BY <4>1, <3>3, <3>4, ConstantFacts
    <3>6. <<c, i>> \in InFlightAt(t)
      BY <3>2, <3>4, <3>5 DEF InFlightAt
    <3>7. ASSUME NEW p \in InFlightAt(t) PROVE p = <<c, i>>
      <4>1. /\ p[1] \in 1 .. Len(calls) /\ p[2] \in 1 .. Len(calls[p[1]].taken)
            /\ calls[p[1]].taken[p[2]] = t /\ p = <<p[1], p[2]>>
        BY <2>3
      <4>2. p[1] = c
        BY <4>1, <3>2 DEF PlacesInv, TakenOnce
      <4>3. p[2] = i
        BY <4>1, <4>2, <3>2, <2>1 DEF TakenOK
      <4> QED BY <4>1, <4>2, <4>3
    <3>8. InFlightAt(t) = {<<c, i>>} /\ <<c, i>> \in (1 .. Len(calls)) \X Tickets
      BY <3>4, <3>6, <3>7
    <3>9. QueuedAt(t) = {}
      BY <3>6, <2>4
    <3>10. <<c, i>>[1] = c
      OBVIOUS
    <3> QED BY <2>7, <3>3, <3>8, <3>9, <3>10
  <2> QED BY <2>5, <2>6, <2>7 DEF PlacesInv, PendingIsPlaced
<1> QED BY <1>1, PlacesHold, PTL

\* A new ticket holds what it was made with, and the others what they held.
LEMMA NewTicketHolds ==
  ASSUME ShapeInv, NEW l \in Loaders, NEW k \in LoadKeys,
         NEW st \in {"pending", "resolved", "rejected"}, NEW v \in Values,
         NewTicket(l, k, st, v)
  PROVE  /\ status'[made'] = st /\ value'[made'] = v
         /\ \A u \in Tickets : u # made' => /\ load'[u] = load[u]
                                            /\ status'[u] = status[u]
                                            /\ value'[u] = value[u]
<1>1. TypeOK
  BY DEF ShapeInv
<1>2. made' = made + 1 /\ made' \in Tickets
  BY <1>1, ConstantFacts DEF NewTicket, TypeOK
<1>3. \A u \in Tickets : u # made' => load'[u] = load[u]
  BY <1>1, <1>2 DEF NewTicket, TypeOK
<1>4. /\ status'[made'] = st /\ value'[made'] = v
      /\ \A u \in Tickets : u # made' => status'[u] = status[u] /\ value'[u] = value[u]
  BY <1>1, <1>2 DEF NewTicket, TypeOK
<1> QED BY <1>3, <1>4

\* The only steps that change what tickets hold: a new ticket, pending or
\* primed, and the settling of the current entry.
LEMMA TicketSteps ==
  ASSUME ShapeInv, [Next]_vars
  PROVE  \/ UNCHANGED <<made, load, status, value>>
         \/ \E l \in Loaders, k \in LoadKeys :
              NewTicket(l, k, "pending", None) \/ NewTicket(l, k, "resolved", Primed)
         \/ SettleTicket
<1>1. CASE UNCHANGED vars
  BY <1>1 DEF vars
<1>2. ASSUME NEW l \in Loaders, NEW k \in LoadKeys, Load(l, k) \/ Prime(l, k)
      PROVE  NewTicket(l, k, "pending", None) \/ NewTicket(l, k, "resolved", Primed)
  BY <1>2 DEF Load, Prime, EnqueueLoadMiss
<1>3. ASSUME NEW l \in Loaders,
             \/ ClearAll(l) \/ Dispatch(l)
             \/ \E k \in LoadKeys : Clear(l, k)
             \/ \E keys \in ManyKeys : LoadMany(l, keys)
      PROVE  UNCHANGED <<made, load, status, value>>
  BY <1>3 DEF ClearAll, Dispatch, Clear, LoadMany, tickets
<1>4. CASE LoadManyNext
  <2> DEFINE c == Len(many)
             l == many[c].loader
             k == many[c].keys[many[c].at + 1]
  <2>1. UNCHANGED <<tickets, queue>> \/ EnqueueLoadMiss(l, k)
    BY <1>4 DEF LoadManyNext
  <2>2. l \in Loaders /\ k \in LoadKeys
    BY <1>4, LoopFacts DEF ShapeInv, LoadManyNext
  <2> QED BY <2>1, <2>2 DEF EnqueueLoadMiss, tickets
<1>5. CASE \/ CallBatch \/ NotifySubscriber \/ NextEntry \/ DispatchReturns
           \/ \E reply \in {"values", "dies"} : BatchReturns(reply)
  BY <1>5 DEF CallBatch, NotifySubscriber, NextEntry, DispatchReturns, BatchReturns, tickets
<1>6. CASE OnStall \/ HookStep
  BY <1>6 DEF OnStall, HookStep, StallDispatch, StallNextRound, StallReturns, tickets
<1> QED BY <1>1, <1>2, <1>3, <1>4, <1>5, <1>6 DEF Next, UserStep, DispatchStep

\* No step changes what a settled ticket holds.
LEMMA SettledKept ==
  ASSUME ShapeInv, [Next]_vars, NEW t \in Tickets, Exists(t), Settled(t)
  PROVE  status'[t] = status[t] /\ value'[t] = value[t]
<1>1. CASE UNCHANGED <<made, load, status, value>>
  BY <1>1
<1>2. ASSUME NEW l \in Loaders, NEW k \in LoadKeys,
             NEW st \in {"pending", "resolved", "rejected"}, NEW v \in Values,
             NewTicket(l, k, st, v)
      PROVE  status'[t] = status[t] /\ value'[t] = value[t]
  <2>1. made' = made + 1 /\ made \in Nat
    BY <1>2, HeldFacts DEF NewTicket
  <2>2. \A u \in Tickets : u # made' => status'[u] = status[u] /\ value'[u] = value[u]
    BY <1>2, NewTicketHolds
  <2>3. t # made'
    BY <2>1, ConstantFacts DEF Exists
  <2> QED BY <2>2, <2>3
<1>3. CASE SettleTicket
  <2> DEFINE u == CurrentTicket(calls[1])
  <2>1. /\ \A x \in Tickets : x # u => status'[x] = status[x] /\ value'[x] = value[x]
        /\ Settled(u) => UNCHANGED <<status, value, subscribers>>
    BY <1>3, SettleEffect
  <2> HIDE DEF u
  <2> QED BY <2>1
<1>4. None \in Values /\ Primed \in Values
  BY DEF Values
<1> QED BY <1>1, <1>2, <1>3, <1>4, TicketSteps

\* A ticket settles once: no later step changes what a settled ticket holds,
\* whoever reaches it again.
THEOREM SettledTicketsAreFinal == Spec => SettledIsFinal
<1>1. ShapeInv /\ [Next]_vars =>
        \A t \in Tickets : Exists(t) /\ Settled(t) =>
          status'[t] = status[t] /\ value'[t] = value[t]
  BY SettledKept
<1> QED BY <1>1, ShapeHolds, PTL DEF Spec, SettledIsFinal

-----------------------------------------------------------------------------
(* Pairs is invariant *)

\* A step leaves the keys of the tickets that were taken alone.
LEMMA TakenKeysKept ==
  ASSUME ShapeInv, [Next]_vars, NEW c \in 1 .. Len(calls),
         NEW i \in 1 .. Len(calls[c].taken)
  PROVE  load'[calls[c].taken[i]] = load[calls[c].taken[i]]
<1>0. /\ calls[c].taken[i] \in Tickets /\ Exists(calls[c].taken[i])
      /\ made \in Nat
  BY HeldFacts DEF ShapeInv, TakenExist
<1> SUFFICES ASSUME NEW t \in Tickets, Exists(t)
             PROVE  load'[t] = load[t]
  BY <1>0
<1>2. CASE UNCHANGED <<made, load, status, value>>
  BY <1>2
<1>3. ASSUME NEW l \in Loaders, NEW k \in LoadKeys,
             NEW st \in {"pending", "resolved", "rejected"}, NEW v \in Values,
             NewTicket(l, k, st, v)
      PROVE  load'[t] = load[t]
  <2>1. made' = made + 1 /\ \A u \in Tickets : u # made' => load'[u] = load[u]
    BY <1>3, NewTicketHolds DEF NewTicket
  <2> QED BY <1>0, <2>1, ConstantFacts DEF Exists
<1>4. CASE SettleTicket
  BY <1>4 DEF SettleTicket
<1>5. None \in Values /\ Primed \in Values
  BY DEF Values
<1>6. CASE \E l \in Loaders, k \in LoadKeys :
             NewTicket(l, k, "pending", None) \/ NewTicket(l, k, "resolved", Primed)
  BY <1>3, <1>5, <1>6
<1> QED BY <1>2, <1>4, <1>6, TicketSteps

\* The pairing survives a step that does not move dispatch c, wherever on the
\* stack the step leaves it.
LEMMA PairedKept ==
  ASSUME ShapeInv, [Next]_vars, NEW c \in 1 .. Len(calls), PairedOK(calls[c]),
         NEW d, calls'[d] = calls[c]
  PROVE  PairedOK(calls[d])'
<1> DEFINE f == calls[c]
<1>1. f \in Frames /\ FrameOK(f)
  BY DEF ShapeInv, TypeOK, FramesOK
<1>2. f.offset \in Nat /\ f.size \in Nat /\ Len(f.taken) \in Nat
  BY <1>1 DEF Frames
<1>3. ASSUME NEW i \in 1 .. f.size
      PROVE  load'[f.taken[f.offset + i]] = load[f.taken[f.offset + i]]
  <2>1. f.offset + i \in 1 .. Len(f.taken)
    BY <1>1, <1>2 DEF FrameOK
  <2> QED BY <2>1, TakenKeysKept
<1> QED BY <1>3 DEF PairedOK, KeyAt

\* A step that moves only the innermost dispatch keeps the pairing of the others.
LEMMA PairsSetTop ==
  ASSUME ShapeInv, PairsInv, [Next]_vars, calls # <<>>, NEW g \in Frames, SetTop(g),
         load' = load, PairedOK(g)
  PROVE  PairsInv'
<1>1. /\ Len(calls') = Len(calls) /\ calls'[1] = g
      /\ \A c \in 1 .. Len(calls) : c # 1 => calls'[c] = calls[c]
  BY SetTopFacts DEF ShapeInv
<1>2. ASSUME NEW c \in 1 .. Len(calls')
      PROVE  PairedOK(calls[c])'
  <2>1. CASE c = 1
    BY <1>1, <2>1 DEF PairedOK, KeyAt
  <2>2. CASE c # 1
    <3>1. c \in 1 .. Len(calls) /\ calls'[c] = calls[c] /\ PairedOK(calls[c])
      BY <1>1, <2>2 DEF PairsInv
    <3> QED BY <3>1, PairedKept
  <2> QED BY <2>1, <2>2
<1> QED BY <1>2 DEF PairsInv

\* So does a step that leaves the stack as it is, and a dispatch that starts.
LEMMA PairsIdle ==
  ASSUME ShapeInv, PairsInv, [Next]_vars, calls' = calls
  PROVE  PairsInv'
<1>1. ASSUME NEW c \in 1 .. Len(calls)
      PROVE  PairedOK(calls[c])'
  <2>1. PairedOK(calls[c]) /\ calls'[c] = calls[c]
    BY DEF PairsInv
  <2> QED BY <2>1, PairedKept
<1> QED BY <1>1 DEF PairsInv

LEMMA PairsPush ==
  ASSUME ShapeInv, PairsInv, [Next]_vars, NEW l \in Loaders, TakeQueue(l)
  PROVE  PairsInv'
<1> DEFINE f == NewCall(l)
<1>1. calls' = <<f>> \o calls /\ queue[l] # <<>>
  BY DEF TakeQueue
<1>2. f \in Frames /\ f.phase = "chunk"
  BY <1>1, NewCallShape DEF ShapeInv, NewCall
<1> HIDE DEF f
<1>3. /\ calls'[1] = f
      /\ \A c \in 1 .. Len(calls') :
           c # 1 => c - 1 \in 1 .. Len(calls) /\ calls'[c] = calls[c - 1]
  BY <1>1, <1>2, PushFacts DEF ShapeInv
<1>4. ASSUME NEW c \in 1 .. Len(calls')
      PROVE  PairedOK(calls[c])'
  <2>1. CASE c = 1
    BY <1>2, <1>3, <2>1 DEF PairedOK
  <2>2. CASE c # 1
    <3>1. c - 1 \in 1 .. Len(calls) /\ calls'[c] = calls[c - 1] /\ PairedOK(calls[c - 1])
      BY <1>3, <2>2 DEF PairsInv
    <3> QED BY <3>1, PairedKept
  <2> QED BY <2>1, <2>2
<1> QED BY <1>4 DEF PairsInv

\* The pairing is inductive: the keys are paired when the chunk is cut, the
\* values when the batch function answers, and no step in between moves either.
LEMMA PairsStep == ShapeInv /\ PairsInv /\ [Next]_vars => PairsInv'
<1> SUFFICES ASSUME ShapeInv, PairsInv, [Next]_vars PROVE PairsInv'
  OBVIOUS
<1> DEFINE f == calls[1]
<1>1. CASE CallBatch
  <2> DEFINE n == ChunkSize(f.loader, Len(f.taken) - f.offset)
             g == Batching(f, n)
  <2>1. TypeOK /\ TakenExist /\ calls # <<>> /\ f = Head(calls) /\ f \in Frames
    BY <1>1, TopShape DEF ShapeInv, CallBatch, DispatchRuns
  <2>2. f.offset < Len(f.taken) /\ SetTop(g) /\ load' = load
    BY <1>1, <2>1 DEF CallBatch, tickets
  <2>3. f.loader \in Loaders /\ f.offset \in Nat /\ Len(f.taken) \in Nat
    BY <2>1 DEF Frames
  <2>4. n \in 1 .. (Len(f.taken) - f.offset)
    <3>1. Len(f.taken) - f.offset \in Nat /\ Len(f.taken) - f.offset > 0
      BY <2>2, <2>3
    <3> QED BY <2>3, <3>1, ChunkFacts
  <2> HIDE DEF n
  <2>5. /\ ChunkKeys(f, n) \in Seq(LoadKeys) /\ n \in Nat
        /\ \A i \in 1 .. n : ChunkKeys(f, n)[i] = load[f.taken[f.offset + i]].key
    BY <2>1, <2>3, <2>4, ChunkKeysFacts
  <2>6. g \in Frames
    BY <2>1, <2>5, FrameTypes
  <2>7. PairedOK(g)
    BY <2>5 DEF PairedOK, KeyAt, Batching
  <2> HIDE DEF g
  <2> QED BY <2>1, <2>2, <2>6, <2>7, PairsSetTop
<1>2. ASSUME NEW reply \in {"values", "dies"}, BatchReturns(reply)
      PROVE  PairsInv'
  <2>1. PICK values \in Seq(LoadKeys \cup Errors) :
          /\ SetTop(Replied(f, reply, values))
          /\ reply = "values" =>
               \A i \in 1 .. f.size : values[i] = f.keys[i] \/ values[i] = ErrorOf(f.keys[i])
    BY <1>2, BatchReturnsFacts
  <2> DEFINE g == Replied(f, reply, values)
  <2>2. calls # <<>> /\ f \in Frames /\ f.phase = "batch" /\ load' = load
    BY <1>2, BatchReturnsFacts DEF tickets
  <2>3. g \in Frames
    BY <2>2, FrameTypes
  <2>4. PairedOK(f)
    BY <2>2, TopShape DEF PairsInv
  <2>5. PairedOK(g)
    BY <2>1, <2>2, <2>4 DEF PairedOK, KeyAt, Replied
  <2>6. SetTop(g)
    BY <2>1
  <2> HIDE DEF g
  <2> QED BY <2>2, <2>3, <2>5, <2>6, PairsSetTop
<1>3. CASE SettleTicket
  <2> DEFINE w == IF Settled(CurrentTicket(f)) THEN <<>> ELSE subscribers[CurrentTicket(f)]
             g == Notifying(f, w)
  <2>1. calls # <<>> /\ f.phase = "settle" /\ SetTop(g) /\ g \in Frames
    BY <1>3, SettleFacts
  <2>2. PairedOK(f) /\ load' = load
    BY <1>3, <2>1, TopShape DEF PairsInv, SettleTicket
  <2>3. PairedOK(g)
    BY <2>1, <2>2 DEF PairedOK, KeyAt, Notifying
  <2> HIDE DEF g
  <2> QED BY <2>1, <2>2, <2>3, PairsSetTop
<1>4. CASE NotifySubscriber
  <2> DEFINE g == Notifying(f, Tail(f.waiting))
  <2>1. /\ calls # <<>> /\ f.phase = "notify" /\ SetTop(g) /\ g \in Frames /\ load' = load
    BY <1>4, NotifyFacts DEF tickets
  <2>2. PairedOK(f)
    BY <2>1, TopShape DEF PairsInv
  <2>3. PairedOK(g)
    BY <2>1, <2>2 DEF PairedOK, KeyAt, Notifying
  <2> HIDE DEF g
  <2> QED BY <2>1, <2>3, PairsSetTop
<1>5. CASE NextEntry
  <2> DEFINE g == IF f.at + 1 < f.size THEN AtNextEntry(f) ELSE AtNextChunk(f)
  <2>1. calls # <<>>
    BY <1>5 DEF NextEntry, DispatchRuns
  <2>2. f = Head(calls) /\ f \in Frames /\ PairedOK(f)
    BY <2>1, TopShape DEF PairsInv
  <2>3. f.phase = "notify" /\ SetTop(g) /\ load' = load
    BY <1>5, <2>2 DEF NextEntry, tickets
  <2>4. g \in Frames
    BY <2>2, FrameTypes
  <2>5. PairedOK(g)
    BY <2>2, <2>3 DEF PairedOK, KeyAt, AtNextEntry, AtNextChunk
  <2> HIDE DEF g
  <2> QED BY <2>1, <2>3, <2>4, <2>5, PairsSetTop
<1>6. CASE DispatchReturns
  <2>1. \A c \in 1 .. Len(calls') : c + 1 \in 1 .. Len(calls) /\ calls'[c] = calls[c + 1]
    BY <1>6, ReturnFacts, PopFacts DEF ShapeInv
  <2>2. ASSUME NEW c \in 1 .. Len(calls')
        PROVE  PairedOK(calls[c])'
    <3>1. c + 1 \in 1 .. Len(calls) /\ calls'[c] = calls[c + 1] /\ PairedOK(calls[c + 1])
      BY <2>1 DEF PairsInv
    <3> QED BY <3>1, PairedKept
  <2> QED BY <2>2 DEF PairsInv
<1>7. CASE LoadManyNext \/ OnStall \/ StallNextRound \/ StallReturns \/ UNCHANGED vars
  BY <1>7, PairsIdle DEF LoadManyNext, OnStall, StallNextRound, StallReturns, vars
<1>8. CASE StallDispatch
  <2>1. calls' = calls \/ \E l \in Loaders : TakeQueue(l)
    BY <1>8 DEF StallDispatch
  <2> QED BY <2>1, PairsIdle, PairsPush
<1>9. ASSUME NEW l \in Loaders,
             \/ ClearAll(l) \/ Dispatch(l)
             \/ \E k \in LoadKeys : Load(l, k) \/ Prime(l, k) \/ Clear(l, k)
             \/ \E keys \in ManyKeys : LoadMany(l, keys)
      PROVE  PairsInv'
  <2>1. calls' = calls \/ TakeQueue(l)
    BY <1>9 DEF ClearAll, Dispatch, Load, Prime, Clear, LoadMany
  <2> QED BY <2>1, PairsIdle, PairsPush
<1> QED
  BY <1>1, <1>2, <1>3, <1>4, <1>5, <1>6, <1>7, <1>8, <1>9
  DEF Next, UserStep, DispatchStep, HookStep

\* In every reachable state keys and values stand at their tickets' positions.
LEMMA PairsHold == Spec => [](ShapeInv /\ PairsInv)
<1>1. Init => ShapeInv /\ PairsInv
  <2> SUFFICES ASSUME Init PROVE PairsInv
    BY ShapeInit
  <2>1. Len(calls) = 0
    BY EmptySeq DEF Init
  <2> QED BY <2>1 DEF PairsInv
<1>2. ShapeInv /\ PairsInv /\ [Next]_vars => (ShapeInv /\ PairsInv)'
  BY ShapeStep, PairsStep
<1> QED BY <1>1, <1>2, PTL DEF Spec

\* What the entry at the current position holds belongs to the current ticket.
LEMMA CurrentPair ==
  ASSUME ShapeInv, PairsInv, SettleTicket
  PROVE  LET f == calls[1]
             k == load[CurrentTicket(f)].key
         IN  /\ k \in LoadKeys
             /\ f.reply = "dies" \/ CurrentValue(f) = k \/ CurrentValue(f) = ErrorOf(k)
<1> DEFINE f == calls[1]
           t == CurrentTicket(f)
<1>1. /\ calls # <<>> /\ f \in Frames /\ f.phase = "settle" /\ f.at < f.size
      /\ f.offset + f.at + 1 \in 1 .. Len(f.taken)
      /\ t \in Tickets /\ t = f.taken[f.offset + f.at + 1] /\ 1 \in 1 .. Len(calls)
  BY SettleFacts, TopShape
<1>2. Exists(t)
  BY <1>1 DEF ShapeInv, TakenExist
<1>3. load[t].key \in LoadKeys
  BY <1>1, <1>2 DEF ShapeInv, TypeOK, Loads
<1>4. f.at \in Nat /\ f.size \in Nat /\ f.offset \in Nat /\ f.reply \in {"values", "dies"}
  BY <1>1 DEF Frames
<1>5. f.at + 1 \in 1 .. f.size /\ f.offset + (f.at + 1) = f.offset + f.at + 1
  BY <1>1, <1>4
<1>6. PairedOK(f)
  BY <1>1 DEF PairsInv
<1>7. f.reply = "values" => f.values[f.at + 1] \in {KeyAt(f, f.at + 1), ErrorOf(KeyAt(f, f.at + 1))}
  BY <1>1, <1>5, <1>6 DEF PairedOK
<1>8. KeyAt(f, f.at + 1) = load[t].key
  BY <1>1, <1>5 DEF KeyAt
<1> QED BY <1>3, <1>4, <1>7, <1>8 DEF CurrentValue

\* Keys and values are paired by their position in the chunk, which nothing
\* but the arithmetic of the loop ties to the tickets: in every reachable state
\* a settled ticket holds the value or the Error of its own key, the value it
\* was primed with, or the reason of a batch function that died.
THEOREM TicketsHoldTheirKeys == Spec => []TicketHoldsItsOwnKey
<1>1. Init => TicketHoldsItsOwnKey
  BY DEF Init, TicketHoldsItsOwnKey
<1>2. ShapeInv /\ PairsInv /\ TicketHoldsItsOwnKey /\ [Next]_vars => TicketHoldsItsOwnKey'
  <2> SUFFICES ASSUME ShapeInv, PairsInv, TicketHoldsItsOwnKey, [Next]_vars, NEW t \in Tickets
               PROVE  /\ status'[t] = "resolved" => value'[t] \in {load'[t].key, Primed}
                      /\ status'[t] = "rejected" =>
                           value'[t] \in {ErrorOf(load'[t].key), Failed}
    BY DEF TicketHoldsItsOwnKey
  <2>1. CASE UNCHANGED <<made, load, status, value>>
    BY <2>1 DEF TicketHoldsItsOwnKey
  <2>2. ASSUME NEW l \in Loaders, NEW k \in LoadKeys,
               NEW st \in {"pending", "resolved"}, NEW v \in Values,
               NewTicket(l, k, st, v), st = "resolved" => v = Primed
        PROVE  /\ status'[t] = "resolved" => value'[t] \in {load'[t].key, Primed}
               /\ status'[t] = "rejected" => value'[t] \in {ErrorOf(load'[t].key), Failed}
    <3>1. /\ status'[made'] = st /\ value'[made'] = v
          /\ \A u \in Tickets : u # made' => /\ load'[u] = load[u]
                                             /\ status'[u] = status[u]
                                             /\ value'[u] = value[u]
      BY <2>2, NewTicketHolds
    <3> QED BY <3>1, <2>2 DEF TicketHoldsItsOwnKey
  <2>3. CASE SettleTicket
    <3> DEFINE u == CurrentTicket(calls[1])
               k == load[u].key
    <3>1. /\ load' = load
          /\ \A x \in Tickets : x # u => status'[x] = status[x] /\ value'[x] = value[x]
          /\ Settled(u) => status' = status /\ value' = value
          /\ ~Settled(u) =>
               /\ status'[u] = IF Rejects(calls[1]) THEN "rejected" ELSE "resolved"
               /\ value'[u] = IF calls[1].reply = "dies" THEN Failed
                                                       ELSE CurrentValue(calls[1])
      BY <2>3, SettleEffect
    <3>2. /\ k \in LoadKeys
          /\ calls[1].reply = "dies" \/ CurrentValue(calls[1]) = k
               \/ CurrentValue(calls[1]) = ErrorOf(k)
      BY <2>3, CurrentPair
    <3>3. k \notin Errors /\ ErrorOf(k) \in Errors
      BY <3>2, ConstantFacts
    <3> HIDE DEF u
    <3>4. CASE t # u \/ Settled(u)
      BY <3>1, <3>4 DEF TicketHoldsItsOwnKey
    <3>5. CASE t = u /\ ~Settled(u)
      BY <3>1, <3>2, <3>3, <3>5 DEF Rejects
    <3> QED BY <3>4, <3>5
  <2>4. None \in Values /\ Primed \in Values
    BY DEF Values
  <2> QED BY <2>1, <2>2, <2>3, <2>4, TicketSteps
<1> QED BY <1>1, <1>2, PairsHold, PTL DEF Spec

-----------------------------------------------------------------------------
(* The hook *)

\* A step that leaves the hooks alone while none runs lets none run, unless it
\* pops a dispatch.
LEMMA HookSleeps ==
  ASSUME ShapeInv, ~HookRuns, hooks' = hooks,
         Len(calls') = Len(calls) \/ Len(calls') = Len(calls) + 1
  PROVE  ~HookRuns'
<1> SUFFICES ASSUME hooks # <<>>, Head(hooks).depth = Len(calls')
             PROVE  FALSE
  BY DEF HookRuns
<1>1. /\ Head(hooks) = hooks[1] /\ 1 \in 1 .. Len(hooks) /\ hooks[1].depth \in Nat
      /\ Len(calls) \in Nat /\ hooks[1].depth <= Len(calls)
  BY HookFacts, HookDepths DEF ShapeInv, HooksOK
<1> QED BY <1>1 DEF HookRuns

\* A pass that has dispatched nothing leaves drained loaders behind it, also
\* when the hook was called from within a dispatch.
LEMMA PassedStep ==
  ShapeInv /\ PassedAreDrained /\ [Next]_vars => PassedAreDrained'
<1> SUFFICES ASSUME ShapeInv, PassedAreDrained, [Next]_vars, HookRuns'
             PROVE  /\ ~LoadManyRuns'
                    /\ Head(hooks').round = 0 =>
                         \A l \in Loaders : l < Head(hooks').loader => queue'[l] = <<>>
  BY DEF PassedAreDrained
<1>1. TypeOK /\ Len(calls) \in Nat
  BY DEF ShapeInv, TypeOK
<1>2. \A l \in Loaders : l \in Nat /\ l >= 1
  BY ConstantFacts
<1>3. CASE UNCHANGED vars
  BY <1>3 DEF vars, PassedAreDrained, LoadManyRuns, HookRuns
<1>4. ASSUME NEW l \in Loaders,
             \/ ClearAll(l) \/ Dispatch(l)
             \/ \E k \in LoadKeys : Load(l, k) \/ Prime(l, k) \/ Clear(l, k)
             \/ \E keys \in ManyKeys : LoadMany(l, keys)
      PROVE  FALSE
  <2>1. UserCodeRuns /\ hooks' = hooks /\ (calls' = calls \/ TakeQueue(l))
    BY <1>4 DEF Load, Prime, Clear, ClearAll, LoadMany, Dispatch
  <2>2. TakeQueue(l) => Len(calls') = Len(calls) + 1
    <3> SUFFICES ASSUME TakeQueue(l) PROVE Len(calls') = Len(calls) + 1
      OBVIOUS
    <3>1. NewCall(l) \in Frames /\ calls' = <<NewCall(l)>> \o calls
      BY <1>1, NewCallShape DEF TakeQueue
    <3> QED BY <1>1, <3>1, PushFacts
  <2> QED BY <2>1, <2>2, HookSleeps DEF UserCodeRuns
<1>5. CASE LoadManyNext
  <2>1. ~HookRuns /\ hooks' = hooks /\ calls' = calls
    BY <1>5 DEF LoadManyNext, PassedAreDrained
  <2> QED BY <2>1, HookSleeps
<1>6. CASE \/ CallBatch \/ NextEntry \/ NotifySubscriber \/ SettleTicket
           \/ \E reply \in {"values", "dies"} : BatchReturns(reply)
  <2>1. ~HookRuns /\ hooks' = hooks /\ calls # <<>> /\ \E f : calls' = [calls EXCEPT ![1] = f]
    BY <1>6 DEF CallBatch, NextEntry, NotifySubscriber, BatchReturns, SettleTicket,
                DispatchRuns, SetTop
  <2>2. calls \in Seq(Frames)
    BY <1>1 DEF TypeOK
  <2>3. Len(calls') = Len(calls)
    BY <2>1, <2>2
  <2> QED BY <2>1, <2>3, HookSleeps
<1>7. CASE DispatchReturns
  <2> DEFINE f == calls[1]
  <2>1. /\ calls # <<>> /\ f \in Frames /\ FrameOK(f) /\ Len(f.taken) \in Nat
        /\ calls' = Tail(calls) /\ ~LoadManyRuns
        /\ \/ hooks # <<>> /\ SetHook(Passed(hooks[1], Len(f.taken)))
           \/ hooks' = hooks /\ (hooks # <<>> => hooks[1].depth # Len(calls) - 1)
        /\ many' = many
    BY <1>7, ReturnFacts
  <2>2. ~LoadManyRuns'
    BY <2>1 DEF LoadManyRuns
  <2>3. Len(calls') = Len(calls) - 1
    BY <1>1, <2>1, PopFacts
  <2>4. hooks # <<>> /\ SetHook(Passed(hooks[1], Len(f.taken)))
    <3> SUFFICES ASSUME hooks' = hooks, hooks # <<>> => hooks[1].depth # Len(calls) - 1
                 PROVE  FALSE
      BY <2>1
    <3>1. hooks # <<>> /\ Head(hooks).depth = Len(calls) - 1
      BY <2>3 DEF HookRuns
    <3> QED BY <1>1, <3>1, HookFacts
  <2>5. Len(f.taken) > 0
    <3>1. f.taken \in Seq(Tickets) /\ f.taken # <<>>
      BY <2>1 DEF FrameOK, Frames
    <3> QED BY <3>1, EmptySeq
  <2>6. Head(hooks').round # 0
    <3>1. /\ hooks[1] \in Hooks /\ Passed(hooks[1], Len(f.taken)) \in Hooks
          /\ Passed(hooks[1], Len(f.taken)).round = hooks[1].round + Len(f.taken)
      BY <1>1, <2>1, <2>4, HookFacts
    <3>2. /\ hooks' \in Seq(Hooks) /\ hooks' # <<>>
          /\ hooks'[1] = Passed(hooks[1], Len(f.taken))
      BY <1>1, <2>4, <3>1, HookFacts
    <3>3. Head(hooks') = hooks'[1] /\ hooks[1].round \in Nat
      BY <3>1, <3>2 DEF Hooks
    <3> QED BY <2>1, <2>5, <3>1, <3>2, <3>3
  <2> QED BY <2>2, <2>6
<1>8. CASE OnStall
  <2> DEFINE h == [depth |-> Len(calls), loader |-> 1, round |-> 0]
  <2>1. ~LoadManyRuns' /\ hooks' = <<h>> \o hooks
    BY <1>8 DEF OnStall, UserCodeRuns, LoadManyRuns
  <2>2. h \in Hooks /\ h.loader = 1 /\ hooks \in Seq(Hooks)
    BY <1>1 DEF Hooks, TypeOK
  <2> HIDE DEF h
  <2>3. Head(hooks') = h
    <3>1. /\ <<h>> \in Seq(Hooks) /\ Len(<<h>>) = 1 /\ <<h>>[1] = h
      BY <2>2
    <3>2. hooks' \in Seq(Hooks) /\ Len(hooks') = 1 + Len(hooks) /\ hooks'[1] = h
      BY <2>1, <2>2, <3>1, ConcatProperties
    <3> QED BY <2>2, <3>2
  <2> QED BY <1>2, <2>1, <2>2, <2>3
<1>9. CASE StallNextRound
  <2> DEFINE h == [depth |-> Head(hooks).depth, loader |-> 1, round |-> 0]
  <2>1. ~LoadManyRuns' /\ SetHook(h) /\ hooks # <<>>
    BY <1>9 DEF StallNextRound, LoadManyRuns, PassedAreDrained, HookRuns
  <2>2. h \in Hooks /\ h.loader = 1
    BY <1>1, <2>1, HookFacts DEF Hooks
  <2> HIDE DEF h
  <2>3. Head(hooks') = h
    BY <1>1, <2>1, <2>2, HookFacts
  <2> QED BY <1>2, <2>1, <2>2, <2>3
<1>10. CASE StallReturns
  <2>1. /\ hooks # <<>> /\ Head(hooks).depth = Len(calls) /\ hooks' = Tail(hooks)
        /\ calls' = calls
    BY <1>10 DEF StallReturns, HookRuns
  <2>2. hooks' # <<>> /\ Head(hooks').depth = Len(calls)
    BY <2>1 DEF HookRuns
  <2>3. /\ Head(hooks) = hooks[1] /\ hooks' \in Seq(Hooks)
        /\ \A g \in 1 .. Len(hooks') :
             g + 1 \in 1 .. Len(hooks) /\ hooks'[g] = hooks[g + 1]
        /\ 1 \in 1 .. Len(hooks)
    BY <1>1, <2>1, HookFacts
  <2>4. Head(hooks') = hooks[2] /\ 2 \in 1 .. Len(hooks)
    BY <2>2, <2>3
  <2>5. hooks[2].depth < hooks[1].depth
    BY <2>3, <2>4 DEF ShapeInv, HooksOK
  <2>6. hooks[1].depth = hooks[2].depth
    BY <2>1, <2>2, <2>3, <2>4
  <2> QED BY <1>1, <2>3, <2>4, <2>5, <2>6, HookDepths
<1>11. CASE StallDispatch
  <2> DEFINE h == hooks[1]
  <2>1. /\ HookRuns /\ hooks # <<>> /\ h = Head(hooks) /\ h \in Hooks
        /\ h.loader \in Loaders /\ UNCHANGED <<tickets, subscribers, many>>
    BY <1>1, <1>11, HookFacts DEF StallDispatch, HookRuns
  <2>2. queue[h.loader] = <<>>
    <3> SUFFICES ASSUME queue[h.loader] # <<>> PROVE FALSE
      OBVIOUS
    <3>1. calls' = <<NewCall(h.loader)>> \o calls /\ hooks' = hooks
      BY <1>11, <2>1 DEF StallDispatch, TakeQueue
    <3>2. NewCall(h.loader) \in Frames
      BY <1>1, <2>1, NewCallShape
    <3>3. Len(calls') = Len(calls) + 1
      BY <1>1, <3>1, <3>2, PushFacts
    <3>4. Len(calls) = Len(calls')
      BY <2>1, <3>1 DEF HookRuns
    <3> QED BY <1>1, <3>3, <3>4
  <2>3. /\ SetHook(Passed(h, 0)) /\ queue' = queue
    BY <1>11, <2>1, <2>2 DEF StallDispatch
  <2>4. /\ Head(hooks').loader = h.loader + 1 /\ Head(hooks').round = h.round + 0
        /\ h.loader \in Nat /\ h.round \in Nat
    <3>1. /\ Passed(h, 0) \in Hooks /\ Passed(h, 0).loader = h.loader + 1
          /\ Passed(h, 0).round = h.round + 0
      BY <1>1, <2>1, HookFacts
    <3>2. hooks' \in Seq(Hooks) /\ hooks' # <<>> /\ hooks'[1] = Passed(h, 0)
      BY <1>1, <2>1, <2>3, <3>1, HookFacts
    <3>3. Head(hooks') = Passed(h, 0)
      BY <3>2
    <3> QED BY <2>1, <3>1, <3>3 DEF Hooks
  <2>5. ~LoadManyRuns'
    BY <2>1 DEF PassedAreDrained, LoadManyRuns
  <2>6. ASSUME Head(hooks').round = 0, NEW l \in Loaders, l < Head(hooks').loader
        PROVE  queue'[l] = <<>>
    <3>1. h.round = 0 /\ (l = h.loader \/ l < h.loader)
      BY <1>2, <2>4, <2>6
    <3> QED BY <2>1, <2>2, <2>3, <3>1 DEF PassedAreDrained
  <2> QED BY <2>5, <2>6
<1> QED
  BY <1>3, <1>4, <1>5, <1>6, <1>7, <1>8, <1>9, <1>10, <1>11
  DEF Next, UserStep, DispatchStep, HookStep

\* Only the return of a hook takes one off the stack.
LEMMA OnlyReturnsPop ==
  ASSUME ShapeInv, [Next]_vars, Len(hooks') < Len(hooks)
  PROVE  StallReturns
<1>1. TypeOK /\ hooks \in Seq(Hooks) /\ Len(hooks) \in Nat
  BY DEF ShapeInv, TypeOK
<1>2. hooks' # hooks
  BY <1>1
<1>3. ~StallNextRound
  <2> SUFFICES ASSUME StallNextRound PROVE FALSE
    OBVIOUS
  <2> DEFINE h == [depth |-> Head(hooks).depth, loader |-> 1, round |-> 0]
  <2>1. SetHook(h) /\ hooks # <<>>
    BY DEF StallNextRound, HookRuns
  <2>2. h \in Hooks
    <3>1. Head(hooks) \in Hooks
      BY <1>1, <2>1, HookFacts
    <3> QED BY <3>1 DEF Hooks
  <2> HIDE DEF h
  <2> QED BY <1>1, <2>1, <2>2, HookFacts
<1>4. ~StallDispatch
  <2> SUFFICES ASSUME StallDispatch PROVE FALSE
    OBVIOUS
  <2>1. hooks # <<>> /\ SetHook(Passed(Head(hooks), 0))
    BY <1>2 DEF StallDispatch, HookRuns
  <2>2. Passed(Head(hooks), 0) \in Hooks
    BY <1>1, <2>1, HookFacts
  <2> QED BY <1>1, <2>1, <2>2, HookFacts
<1>5. ~DispatchReturns
  <2> SUFFICES ASSUME DispatchReturns PROVE FALSE
    OBVIOUS
  <2> DEFINE n == Len(calls[1].taken)
  <2>1. hooks # <<>> /\ SetHook(Passed(hooks[1], n)) /\ n \in Nat
    BY <1>2, ReturnFacts
  <2>2. Passed(hooks[1], n) \in Hooks
    BY <1>1, <2>1, HookFacts
  <2> QED BY <1>1, <2>1, <2>2, HookFacts
<1>6. ~OnStall
  <2> SUFFICES ASSUME OnStall PROVE FALSE
    OBVIOUS
  <2> DEFINE h == [depth |-> Len(calls), loader |-> 1, round |-> 0]
  <2>1. hooks' = <<h>> \o hooks /\ h \in Hooks
    BY <1>1 DEF OnStall, Hooks, TypeOK
  <2> HIDE DEF h
  <2>2. Len(hooks') = 1 + Len(hooks)
    <3>1. <<h>> \in Seq(Hooks) /\ Len(<<h>>) = 1
      BY <2>1
    <3> QED BY <1>1, <2>1, <3>1, ConcatProperties
  <2> QED BY <1>1, <2>2
<1>7. ~\E l \in Loaders :
         \/ \E k \in LoadKeys : Load(l, k) \/ Prime(l, k) \/ Clear(l, k)
         \/ \E keys \in ManyKeys : LoadMany(l, keys)
         \/ ClearAll(l)
         \/ Dispatch(l)
  BY <1>2 DEF Load, Prime, Clear, ClearAll, LoadMany, Dispatch
<1>8. /\ ~LoadManyNext /\ ~CallBatch /\ ~NextEntry /\ ~NotifySubscriber /\ ~SettleTicket
      /\ ~\E reply \in {"values", "dies"} : BatchReturns(reply)
  BY <1>2 DEF LoadManyNext, CallBatch, NextEntry, NotifySubscriber, BatchReturns, SettleTicket
<1>9. ~UNCHANGED vars
  BY <1>2 DEF vars
<1> QED
  BY <1>3, <1>4, <1>5, <1>6, <1>7, <1>8, <1>9 DEF Next, UserStep, DispatchStep, HookStep

\* on_stall_for returns only when every loader is drained, wherever it was
\* called: a ticket still pending when a hook returns is in the hands of a
\* dispatch that was in progress when the hook was called.
THEOREM HookDrainsEveryLoader == Spec => StallDrainsEveryLoader
<1>1. Init => PassedAreDrained
  BY DEF Init, PassedAreDrained, HookRuns
<1>2. ShapeInv /\ PlacesInv /\ PassedAreDrained /\ [Next]_vars =>
        (Len(hooks') < Len(hooks) =>
           /\ Len(calls) = Head(hooks).depth
           /\ \A t \in Tickets : Exists(t) /\ ~Settled(t) => InFlightAt(t) # {})
  <2> SUFFICES ASSUME ShapeInv, PlacesInv, PassedAreDrained, [Next]_vars,
                      Len(hooks') < Len(hooks)
               PROVE  /\ Len(calls) = Head(hooks).depth
                      /\ \A t \in Tickets : Exists(t) /\ ~Settled(t) => InFlightAt(t) # {}
    OBVIOUS
  <2>1. HookRuns /\ Head(hooks).loader \notin Loaders /\ Head(hooks).round = 0
    BY OnlyReturnsPop DEF StallReturns
  <2>2. Head(hooks) \in Hooks
    BY <2>1, HookFacts DEF ShapeInv, HookRuns
  <2>3. \A l \in Loaders : l < Head(hooks).loader
    BY <2>1, <2>2, ConstantFacts DEF Hooks
  <2>4. \A l \in Loaders : Len(queue[l]) = 0
    BY <2>1, <2>3, EmptySeq DEF PassedAreDrained
  <2>5. ASSUME NEW t \in Tickets, Exists(t), ~Settled(t)
        PROVE  InFlightAt(t) # {}
    <3>1. ~IsQueued(t)
      BY <2>4 DEF IsQueued
    <3>2. PICK c \in 1 .. Len(calls) : \E i \in 1 .. Len(calls[c].taken) : calls[c].taken[i] = t
      BY <2>5, <3>1 DEF PlacesInv, PendingIsPlaced, IsTaken
    <3> PICK i \in 1 .. Len(calls[c].taken) : calls[c].taken[i] = t
      BY <3>2
    <3>3. TakenOK(calls[c]) /\ calls[c] \in Frames
      BY DEF PlacesInv, AllTakenOK, ShapeInv, TypeOK
    <3>4. ~(i <= SettledBy(calls[c]))
      BY <2>5, <3>2, <3>3 DEF TakenOK
    <3>5. SettledBy(calls[c]) \in Nat /\ Len(calls[c].taken) \in Nat
      BY <3>3 DEF SettledBy, Frames
    <3>6. i \in Tickets
      <4>1. Len(calls[c].taken) <= made /\ made \in 0 .. MaxTickets
        BY <3>3 DEF TakenOK, ShapeInv, TypeOK
      <4> QED BY <3>5, <4>1, ConstantFacts
    <3>7. <<c, i>> \in InFlightAt(t)
      BY <3>2, <3>4, <3>5, <3>6 DEF InFlightAt
    <3> QED BY <3>7
  <2> QED BY <2>1, <2>5 DEF HookRuns
<1> QED BY <1>1, <1>2, PlacesHold, PassedStep, PTL DEF Spec, StallDrainsEveryLoader

-----------------------------------------------------------------------------
(* Slots is invariant *)

\* A slot is its call and its position.
LEMMA SlotParts ==
  /\ \A c, i : Slot(c, i).call = c /\ Slot(c, i).index = i
  /\ \A s \in Slots : s = Slot(s.call, s.index)
  /\ \A c, i, d, j : Slot(c, i) = Slot(d, j) => c = d /\ i = j
BY DEF Slot, Slots

\* What a load_many call remembers of the keys it has loaded.
LEMMA ManyFacts ==
  ASSUME ShapeInv, NEW c \in 1 .. Len(many)
  PROVE  /\ many \in Seq(ManyCalls) /\ Len(many) \in Nat
         /\ many[c] \in ManyCalls /\ ManyCallOK(many[c])
         /\ many[c].at \in Nat /\ Len(many[c].keys) \in Nat
         /\ many[c].remaining \in Int /\ many[c].at <= Len(many[c].keys)
         /\ Len(many[c].waits) = Len(many[c].keys)
         /\ Len(many[c].results) = Len(many[c].keys)
         /\ \A i \in 1 .. many[c].at :
              many[c].waits[i] \in Tickets /\ Exists(many[c].waits[i])
<1>1. many \in Seq(ManyCalls) /\ Len(many) \in Nat /\ made \in 0 .. MaxTickets
  BY DEF ShapeInv, TypeOK
<1>2. many[c] \in ManyCalls /\ ManyCallOK(many[c])
  BY <1>1 DEF ShapeInv, ManyCallsOK
<1>3. /\ many[c].at \in Nat /\ many[c].keys \in Seq(LoadKeys)
      /\ many[c].remaining \in Int
  BY <1>2 DEF ManyCalls
<1>4. ASSUME NEW i \in 1 .. many[c].at
      PROVE  many[c].waits[i] \in Tickets /\ Exists(many[c].waits[i])
  BY <1>1, <1>2, ConstantFacts DEF ManyCallOK, Exists
<1> QED BY <1>1, <1>2, <1>3, <1>4 DEF ManyCallOK

\* A ticket nobody made has no subscribers.
LEMMA NewTicketsHaveNoSubscribers ==
  ASSUME ShapeInv, SlotsInv, NEW t \in Tickets, ~Exists(t)
  PROVE  subscribers[t] = <<>>
<1>1. subscribers[t] \in Seq(Slots) /\ SlotsOK(subscribers[t], t)
  BY DEF ShapeInv, TypeOK, SlotsInv, SubscribersOK
<1>2. ASSUME subscribers[t] # <<>> PROVE FALSE
  <2>1. 1 \in 1 .. Len(subscribers[t])
    BY <1>1, <1>2, EmptySeq
  <2> DEFINE c == subscribers[t][1].call
             i == subscribers[t][1].index
  <2>2. c \in 1 .. Len(many) /\ i \in 1 .. many[c].at /\ many[c].waits[i] = t
    BY <1>1, <2>1 DEF SlotsOK, SlotOf
  <2> HIDE DEF c, i
  <2>3. Exists(many[c].waits[i])
    BY <2>2, ManyFacts
  <2> QED BY <2>2, <2>3
<1> QED BY <1>2

\* A dispatch that still has subscribers to call has settled its current
\* ticket, and no other dispatch stands at that ticket.
LEMMA NotifiedTicket ==
  ASSUME ShapeInv, PlacesInv, NEW c \in 1 .. Len(calls), calls[c].waiting # <<>>
  PROVE  /\ CurrentTicket(calls[c]) \in Tickets /\ Settled(CurrentTicket(calls[c]))
         /\ \A d \in 1 .. Len(calls) :
              d # c /\ calls[d].waiting # <<>> =>
                CurrentTicket(calls[d]) # CurrentTicket(calls[c])
<1> DEFINE pos(d) == calls[d].offset + calls[d].at + 1
<1>1. ASSUME NEW d \in 1 .. Len(calls), calls[d].waiting # <<>>
      PROVE  /\ pos(d) \in 1 .. Len(calls[d].taken)
             /\ CurrentTicket(calls[d]) = calls[d].taken[pos(d)]
             /\ pos(d) <= SettledBy(calls[d])
  <2>1. calls[d] \in Frames /\ FrameOK(calls[d])
    BY HeldFacts DEF ShapeInv, FramesOK
  <2>2. calls[d].phase = "notify" /\ calls[d].at < calls[d].size
    BY <1>1, <2>1 DEF FrameOK
  <2>3. /\ calls[d].offset \in Nat /\ calls[d].at \in Nat /\ calls[d].size \in Nat
        /\ Len(calls[d].taken) \in Nat
    BY <2>1 DEF Frames
  <2>4. calls[d].offset + calls[d].size <= Len(calls[d].taken)
    BY <2>1 DEF FrameOK
  <2>5. SettledBy(calls[d]) = pos(d)
    BY <2>2, <2>3 DEF SettledBy
  <2>6. pos(d) \in 1 .. Len(calls[d].taken) /\ pos(d) <= pos(d)
    BY SMTT(40), <2>2, <2>3, <2>4
  <2> QED BY <2>5, <2>6 DEF CurrentTicket
<1> HIDE DEF pos
<1>2. /\ CurrentTicket(calls[c]) = calls[c].taken[pos(c)]
      /\ pos(c) \in 1 .. Len(calls[c].taken) /\ pos(c) <= SettledBy(calls[c])
  BY <1>1
<1>3. CurrentTicket(calls[c]) \in Tickets
  BY <1>2, HeldFacts
<1>4. Settled(CurrentTicket(calls[c]))
  <2>1. TakenOK(calls[c])
    BY DEF PlacesInv, AllTakenOK
  <2> QED BY <2>1, <1>2 DEF TakenOK
<1>5. ASSUME NEW d \in 1 .. Len(calls), d # c, calls[d].waiting # <<>>
      PROVE  CurrentTicket(calls[d]) # CurrentTicket(calls[c])
  <2>1. /\ CurrentTicket(calls[d]) = calls[d].taken[pos(d)]
        /\ pos(d) \in 1 .. Len(calls[d].taken)
    BY <1>1, <1>5
  <2> QED BY <2>1, <1>2, <1>5 DEF PlacesInv, TakenOnce
<1> QED BY <1>3, <1>4, <1>5

\* A slot that waits is a position some call has loaded: with a pending ticket
\* as its subscriber, or with the dispatch that settled that ticket.
LEMMA WaitingSlots ==
  ASSUME ShapeInv, PlacesInv, SlotsInv, NEW c, NEW i
  PROVE  /\ \A t \in Tickets : Subscribed(Slot(c, i), t) =>
              /\ c \in 1 .. Len(many) /\ i \in 1 .. many[c].at
              /\ many[c].waits[i] = t /\ ~Settled(t)
         /\ \A f \in 1 .. Len(calls) : \A j \in 1 .. Len(calls[f].waiting) :
              calls[f].waiting[j] = Slot(c, i) =>
                /\ c \in 1 .. Len(many) /\ i \in 1 .. many[c].at
                /\ many[c].waits[i] = CurrentTicket(calls[f])
                /\ Settled(CurrentTicket(calls[f]))
<1>1. ASSUME NEW t \in Tickets, Subscribed(Slot(c, i), t)
      PROVE  /\ c \in 1 .. Len(many) /\ i \in 1 .. many[c].at
             /\ many[c].waits[i] = t /\ ~Settled(t)
  <2>1. PICK j \in 1 .. Len(subscribers[t]) : subscribers[t][j] = Slot(c, i)
    BY <1>1 DEF Subscribed
  <2>2. SlotOf(Slot(c, i), t)
    BY <2>1 DEF SlotsInv, SubscribersOK, SlotsOK
  <2>3. subscribers[t] # <<>>
    BY <2>1, EmptySeq
  <2> QED BY <2>2, <2>3, SlotParts DEF SlotOf, SlotsInv, SubscribersOK
<1>2. ASSUME NEW f \in 1 .. Len(calls), NEW j \in 1 .. Len(calls[f].waiting),
             calls[f].waiting[j] = Slot(c, i)
      PROVE  /\ c \in 1 .. Len(many) /\ i \in 1 .. many[c].at
             /\ many[c].waits[i] = CurrentTicket(calls[f])
             /\ Settled(CurrentTicket(calls[f]))
  <2>1. SlotOf(Slot(c, i), CurrentTicket(calls[f]))
    BY <1>2 DEF SlotsInv, WaitingOK, SlotsOK
  <2>2. calls[f].waiting # <<>>
    BY <1>2, EmptySeq
  <2> QED BY <2>1, <2>2, SlotParts, NotifiedTicket DEF SlotOf
<1> QED BY <1>1, <1>2

\* The load_many calls go on: what they have loaded they remember.
ManysGrow ==
  /\ Len(many') \in Nat /\ Len(many) <= Len(many')
  /\ \A c \in 1 .. Len(many) :
       /\ many'[c].at \in Nat /\ many[c].at <= many'[c].at
       /\ \A i \in 1 .. many[c].at : many'[c].waits[i] = many[c].waits[i]

\* A slot of ticket t remains one while the calls go on.
LEMMA SlotOfKept ==
  ASSUME ShapeInv, ManysGrow, NEW s, NEW t, SlotOf(s, t)
  PROVE  /\ s.call \in 1 .. Len(many')
         /\ s.index \in 1 .. many'[s.call].at
         /\ many'[s.call].waits[s.index] = t
<1> DEFINE c == s.call
<1>1. c \in 1 .. Len(many) /\ s.index \in 1 .. many[c].at /\ many[c].waits[s.index] = t
  BY DEF SlotOf
<1> HIDE DEF c
<1>2. Len(many) \in Nat /\ many[c].at \in Nat
  BY <1>1, ManyFacts
<1>3. c \in 1 .. Len(many')
  BY <1>1, <1>2 DEF ManysGrow
<1>4. s.index \in 1 .. many'[c].at
  <2>1. many'[c].at \in Nat /\ many[c].at <= many'[c].at
    BY <1>1 DEF ManysGrow
  <2> QED BY <2>1, <1>1, <1>2
<1>5. many'[c].waits[s.index] = t
  BY <1>1 DEF ManysGrow
<1> QED BY <1>3, <1>4, <1>5 DEF c

\* A call that does nothing, whose slots wait as before, still counts down.
LEMMA CallKept ==
  ASSUME ShapeInv, SlotsInv, [Next]_vars,
         NEW c \in 1 .. Len(many), many'[c] = many[c],
         \A i \in 1 .. many[c].at : Waits(c, i)' <=> Waits(c, i)
  PROVE  /\ \A i \in Done(c)' : /\ status'[many'[c].waits[i]] # "pending"
                                /\ many'[c].results[i] = Outcome(many[c].waits[i])'
         /\ many'[c].remaining = Len(many'[c].keys) - Cardinality(Done(c)')
<1>1. Done(c)' = Done(c)
  BY DEF Done
<1>2. many'[c].remaining = Len(many'[c].keys) - Cardinality(Done(c)')
  BY <1>1 DEF SlotsInv, CountdownOK
<1>3. ASSUME NEW i \in Done(c)
      PROVE  /\ status'[many'[c].waits[i]] # "pending"
             /\ many'[c].results[i] = Outcome(many[c].waits[i])'
  <2> DEFINE t == many[c].waits[i]
  <2>1. Settled(t) /\ many[c].results[i] = Outcome(t)
    BY <1>3 DEF SlotsInv, DeliveredOK
  <2>2. t \in Tickets /\ Exists(t)
    BY <1>3, ManyFacts DEF Done
  <2>3. status'[t] = status[t] /\ value'[t] = value[t]
    BY <2>1, <2>2, SettledKept
  <2> QED BY <2>1, <2>3 DEF Settled, Outcome
<1> QED BY <1>1, <1>2, <1>3

\* The slots a call has filled are finitely many.
LEMMA DoneFinite ==
  ASSUME ShapeInv, NEW c \in 1 .. Len(many)
  PROVE  IsFiniteSet(Done(c)) /\ Cardinality(Done(c)) \in Nat
<1>1. IsFiniteSet(1 .. many[c].at)
  <2>1. 1 \in Int /\ many[c].at \in Int
    BY ManyFacts
  <2> QED BY <2>1, FS_Interval
<1>2. Done(c) \subseteq 1 .. many[c].at
  BY DEF Done
<1> QED BY <1>1, <1>2, FS_Subset, FS_CardinalityType

\* A call that fills one more slot counts one down.
LEMMA CountedDown ==
  ASSUME ShapeInv, SlotsInv, NEW c \in 1 .. Len(many), NEW i, i \notin Done(c),
         Done(c)' = Done(c) \cup {i},
         Len(many'[c].keys) = Len(many[c].keys),
         many'[c].remaining = many[c].remaining - 1
  PROVE  many'[c].remaining = Len(many'[c].keys) - Cardinality(Done(c)')
<1>1. IsFiniteSet(Done(c)) /\ Cardinality(Done(c)) \in Nat
  BY DoneFinite
<1>2. Cardinality(Done(c) \cup {i}) = Cardinality(Done(c)) + 1
  BY <1>1, FS_AddElement
<1>3. many[c].remaining = Len(many[c].keys) - Cardinality(Done(c))
  BY DEF SlotsInv, CountdownOK
<1> QED BY SMTT(40), <1>1, <1>2, <1>3, ManyFacts

\* Dispatches that call nobody come and go, move, or stay: the slots that wait
\* with a dispatch still do.
LEMMA StackKept ==
  ASSUME ShapeInv, SlotsInv, many' = many,
         \A c \in 1 .. Len(calls) :
           calls[c].waiting = <<>> \/ \E d \in 1 .. Len(calls') : calls'[d] = calls[c],
         \A d \in 1 .. Len(calls') :
           calls'[d].waiting = <<>> \/ \E c \in 1 .. Len(calls) : calls[c] = calls'[d]
  PROVE  WaitingOK' /\ \A s : Calling(s)' <=> Calling(s)
<1>1. Len(<<>>) = 0
  BY EmptySeq
<1>2. WaitingOK'
  <2> SUFFICES ASSUME NEW d \in 1 .. Len(calls')
               PROVE  /\ \A j \in 1 .. Len(calls'[d].waiting) :
                           SlotOf(calls'[d].waiting[j], CurrentTicket(calls'[d]))
                      /\ \A i, j \in 1 .. Len(calls'[d].waiting) :
                           calls'[d].waiting[i] = calls'[d].waiting[j] => i = j
    BY DEF WaitingOK, SlotsOK, SlotOf, CurrentTicket
  <2>1. CASE calls'[d].waiting = <<>>
    BY <2>1, <1>1
  <2>2. ASSUME NEW c \in 1 .. Len(calls), calls[c] = calls'[d]
        PROVE  /\ \A j \in 1 .. Len(calls'[d].waiting) :
                    SlotOf(calls'[d].waiting[j], CurrentTicket(calls'[d]))
               /\ \A i, j \in 1 .. Len(calls'[d].waiting) :
                    calls'[d].waiting[i] = calls'[d].waiting[j] => i = j
    <3>1. SlotsOK(calls[c].waiting, CurrentTicket(calls[c]))
      BY DEF SlotsInv, WaitingOK
    <3> QED BY <2>2, <3>1 DEF SlotsOK, SlotOf, CurrentTicket
  <2> QED BY <2>1, <2>2
<1>3. ASSUME NEW s, Calling(s) PROVE Calling(s)'
  <2>1. PICK c \in 1 .. Len(calls) :
          \E j \in 1 .. Len(calls[c].waiting) : calls[c].waiting[j] = s
    BY <1>3 DEF Calling
  <2>2. PICK d \in 1 .. Len(calls') : calls'[d] = calls[c]
    BY <2>1, <1>1
  <2> QED BY <2>1, <2>2 DEF Calling
<1>4. ASSUME NEW s, Calling(s)' PROVE Calling(s)
  <2>1. PICK d \in 1 .. Len(calls') :
          \E j \in 1 .. Len(calls'[d].waiting) : calls'[d].waiting[j] = s
    BY <1>4 DEF Calling
  <2>2. PICK c \in 1 .. Len(calls) : calls[c] = calls'[d]
    BY <2>1, <1>1
  <2>3. \E j \in 1 .. Len(calls[c].waiting) : calls[c].waiting[j] = s
    BY <2>1, <2>2
  <2> QED BY <2>3 DEF Calling
<1> QED BY <1>2, <1>3, <1>4

\* Such a step keeps the slots where they are.
LEMMA SlotsKept ==
  ASSUME ShapeInv, SlotsInv, [Next]_vars,
         many' = many, subscribers' = subscribers,
         \A t \in Tickets : Exists(t) => status'[t] = status[t],
         WaitingOK', \A s : Calling(s)' <=> Calling(s)
  PROVE  SlotsInv'
<1>1. SubscribersOK'
  <2> SUFFICES ASSUME NEW t \in Tickets
               PROVE  /\ status'[t] # "pending" => subscribers[t] = <<>>
                      /\ SlotsOK(subscribers[t], t)
    BY DEF SubscribersOK, Settled, SlotsOK, SlotOf
  <2>1. CASE Exists(t)
    BY <2>1 DEF SlotsInv, SubscribersOK, Settled
  <2>2. CASE ~Exists(t)
    BY <2>2, NewTicketsHaveNoSubscribers DEF SlotsInv, SubscribersOK
  <2> QED BY <2>1, <2>2
<1>2. ASSUME NEW c \in 1 .. Len(many)
      PROVE  /\ \A i \in Done(c)' : /\ status'[many'[c].waits[i]] # "pending"
                                    /\ many'[c].results[i] = Outcome(many[c].waits[i])'
             /\ many'[c].remaining = Len(many'[c].keys) - Cardinality(Done(c)')
  <2>1. \A i \in 1 .. many[c].at : Waits(c, i)' <=> Waits(c, i)
    BY DEF Waits, Subscribed
  <2> QED BY <2>1, CallKept
<1>3. DeliveredOK'
  BY <1>2 DEF DeliveredOK, Settled, Outcome
<1>4. CountdownOK'
  BY <1>2 DEF CountdownOK
<1> QED BY <1>1, <1>3, <1>4 DEF SlotsInv

\* User code that loads, primes or clears one key, and the hook between two
\* dispatches, leave the slots where they are.
LEMMA IdleSlots ==
  ASSUME ShapeInv, SlotsInv, [Next]_vars,
         many' = many, subscribers' = subscribers, calls' = calls,
         \A t \in Tickets : Exists(t) => status'[t] = status[t]
  PROVE  SlotsInv'
<1>1. WaitingOK' /\ \A s : Calling(s)' <=> Calling(s)
  BY StackKept
<1> QED BY <1>1, SlotsKept

\* The innermost dispatch goes on while it has nobody to call.
LEMMA SetTopSlots ==
  ASSUME ShapeInv, SlotsInv, [Next]_vars, calls # <<>>, NEW g \in Frames, SetTop(g),
         calls[1].waiting = <<>>, g.waiting = <<>>,
         UNCHANGED <<tickets, subscribers, many>>
  PROVE  SlotsInv'
<1>1. /\ Len(calls') = Len(calls) /\ calls'[1] = g
      /\ \A c \in 1 .. Len(calls) : c # 1 => calls'[c] = calls[c]
  BY SetTopFacts DEF ShapeInv
<1>2. ASSUME NEW c \in 1 .. Len(calls)
      PROVE  calls[c].waiting = <<>> \/ \E d \in 1 .. Len(calls') : calls'[d] = calls[c]
  BY <1>1
<1>3. ASSUME NEW d \in 1 .. Len(calls')
      PROVE  calls'[d].waiting = <<>> \/ \E c \in 1 .. Len(calls) : calls[c] = calls'[d]
  BY <1>1
<1>4. many' = many /\ subscribers' = subscribers /\ status' = status
  BY DEF tickets
<1>5. WaitingOK' /\ \A s : Calling(s)' <=> Calling(s)
  BY <1>2, <1>3, <1>4, StackKept
<1> QED BY <1>4, <1>5, SlotsKept

\* A dispatch that starts has nobody to call.
LEMMA PushSlots ==
  ASSUME ShapeInv, SlotsInv, [Next]_vars,
         NEW l \in Loaders, TakeQueue(l),
         UNCHANGED <<tickets, subscribers, many>>
  PROVE  SlotsInv'
<1> DEFINE g == NewCall(l)
<1>1. TypeOK /\ g \in Frames /\ g.waiting = <<>> /\ calls' = <<g>> \o calls
  BY NewCallShape DEF ShapeInv, TakeQueue, NewCall
<1> HIDE DEF g
<1>2. /\ Len(calls') = Len(calls) + 1 /\ calls'[1] = g /\ Len(calls) \in Nat
      /\ \A c \in 1 .. Len(calls') :
           c # 1 => c - 1 \in 1 .. Len(calls) /\ calls'[c] = calls[c - 1]
      /\ \A c \in 1 .. Len(calls) : calls'[c + 1] = calls[c]
  BY <1>1, PushFacts DEF TypeOK
<1>3. ASSUME NEW c \in 1 .. Len(calls)
      PROVE  calls[c].waiting = <<>> \/ \E d \in 1 .. Len(calls') : calls'[d] = calls[c]
  <2>1. c + 1 \in 1 .. Len(calls')
    BY <1>2
  <2> QED BY <2>1, <1>2
<1>4. ASSUME NEW d \in 1 .. Len(calls')
      PROVE  calls'[d].waiting = <<>> \/ \E c \in 1 .. Len(calls) : calls[c] = calls'[d]
  BY <1>1, <1>2
<1>5. many' = many /\ subscribers' = subscribers /\ status' = status
  BY DEF tickets
<1>6. WaitingOK' /\ \A s : Calling(s)' <=> Calling(s)
  BY <1>3, <1>4, <1>5, StackKept
<1> QED BY <1>5, <1>6, SlotsKept

\* A dispatch that returns has nobody left to call.
LEMMA ReturnSlots ==
  ASSUME ShapeInv, SlotsInv, [Next]_vars, DispatchReturns
  PROVE  SlotsInv'
<1>1. /\ TypeOK /\ calls # <<>> /\ calls' = Tail(calls)
      /\ UNCHANGED <<tickets, subscribers, queue, many>>
      /\ calls[1].phase = "chunk" /\ FrameOK(calls[1])
  BY ReturnFacts DEF ShapeInv
<1>2. calls[1].waiting = <<>>
  BY <1>1 DEF FrameOK
<1>3. /\ Len(calls') = Len(calls) - 1 /\ Len(calls) \in Nat
      /\ \A c \in 1 .. Len(calls') :
           c + 1 \in 1 .. Len(calls) /\ calls'[c] = calls[c + 1]
  BY <1>1, PopFacts DEF TypeOK
<1>4. ASSUME NEW c \in 1 .. Len(calls)
      PROVE  calls[c].waiting = <<>> \/ \E d \in 1 .. Len(calls') : calls'[d] = calls[c]
  <2>1. CASE c = 1
    BY <2>1, <1>2
  <2>2. CASE c # 1
    <3>1. c - 1 \in 1 .. Len(calls') /\ (c - 1) + 1 = c
      BY <2>2, <1>3
    <3>2. calls'[c - 1] = calls[(c - 1) + 1]
      BY <3>1, <1>3
    <3> QED BY <3>1, <3>2
  <2> QED BY <2>1, <2>2
<1>5. ASSUME NEW d \in 1 .. Len(calls')
      PROVE  calls'[d].waiting = <<>> \/ \E c \in 1 .. Len(calls) : calls[c] = calls'[d]
  BY <1>3
<1>6. many' = many /\ subscribers' = subscribers /\ status' = status
  BY <1>1 DEF tickets
<1>7. WaitingOK' /\ \A s : Calling(s)' <=> Calling(s)
  BY <1>4, <1>5, <1>6, StackKept
<1> QED BY <1>6, <1>7, SlotsKept

\* The loop of a dispatch, while it has nobody to call.
LEMMA QuietLoopSlots ==
  ASSUME ShapeInv, SlotsInv, [Next]_vars,
         \/ CallBatch \/ NextEntry
         \/ \E reply \in {"values", "dies"} : BatchReturns(reply)
  PROVE  SlotsInv'
<1> DEFINE f == calls[1]
<1>1. calls # <<>> /\ UNCHANGED <<tickets, subscribers, many>>
  BY DEF CallBatch, NextEntry, BatchReturns, DispatchRuns
<1>2. f = Head(calls) /\ f \in Frames /\ FrameOK(f)
  BY <1>1, TopShape
<1>3. f.waiting = <<>>
  BY <1>2 DEF FrameOK, CallBatch, NextEntry, BatchReturns
<1>4. \E g : SetTop(g) /\ g.waiting = <<>>
  <2>1. CASE CallBatch
    <3> DEFINE g == Batching(f, ChunkSize(f.loader, Len(f.taken) - f.offset))
    <3>1. SetTop(g)
      BY <1>2, <2>1 DEF CallBatch
    <3>2. g.waiting = <<>>
      BY DEF Batching
    <3> QED BY <3>1, <3>2
  <2>2. CASE NextEntry
    <3> DEFINE g == IF f.at + 1 < f.size THEN AtNextEntry(f) ELSE AtNextChunk(f)
    <3>1. SetTop(g)
      BY <1>2, <2>2 DEF NextEntry
    <3>2. g.waiting = <<>>
      BY DEF AtNextEntry, AtNextChunk
    <3> QED BY <3>1, <3>2
  <2>3. ASSUME NEW reply \in {"values", "dies"}, BatchReturns(reply)
        PROVE  \E g : SetTop(g) /\ g.waiting = <<>>
    <3>1. PICK values : SetTop(Replied(f, reply, values))
      BY <1>2, <2>3 DEF BatchReturns
    <3>2. Replied(f, reply, values).waiting = <<>>
      BY DEF Replied
    <3> QED BY <3>1, <3>2
  <2> QED BY <2>1, <2>2, <2>3
<1>5. PICK g : SetTop(g) /\ g.waiting = <<>>
  BY <1>4
<1>6. calls \in Seq(Frames) /\ calls' \in Seq(Frames)
  <2>1. ShapeInv'
    BY ShapeStep
  <2> QED BY <2>1 DEF ShapeInv, TypeOK
<1>7. calls'[1] = g /\ 1 \in 1 .. Len(calls') /\ g \in Frames
  <2>1. calls' = [calls EXCEPT ![1] = g]
    BY <1>5 DEF SetTop
  <2>2. 1 \in 1 .. Len(calls)
    BY <1>1, TopShape
  <2>3. calls'[1] = g /\ DOMAIN calls' = DOMAIN calls
    BY <1>6, <2>1, <2>2
  <2>4. 1 \in 1 .. Len(calls')
    BY <1>6, <2>2, <2>3
  <2> QED BY <1>6, <2>3, <2>4
<1> QED BY <1>1, <1>3, <1>5, <1>7, SetTopSlots

\* Slots of ticket t, each once, remain so while the calls go on.
LEMMA SlotsOKKept ==
  ASSUME ShapeInv, ManysGrow, NEW w, NEW t, SlotsOK(w, t)
  PROVE  /\ \A j \in 1 .. Len(w) : /\ w[j].call \in 1 .. Len(many')
                                   /\ w[j].index \in 1 .. many'[w[j].call].at
                                   /\ many'[w[j].call].waits[w[j].index] = t
         /\ \A i, j \in 1 .. Len(w) : w[i] = w[j] => i = j
BY SlotOfKept DEF SlotsOK

\* A ticket nobody subscribes to keeps its subscribers.
LEMMA SubscriberKept ==
  ASSUME ShapeInv, SlotsInv, ManysGrow, NEW t \in Tickets,
         subscribers'[t] = subscribers[t], Exists(t) => status'[t] = status[t]
  PROVE  /\ status'[t] # "pending" => subscribers'[t] = <<>>
         /\ SlotsOK(subscribers[t], t)'
<1>1. (status'[t] # "pending" => subscribers[t] = <<>>) /\ SlotsOK(subscribers[t], t)
  <2>1. CASE Exists(t)
    BY <2>1 DEF SlotsInv, SubscribersOK, Settled
  <2>2. CASE ~Exists(t)
    BY <2>2, NewTicketsHaveNoSubscribers DEF SlotsInv, SubscribersOK
  <2> QED BY <2>1, <2>2
<1>2. /\ \A j \in 1 .. Len(subscribers[t]) :
           /\ subscribers[t][j].call \in 1 .. Len(many')
           /\ subscribers[t][j].index \in 1 .. many'[subscribers[t][j].call].at
           /\ many'[subscribers[t][j].call].waits[subscribers[t][j].index] = t
      /\ \A i, j \in 1 .. Len(subscribers[t]) :
           subscribers[t][i] = subscribers[t][j] => i = j
  BY <1>1, SlotsOKKept
<1> QED BY <1>1, <1>2 DEF SlotsOK, SlotOf

\* A step that subscribes nobody leaves every subscriber where it is.
LEMMA SubscribersKept ==
  ASSUME ShapeInv, SlotsInv, ManysGrow, UNCHANGED subscribers,
         \A t \in Tickets : Exists(t) => status'[t] = status[t]
  PROVE  SubscribersOK'
BY SubscriberKept DEF SubscribersOK, Settled

\* A dispatch that stays where it is goes on calling the same slots.
LEMMA WaitersKept ==
  ASSUME ShapeInv, SlotsInv, ManysGrow, NEW c \in 1 .. Len(calls), calls'[c] = calls[c]
  PROVE  SlotsOK(calls[c].waiting, CurrentTicket(calls[c]))'
<1>1. SlotsOK(calls[c].waiting, CurrentTicket(calls[c]))
  BY DEF SlotsInv, WaitingOK
<1>2. LET w == calls[c].waiting IN
        /\ \A j \in 1 .. Len(w) :
             /\ w[j].call \in 1 .. Len(many')
             /\ w[j].index \in 1 .. many'[w[j].call].at
             /\ many'[w[j].call].waits[w[j].index] = CurrentTicket(calls[c])
        /\ \A i, j \in 1 .. Len(w) : w[i] = w[j] => i = j
  BY <1>1, SlotsOKKept
<1> QED BY <1>2 DEF SlotsOK, SlotOf, CurrentTicket

\* load_many starts
LEMMA LoadManySlots ==
  ASSUME ShapeInv, SlotsInv, [Next]_vars,
         NEW l \in Loaders, NEW keys \in ManyKeys, LoadMany(l, keys)
  PROVE  SlotsInv'
<1> DEFINE n == Len(many) + 1
           m == [loader |-> l, keys |-> keys, at |-> 0, remaining |-> Len(keys),
                 waits |-> [i \in 1 .. Len(keys) |-> None],
                 results |-> [i \in 1 .. Len(keys) |-> None]]
<1>1. /\ many \in Seq(ManyCalls) /\ Len(many) \in Nat
      /\ many' = Append(many, m)
      /\ UNCHANGED <<subscribers, calls, status, value>>
  BY DEF LoadMany, tickets, ShapeInv, TypeOK
<1>2. m.at = 0 /\ m.keys = keys /\ m.remaining = Len(keys)
  OBVIOUS
<1>3. Len(keys) \in Nat
  BY ManyAssumption
<1> HIDE DEF m
<1>4. /\ Len(many') = n /\ n \in Nat /\ many'[n] = m
      /\ \A c \in 1 .. Len(many) : many'[c] = many[c]
  BY <1>1
<1>5. \A c \in 1 .. Len(many) : many[c].at \in Nat
  BY ManyFacts
<1>6. ManysGrow
  BY <1>1, <1>4, <1>5 DEF ManysGrow
<1>7. SubscribersOK' /\ WaitingOK'
  <2>1. SubscribersOK'
    BY <1>1, <1>6, SubscribersKept
  <2>2. WaitingOK'
    BY <1>1, <1>6, WaitersKept DEF WaitingOK
  <2> QED BY <2>1, <2>2
<1>8. ASSUME NEW c \in 1 .. Len(many')
      PROVE  /\ \A i \in Done(c)' : /\ status'[many'[c].waits[i]] # "pending"
                                    /\ many'[c].results[i] = Outcome(many[c].waits[i])'
             /\ many'[c].remaining = Len(many'[c].keys) - Cardinality(Done(c)')
  <2>1. CASE c \in 1 .. Len(many)
    <3>1. many'[c] = many[c]
      BY <2>1, <1>4
    <3>2. \A i \in 1 .. many[c].at : Waits(c, i)' <=> Waits(c, i)
      BY <3>1, <1>1 DEF Waits, Subscribed, Calling
    <3> QED BY <2>1, <3>1, <3>2, CallKept
  <2>2. CASE c \notin 1 .. Len(many)
    <3>1. many'[c] = m
      BY <2>2, <1>1, <1>4
    <3>2. Done(c)' = {}
      BY <3>1, <1>2 DEF Done
    <3>3. Cardinality(Done(c)') = 0
      BY <3>2, FS_EmptySet
    <3> QED BY <3>1, <3>2, <3>3, <1>2, <1>3
  <2> QED BY <2>1, <2>2
<1>9. DeliveredOK' /\ CountdownOK'
  BY <1>8 DEF DeliveredOK, CountdownOK, Settled, Outcome
<1> QED BY <1>7, <1>9 DEF SlotsInv

\* Settling a ticket hands its subscribers to the dispatch, in their order:
\* they go on waiting.
LEMMA SettleSlots ==
  ASSUME ShapeInv, PlacesInv, SlotsInv, [Next]_vars,
         SettleTicket
  PROVE  SlotsInv'
<1> DEFINE f == calls[1]
           t == CurrentTicket(f)
           w == subscribers[t]
           g == Notifying(f, w)
<1>1. /\ t \in Tickets /\ ~Settled(t) /\ subscribers'[t] = <<>>
      /\ \A u \in Tickets : u # t => status'[u] = status[u]
      /\ SetTop(g)
  BY SettlePlace
<1>2. /\ many' = many
      /\ \A u \in Tickets : u # t => subscribers'[u] = subscribers[u]
  BY SettleEffect
<1>3. /\ calls # <<>> /\ f \in Frames /\ f.phase = "settle" /\ FrameOK(f)
      /\ 1 \in 1 .. Len(calls) /\ TypeOK
  BY SettleFacts, TopShape DEF ShapeInv
<1>4. g \in Frames
  BY <1>1, <1>3, FrameTypes DEF TypeOK
<1>5. f.waiting = <<>> /\ g.waiting = w /\ CurrentTicket(g) = t /\ Len(<<>>) = 0
  BY <1>3, EmptySeq DEF FrameOK, Notifying, CurrentTicket
<1> HIDE DEF g, w, t
<1>6. /\ Len(calls') = Len(calls) /\ calls'[1] = g
      /\ \A c \in 1 .. Len(calls) : c # 1 => calls'[c] = calls[c]
  BY <1>1, <1>3, <1>4, SetTopFacts
<1>7. SubscribersOK'
  <2> SUFFICES ASSUME NEW u \in Tickets
               PROVE  /\ status'[u] # "pending" => subscribers'[u] = <<>>
                      /\ SlotsOK(subscribers[u], u)'
    BY DEF SubscribersOK, Settled
  <2>1. CASE u = t
    BY <2>1, <1>1, <1>5 DEF SlotsOK
  <2>2. CASE u # t
    <3>1. status'[u] = status[u] /\ subscribers'[u] = subscribers[u]
      BY <2>2, <1>1, <1>2
    <3>2. SlotsOK(subscribers[u], u) /\ (status[u] # "pending" => subscribers[u] = <<>>)
      BY DEF SlotsInv, SubscribersOK, Settled
    <3> QED BY <3>1, <3>2, <1>2 DEF SlotsOK, SlotOf
  <2> QED BY <2>1, <2>2
<1>8. SlotsOK(w, t)
  BY <1>1 DEF SlotsInv, SubscribersOK, w
<1>9. WaitingOK'
  <2> SUFFICES ASSUME NEW c \in 1 .. Len(calls)
               PROVE  SlotsOK(calls[c].waiting, CurrentTicket(calls[c]))'
    BY <1>6 DEF WaitingOK
  <2>1. CASE c = 1
    <3>1. calls'[c].waiting = w /\ CurrentTicket(calls[c])' = t
      BY <2>1, <1>5, <1>6 DEF CurrentTicket
    <3> QED BY <3>1, <1>2, <1>8 DEF SlotsOK, SlotOf
  <2>2. CASE c # 1
    <3>1. calls'[c] = calls[c]
      BY <2>2, <1>6
    <3>2. SlotsOK(calls[c].waiting, CurrentTicket(calls[c]))
      BY DEF SlotsInv, WaitingOK
    <3> QED BY <3>1, <3>2, <1>2 DEF SlotsOK, SlotOf, CurrentTicket
  <2> QED BY <2>1, <2>2
<1>10. ASSUME NEW c \in 1 .. Len(many), NEW i \in 1 .. many[c].at
       PROVE  Waits(c, i)' <=> Waits(c, i)
  <2> DEFINE s == Slot(c, i)
             u == many[c].waits[i]
  <2>1. u \in Tickets
    BY ManyFacts
  <2>2. Calling(s)' <=> Subscribed(s, t) \/ Calling(s)
    <3> HIDE DEF s
    <3>1. ASSUME NEW d \in 1 .. Len(calls), NEW j \in 1 .. Len(calls'[d].waiting),
                 calls'[d].waiting[j] = s
          PROVE  Subscribed(s, t) \/ Calling(s)
      <4>1. CASE d = 1
        BY <4>1, <3>1, <1>5, <1>6 DEF Subscribed, w
      <4>2. CASE d # 1
        BY <4>2, <3>1, <1>6 DEF Calling
      <4> QED BY <4>1, <4>2
    <3>2. ASSUME Subscribed(s, t) PROVE Calling(s)'
      <4>1. PICK j \in 1 .. Len(w) : w[j] = s
        BY <3>2 DEF Subscribed, w
      <4>2. calls'[1].waiting = w /\ 1 \in 1 .. Len(calls')
        BY <1>3, <1>5, <1>6
      <4> QED BY <4>1, <4>2 DEF Calling
    <3>3. ASSUME Calling(s) PROVE Calling(s)'
      <4>1. PICK d \in 1 .. Len(calls) :
              \E j \in 1 .. Len(calls[d].waiting) : calls[d].waiting[j] = s
        BY <3>3 DEF Calling
      <4>2. calls'[d] = calls[d]
        BY <4>1, <1>5, <1>6
      <4> QED BY <4>1, <4>2, <1>6 DEF Calling
    <3>4. ASSUME Calling(s)' PROVE Subscribed(s, t) \/ Calling(s)
      BY <3>4, <3>1, <1>6 DEF Calling
    <3> QED BY <3>2, <3>3, <3>4
  <2>3. Subscribed(s, t) => u = t
    BY <1>1, WaitingSlots
  <2>4. Waits(c, i) <=> Subscribed(s, u) \/ Calling(s)
    BY DEF Waits
  <2>5. Waits(c, i)' <=> (u # t /\ Subscribed(s, u)) \/ Calling(s)'
    <3>1. Waits(c, i)' <=>
            \/ \E j \in 1 .. Len(subscribers'[u]) : subscribers'[u][j] = s
            \/ Calling(s)'
      BY <1>2 DEF Waits, Subscribed
    <3>2. CASE u = t
      <4>1. Len(subscribers'[u]) = 0
        BY <3>2, <1>1, <1>5
      <4> QED BY <3>1, <3>2, <4>1
    <3>3. CASE u # t
      <4>1. subscribers'[u] = subscribers[u]
        BY <3>3, <2>1, <1>2
      <4> QED BY <3>1, <3>3, <4>1 DEF Subscribed
    <3> QED BY <3>2, <3>3
  <2> HIDE DEF s, u
  <2> QED BY <2>2, <2>3, <2>4, <2>5
<1>11. ASSUME NEW c \in 1 .. Len(many)
       PROVE  /\ \A i \in Done(c)' : /\ status'[many'[c].waits[i]] # "pending"
                                     /\ many'[c].results[i] = Outcome(many[c].waits[i])'
              /\ many'[c].remaining = Len(many'[c].keys) - Cardinality(Done(c)')
  BY <1>2, <1>10, CallKept
<1>12. DeliveredOK' /\ CountdownOK'
  BY <1>2, <1>11 DEF DeliveredOK, CountdownOK, Settled, Outcome
<1> QED BY <1>7, <1>9, <1>12 DEF SlotsInv

\* Calling a subscriber fills its slot: it waits nowhere any more, and its
\* call counts one down.
LEMMA NotifySlots ==
  ASSUME ShapeInv, PlacesInv, SlotsInv, [Next]_vars, NotifySubscriber
  PROVE  SlotsInv'
<1> DEFINE f == calls[1]
           w == f.waiting
           t == CurrentTicket(f)
           g == Notifying(f, Tail(w))
<1>1. /\ calls # <<>> /\ f \in Frames /\ w # <<>> /\ w \in Seq(Slots)
      /\ t \in Tickets /\ w[1] \in Slots
      /\ many' = Deliver(many, w[1], Outcome(t))
      /\ SetTop(g) /\ g \in Frames
      /\ UNCHANGED <<tickets, subscribers, queue, hooks>>
  BY NotifyFacts
<1>2. 1 \in 1 .. Len(calls) /\ TypeOK
  BY <1>1, TopShape DEF ShapeInv
<1>3. /\ Settled(t)
      /\ \A d \in 1 .. Len(calls) :
           d # 1 /\ calls[d].waiting # <<>> => CurrentTicket(calls[d]) # t
  BY <1>1, <1>2, NotifiedTicket
<1>4. g.waiting = Tail(w) /\ CurrentTicket(g) = t /\ Len(<<>>) = 0
  BY EmptySeq DEF Notifying, CurrentTicket
<1>5. SlotsOK(w, t) /\ 1 \in 1 .. Len(w) /\ Len(w) \in Nat
  <2>1. SlotsOK(w, t)
    BY <1>2 DEF SlotsInv, WaitingOK
  <2>2. 1 \in 1 .. Len(w) /\ Len(w) \in Nat
    BY <1>1, EmptySeq
  <2> QED BY <2>1, <2>2
<1>6. PICK c \in 1 .. Len(many), i \in Nat :
        /\ i \in 1 .. many[c].at /\ many[c].waits[i] = t
        /\ w[1] = Slot(c, i) /\ w[1].call = c /\ w[1].index = i
  <2> DEFINE d == w[1].call
             j == w[1].index
  <2>1. d \in 1 .. Len(many) /\ j \in 1 .. many[d].at /\ many[d].waits[j] = t
    BY <1>5 DEF SlotsOK, SlotOf
  <2>2. w[1] = Slot(d, j) /\ j \in Nat
    BY <1>1, SlotParts DEF Slots
  <2> QED BY <2>1, <2>2
<1>7. w[1] = Slot(c, i) /\ w[1].call = c /\ w[1].index = i
  BY <1>6
<1>8. /\ Len(Tail(w)) = Len(w) - 1
      /\ \A j \in 1 .. Len(Tail(w)) : j + 1 \in 1 .. Len(w) /\ Tail(w)[j] = w[j + 1]
  BY <1>1, HeadTailProperties
<1> HIDE DEF g
<1>9. /\ Len(calls') = Len(calls) /\ calls'[1] = g
      /\ \A d \in 1 .. Len(calls) : d # 1 => calls'[d] = calls[d]
  BY <1>1, <1>2, SetTopFacts
<1>10. Outcome(t) \in Values
  BY <1>1, <1>2, OutcomeType
<1> HIDE DEF w, t, f
<1>11. /\ many' \in Seq(ManyCalls) /\ Len(many') = Len(many)
       /\ \A d \in 1 .. Len(many) : d # c => many'[d] = many[d]
       /\ many'[c].keys = many[c].keys /\ many'[c].at = many[c].at
       /\ many'[c].waits = many[c].waits
       /\ many'[c].remaining = many[c].remaining - 1
       /\ many'[c].results[i] = Outcome(t)
       /\ \A j \in 1 .. Len(many[c].results) :
            j # i => many'[c].results[j] = many[c].results[j]
  <2>1. /\ many \in Seq(ManyCalls)
        /\ i \in 1 .. Len(many[c].waits) /\ i \in 1 .. Len(many[c].results)
    <3>1. many[c].at \in Nat /\ Len(many[c].keys) \in Nat /\ many[c].at <= Len(many[c].keys)
      BY <1>6, ManyFacts
    <3>2. i \in 1 .. Len(many[c].keys)
      BY <1>6, <3>1
    <3> QED BY <1>6, <3>2, ManyFacts
  <2> DEFINE slot == w[1]
  <2>2. slot.call = c /\ slot.index = i /\ many' = Deliver(many, slot, Outcome(t))
    BY <1>1, <1>7
  <2> HIDE DEF slot
  <2>3. /\ slot.call \in 1 .. Len(many)
        /\ slot.index \in 1 .. Len(many[slot.call].waits)
        /\ slot.index \in 1 .. Len(many[slot.call].results)
    BY <2>1, <2>2, <1>6
  <2> DEFINE v == Outcome(t)
  <2>4. v \in Values /\ many' = Deliver(many, slot, v)
    BY <2>2, <1>10
  <2> HIDE DEF v
  <2>5. LET m == Deliver(many, slot, v) IN
          /\ m \in Seq(ManyCalls) /\ Len(m) = Len(many)
          /\ \A d \in 1 .. Len(many) : d # slot.call => m[d] = many[d]
          /\ m[slot.call].keys = many[slot.call].keys
          /\ m[slot.call].at = many[slot.call].at
          /\ m[slot.call].waits = many[slot.call].waits
          /\ m[slot.call].remaining = many[slot.call].remaining - 1
          /\ m[slot.call].results[slot.index] = v
          /\ \A j \in 1 .. Len(many[slot.call].results) :
               j # slot.index => m[slot.call].results[j] = many[slot.call].results[j]
    BY <2>1, <2>3, <2>4, DeliverFacts, SMTT(60)
  <2> QED BY <2>2, <2>4, <2>5 DEF v
<1>12. ManysGrow
  <2>1. \A d \in 1 .. Len(many) : many[d].at \in Nat /\ Len(many) \in Nat
    BY ManyFacts
  <2>2. ASSUME NEW d \in 1 .. Len(many)
        PROVE  many'[d].at = many[d].at /\ many'[d].waits = many[d].waits
    BY <1>11
  <2>3. Len(many') = Len(many) /\ Len(many) \in Nat
    BY <1>11, <1>2 DEF TypeOK
  <2> QED BY <2>1, <2>2, <2>3 DEF ManysGrow
<1>13. status' = status /\ value' = value /\ subscribers' = subscribers
  BY <1>1 DEF tickets
<1>14. SubscribersOK'
  BY <1>12, <1>13, SubscribersKept
<1>15. WaitingOK'
  <2> SUFFICES ASSUME NEW d \in 1 .. Len(calls)
               PROVE  SlotsOK(calls[d].waiting, CurrentTicket(calls[d]))'
    BY <1>9 DEF WaitingOK
  <2>1. CASE d = 1
    <3>1. calls'[d].waiting = Tail(w) /\ CurrentTicket(calls[d])' = t
      BY <2>1, <1>4, <1>9 DEF CurrentTicket
    <3>2. /\ \A j \in 1 .. Len(w) : /\ w[j].call \in 1 .. Len(many')
                                    /\ w[j].index \in 1 .. many'[w[j].call].at
                                    /\ many'[w[j].call].waits[w[j].index] = t
          /\ \A k, j \in 1 .. Len(w) : w[k] = w[j] => k = j
      BY <1>5, <1>12, SlotsOKKept
    <3>3. ASSUME NEW j \in 1 .. Len(Tail(w))
          PROVE  /\ Tail(w)[j].call \in 1 .. Len(many')
                 /\ Tail(w)[j].index \in 1 .. many'[Tail(w)[j].call].at
                 /\ many'[Tail(w)[j].call].waits[Tail(w)[j].index] = t
      BY <3>2, <1>8
    <3>4. ASSUME NEW k \in 1 .. Len(Tail(w)), NEW j \in 1 .. Len(Tail(w)),
                 Tail(w)[k] = Tail(w)[j]
          PROVE  k = j
      <4>1. w[k + 1] = w[j + 1] /\ k + 1 \in 1 .. Len(w) /\ j + 1 \in 1 .. Len(w)
        BY <3>4, <1>8
      <4>2. k + 1 = j + 1
        BY <4>1, <3>2
      <4>3. k \in Nat /\ j \in Nat
        BY <1>5, <1>8
      <4> QED BY <4>2, <4>3
    <3> QED BY <3>1, <3>3, <3>4 DEF SlotsOK, SlotOf
  <2>2. CASE d # 1
    BY <2>2, <1>9, <1>12, WaitersKept
  <2> QED BY <2>1, <2>2
<1>16. Waits(c, i)
  <2>1. Calling(Slot(c, i))
    BY <1>2, <1>5, <1>7 DEF Calling, w, f
  <2> QED BY <2>1 DEF Waits
<1>17. ~Waits(c, i)'
  <2>1. ASSUME NEW d \in 1 .. Len(calls), NEW j \in 1 .. Len(calls'[d].waiting),
               calls'[d].waiting[j] = Slot(c, i)
        PROVE  FALSE
    <3>1. CASE d = 1
      <4>1. calls'[d].waiting = Tail(w)
        BY <3>1, <1>4, <1>9
      <4>2. j + 1 \in 1 .. Len(w) /\ w[j + 1] = w[1]
        BY <4>1, <2>1, <1>7, <1>8
      <4>3. j + 1 = 1 /\ j \in 1 .. Len(Tail(w))
        BY <4>1, <4>2, <2>1, <1>5 DEF SlotsOK
      <4> QED BY <4>3, <1>5, <1>8
    <3>2. CASE d # 1
      <4>1. calls[d].waiting[j] = Slot(c, i) /\ j \in 1 .. Len(calls[d].waiting)
        BY <3>2, <2>1, <1>9
      <4>2. many[c].waits[i] = CurrentTicket(calls[d])
        BY <4>1, WaitingSlots
      <4>3. calls[d].waiting # <<>>
        BY <4>1, <1>4
      <4> QED BY <3>2, <4>2, <4>3, <1>3, <1>6
    <3> QED BY <3>1, <3>2
  <2>2. ~Calling(Slot(c, i))'
    BY <2>1, <1>9 DEF Calling
  <2>3. Len(subscribers'[many'[c].waits[i]]) = 0
    BY <1>1, <1>3, <1>4, <1>6, <1>11, <1>13 DEF SlotsInv, SubscribersOK
  <2> QED BY <2>2, <2>3 DEF Waits, Subscribed
<1>18. ASSUME NEW d \in 1 .. Len(many), NEW k \in 1 .. many[d].at, d # c \/ k # i
       PROVE  Waits(d, k)' <=> Waits(d, k)
  <2> DEFINE s == Slot(d, k)
  <2>1. s # w[1]
    BY <1>7, <1>18, SlotParts
  <2> HIDE DEF s
  <2>2. ASSUME Calling(s) PROVE Calling(s)'
    <3>1. PICK x \in 1 .. Len(calls) :
            \E j \in 1 .. Len(calls[x].waiting) : calls[x].waiting[j] = s
      BY <2>2 DEF Calling
    <3>2. CASE x # 1
      <4>1. calls'[x] = calls[x]
        BY <3>2, <1>9
      <4> QED BY <3>1, <4>1, <1>9 DEF Calling
    <3>3. CASE x = 1
      <4>1. PICK j \in 1 .. Len(w) : w[j] = s
        BY <3>1, <3>3 DEF w, f
      <4>2. j # 1
        BY <4>1, <2>1
      <4>3. j - 1 \in 1 .. Len(Tail(w)) /\ (j - 1) + 1 = j
        BY <4>2, <1>5, <1>8
      <4>4. Tail(w)[j - 1] = s
        <5>1. Tail(w)[j - 1] = w[(j - 1) + 1]
          BY <4>3, <1>8
        <5> QED BY <5>1, <4>1, <4>3
      <4>5. calls'[1].waiting = Tail(w) /\ 1 \in 1 .. Len(calls')
        BY <1>2, <1>4, <1>9
      <4> QED BY <4>3, <4>4, <4>5 DEF Calling
    <3> QED BY <3>2, <3>3
  <2>3. ASSUME Calling(s)' PROVE Calling(s)
    <3>1. PICK x \in 1 .. Len(calls) :
            \E j \in 1 .. Len(calls'[x].waiting) : calls'[x].waiting[j] = s
      BY <2>3, <1>9 DEF Calling
    <3>2. CASE x # 1
      <4>1. \E j \in 1 .. Len(calls[x].waiting) : calls[x].waiting[j] = s
        BY <3>1, <3>2, <1>9
      <4> QED BY <4>1 DEF Calling
    <3>3. CASE x = 1
      <4>1. PICK j \in 1 .. Len(Tail(w)) : Tail(w)[j] = s
        BY <3>1, <3>3, <1>4, <1>9
      <4>2. j + 1 \in 1 .. Len(w) /\ w[j + 1] = s
        BY <4>1, <1>8
      <4> QED BY <4>2, <1>2 DEF Calling, w, f
    <3> QED BY <3>2, <3>3
  <2>4. many'[d].waits = many[d].waits
    BY <1>11
  <2>5. Waits(d, k) <=> Subscribed(s, many[d].waits[k]) \/ Calling(s)
    BY DEF Waits, s
  <2>6. Waits(d, k)' <=> Subscribed(s, many[d].waits[k]) \/ Calling(s)'
    BY <2>4, <1>13 DEF Waits, Subscribed, s
  <2> QED BY <2>2, <2>3, <2>5, <2>6
<1>19. ASSUME NEW d \in 1 .. Len(many)
       PROVE  /\ \A k \in Done(d)' : /\ status'[many'[d].waits[k]] # "pending"
                                     /\ many'[d].results[k] = Outcome(many[d].waits[k])'
              /\ many'[d].remaining = Len(many'[d].keys) - Cardinality(Done(d)')
  <2>1. CASE d # c
    BY <2>1, <1>11, <1>18, CallKept
  <2>2. CASE d = c
    <3>1. i \notin Done(d) /\ Done(d)' = Done(d) \cup {i}
      <4>1. i \notin Done(d)
        BY <2>2, <1>16 DEF Done
      <4>2. ASSUME NEW k PROVE k \in Done(d)' <=> k \in Done(d) \cup {i}
        <5>1. many'[d].at = many[d].at
          BY <2>2, <1>11
        <5>2. CASE k = i
          BY <5>1, <5>2, <2>2, <1>6, <1>17 DEF Done
        <5>3. CASE k # i
          BY <5>1, <5>3, <2>2, <1>18 DEF Done
        <5> QED BY <5>2, <5>3
      <4> QED BY <4>1, <4>2
    <3>2. many'[d].remaining = Len(many'[d].keys) - Cardinality(Done(d)')
      BY <2>2, <3>1, <1>11, CountedDown
    <3>3. ASSUME NEW k \in Done(d)'
          PROVE  /\ status'[many'[d].waits[k]] # "pending"
                 /\ many'[d].results[k] = Outcome(many[d].waits[k])'
      <4>1. CASE k = i
        BY <4>1, <2>2, <1>3, <1>6, <1>11, <1>13 DEF Settled, Outcome
      <4>2. CASE k # i
        <5>1. k \in Done(d)
          BY <3>1, <3>3, <4>2
        <5>2. Settled(many[d].waits[k]) /\ many[d].results[k] = Outcome(many[d].waits[k])
          BY <5>1 DEF SlotsInv, DeliveredOK
        <5>3. k \in 1 .. Len(many[d].results)
          <6>1. /\ many[d].at \in Nat /\ many[d].at <= Len(many[d].keys)
                /\ Len(many[d].results) = Len(many[d].keys) /\ Len(many[d].keys) \in Nat
            BY ManyFacts
          <6>2. k \in 1 .. many[d].at
            BY <5>1 DEF Done
          <6> QED BY <6>1, <6>2
        <5>4. many'[d].results[k] = many[d].results[k] /\ many'[d].waits = many[d].waits
          BY <5>3, <4>2, <2>2, <1>11
        <5> QED BY <5>2, <5>4, <1>13 DEF Settled, Outcome
      <4> QED BY <4>1, <4>2
    <3> QED BY <3>2, <3>3
  <2> QED BY <2>1, <2>2
<1>20. DeliveredOK' /\ CountdownOK'
  BY <1>11, <1>19 DEF DeliveredOK, CountdownOK, Settled, Outcome
<1> QED BY <1>14, <1>15, <1>20 DEF SlotsInv

\* An iteration of load_many fills its slot at once when the ticket has
\* settled, and subscribes to the ticket otherwise.
LEMMA LoopSlots ==
  ASSUME ShapeInv, SlotsInv, PlacesInv, [Next]_vars, LoadManyNext
  PROVE  SlotsInv'
<1> DEFINE call == Len(many)
           index == many[call].at + 1
           loader == many[call].loader
           key == many[call].keys[index]
           ticket == LoadTicket(many[call].loader, many[call].keys[index])
           new == many'[call]
           hits == Hit(many[call].loader, many[call].keys[index])
<1>0. /\ many' \in Seq(ManyCalls) /\ Len(many') = Len(many)
      /\ \A d \in 1 .. Len(many) : d # call => many'[d] = many[d]
      /\ new.keys = many[call].keys /\ new.at = index
      /\ new.waits[index] = ticket
      /\ \A j \in 1 .. Len(many[call].waits) :
           j # index => new.waits[j] = many[call].waits[j]
      /\ \A j \in 1 .. Len(many[call].results) :
           j # index => new.results[j] = many[call].results[j]
      /\ ticket \in Tickets
      /\ hits => UNCHANGED <<tickets, queue>>
      /\ ~hits => ticket = made + 1 /\ EnqueueLoadMiss(loader, key)
      /\ hits /\ Settled(ticket) => /\ new.results[index] = Outcome(ticket)
                                    /\ new.remaining = many[call].remaining - 1
                                    /\ subscribers' = subscribers
      /\ ~(hits /\ Settled(ticket)) =>
           /\ new.remaining = many[call].remaining
           /\ subscribers' = [subscribers EXCEPT ![ticket] =
                                Append(@, [call |-> call, index |-> index])]
  <2>1. /\ LoopCall(call, index, ticket, new) /\ LoopTicket(call, index, ticket)
        /\ LoopOutcome(call, index, ticket, new)
    BY LoopEffect
  <2> HIDE DEF ticket, new, call, index
  <2>2. /\ hits /\ Settled(ticket) => /\ new.results[index] = Outcome(ticket)
                                      /\ new.remaining = many[call].remaining - 1
                                      /\ subscribers' = subscribers
        /\ ~(hits /\ Settled(ticket)) =>
             /\ new.remaining = many[call].remaining
             /\ subscribers' = [subscribers EXCEPT ![ticket] =
                                  Append(@, [call |-> call, index |-> index])]
    BY <2>1 DEF LoopOutcome
  <2>3. /\ ticket \in Tickets
        /\ hits => UNCHANGED <<tickets, queue>>
        /\ ~hits => ticket = made + 1 /\ EnqueueLoadMiss(loader, key)
    BY <2>1 DEF LoopTicket
  <2> HIDE DEF hits
  <2> QED BY <2>1, <2>2, <2>3 DEF LoopCall
<1> HIDE DEF ticket, hits
<1> SUFFICES ASSUME NEW c, NEW i, NEW t, NEW m,
                    c = call, i = index, t = ticket, m = new
             PROVE  SlotsInv'
  OBVIOUS
<1> DEFINE l == many[c].loader
           k == many[c].keys[i]
           filled == Hit(l, k) /\ Settled(t)
<1>1. /\ many' \in Seq(ManyCalls) /\ Len(many') = Len(many)
      /\ \A d \in 1 .. Len(many) : d # c => many'[d] = many[d]
      /\ m = many'[c] /\ m.keys = many[c].keys /\ m.at = i
      /\ m.waits[i] = t
      /\ \A j \in 1 .. Len(many[c].waits) : j # i => m.waits[j] = many[c].waits[j]
      /\ \A j \in 1 .. Len(many[c].results) : j # i => m.results[j] = many[c].results[j]
      /\ t \in Tickets
      /\ Hit(l, k) => UNCHANGED <<tickets, queue>>
      /\ ~Hit(l, k) => t = made + 1 /\ EnqueueLoadMiss(l, k)
      /\ filled => /\ m.results[i] = Outcome(t)
                   /\ m.remaining = many[c].remaining - 1
                   /\ subscribers' = subscribers
      /\ ~filled => /\ m.remaining = many[c].remaining
                    /\ subscribers' = [subscribers EXCEPT ![t] = Append(@, Slot(c, i))]
  BY <1>0 DEF Slot, hits
<1>2. /\ c \in 1 .. Len(many) /\ i \in Nat \ {0} /\ TypeOK
      /\ l \in Loaders /\ k \in LoadKeys
  BY LoopFacts DEF LoadManyNext, ShapeInv
<1>3. /\ many[c].at \in Nat /\ i = many[c].at + 1 /\ Len(many) \in Nat
      /\ Len(many[c].keys) \in Nat /\ many[c].at <= Len(many[c].keys)
      /\ Len(many[c].waits) = Len(many[c].keys)
      /\ Len(many[c].results) = Len(many[c].keys)
  BY <1>2, ManyFacts
<1>4. calls' = calls
  BY DEF LoadManyNext
<1>5. /\ \A u \in Tickets : Exists(u) => status'[u] = status[u]
      /\ filled => status'[t] # "pending" /\ Outcome(t)' = Outcome(t)
      /\ ~filled => status'[t] = "pending"
  <2>1. CASE Hit(l, k)
    BY <2>1, <1>1 DEF tickets, Settled, Outcome
  <2>2. CASE ~Hit(l, k)
    <3>1. /\ NewTicket(l, k, "pending", None) /\ t = made + 1
          /\ made' = made + 1 /\ None \in Values
      BY <2>2, <1>1 DEF EnqueueLoadMiss, NewTicket, Values
    <3>2. /\ status'[made'] = "pending"
          /\ \A u \in Tickets : u # made' => status'[u] = status[u]
      BY <3>1, <1>2, NewTicketHolds
    <3>3. \A u \in Tickets : Exists(u) => u # made'
      BY <3>1, ConstantFacts, HeldFacts DEF Exists
    <3> QED BY <2>2, <3>1, <3>2, <3>3
  <2> QED BY <2>1, <2>2
<1> HIDE DEF l, k, filled
<1>6. ManysGrow
  <2>1. \A d \in 1 .. Len(many) : many[d].at \in Nat
    BY ManyFacts
  <2>2. ASSUME NEW j \in 1 .. many[c].at PROVE many'[c].waits[j] = many[c].waits[j]
    <3>1. j \in 1 .. Len(many[c].waits) /\ j # i
      BY <1>3
    <3> QED BY <3>1, <1>1
  <2>3. many[c].at <= many'[c].at /\ many'[c].at \in Nat
    BY <1>1, <1>2, <1>3
  <2>4. ASSUME NEW d \in 1 .. Len(many)
        PROVE  /\ many'[d].at \in Nat /\ many[d].at <= many'[d].at
               /\ \A j \in 1 .. many[d].at : many'[d].waits[j] = many[d].waits[j]
    <3>1. CASE d = c
      BY <3>1, <2>2, <2>3
    <3>2. CASE d # c
      BY <3>2, <2>1, <1>1
    <3> QED BY <3>1, <3>2
  <2> QED BY <2>4, <1>1, <1>3 DEF ManysGrow
<1>7. /\ ~Calling(Slot(c, i))
      /\ \A u \in Tickets : ~Subscribed(Slot(c, i), u)
  <2>1. i \notin 1 .. many[c].at
    BY <1>3
  <2> QED BY <2>1, WaitingSlots DEF Calling
<1>8. \A s : Calling(s)' <=> Calling(s)
  BY <1>4 DEF Calling
<1>9. ASSUME NEW s, NEW u \in Tickets, s # Slot(c, i)
      PROVE  (\E j \in 1 .. Len(subscribers'[u]) : subscribers'[u][j] = s) <=> Subscribed(s, u)
  <2>1. CASE filled \/ u # t
    <3>1. subscribers'[u] = subscribers[u]
      BY <2>1, <1>1, <1>2 DEF TypeOK
    <3> QED BY <3>1 DEF Subscribed
  <2>2. CASE ~filled /\ u = t
    <3>1. subscribers[u] \in Seq(Slots) /\ subscribers'[u] = Append(subscribers[u], Slot(c, i))
      BY <2>2, <1>1, <1>2 DEF TypeOK
    <3>2. /\ Len(subscribers'[u]) = Len(subscribers[u]) + 1 /\ Len(subscribers[u]) \in Nat
          /\ subscribers'[u][Len(subscribers[u]) + 1] = Slot(c, i)
          /\ \A j \in 1 .. Len(subscribers[u]) : subscribers'[u][j] = subscribers[u][j]
      BY <3>1
    <3>3. ASSUME NEW j \in 1 .. Len(subscribers'[u]), subscribers'[u][j] = s
          PROVE  Subscribed(s, u)
      <4>1. j \in 1 .. Len(subscribers[u])
        BY <3>2, <3>3, <1>9
      <4> QED BY <3>2, <3>3, <4>1 DEF Subscribed
    <3>4. ASSUME NEW j \in 1 .. Len(subscribers[u]), subscribers[u][j] = s
          PROVE  j \in 1 .. Len(subscribers'[u]) /\ subscribers'[u][j] = s
      BY <3>2, <3>4
    <3> QED BY <3>3, <3>4 DEF Subscribed
  <2> QED BY <2>1, <2>2
<1>10. ASSUME NEW d \in 1 .. Len(many), NEW j \in 1 .. many[d].at
       PROVE  Waits(d, j)' <=> Waits(d, j)
  <2>1. PICK u \in Tickets : many[d].waits[j] = u
    BY ManyFacts
  <2>2. many'[d].waits[j] = u
    BY <2>1, <1>6 DEF ManysGrow
  <2>3. Slot(d, j) # Slot(c, i)
    BY <1>3, SlotParts
  <2>4. Waits(d, j) <=> Subscribed(Slot(d, j), u) \/ Calling(Slot(d, j))
    BY <2>1 DEF Waits
  <2>5. Waits(d, j)' <=>
          \/ \E x \in 1 .. Len(subscribers'[u]) : subscribers'[u][x] = Slot(d, j)
          \/ Calling(Slot(d, j))'
    BY <2>2 DEF Waits, Subscribed
  <2> QED BY <2>3, <2>4, <2>5, <1>8, <1>9
<1>11. SubscribersOK'
  <2> SUFFICES ASSUME NEW u \in Tickets
               PROVE  /\ status'[u] # "pending" => subscribers'[u] = <<>>
                      /\ SlotsOK(subscribers[u], u)'
    BY DEF SubscribersOK, Settled
  <2>1. CASE filled \/ u # t
    <3>1. subscribers'[u] = subscribers[u]
      BY <2>1, <1>1, <1>2 DEF TypeOK
    <3> QED BY <3>1, <1>5, <1>6, SubscriberKept
  <2>2. CASE ~filled /\ u = t
    <3> DEFINE w == subscribers[u]
               n == Len(w) + 1
    <3>1. w \in Seq(Slots) /\ subscribers'[u] = Append(w, Slot(c, i))
      BY <2>2, <1>1, <1>2 DEF TypeOK
    <3>2. SlotsOK(w, t)
      BY <2>2 DEF SlotsInv, SubscribersOK
    <3>3. /\ \A j \in 1 .. Len(w) : w[j] # Slot(c, i)
      BY <1>7 DEF Subscribed
    <3> HIDE DEF w
    <3>4. /\ Len(subscribers'[u]) = n /\ Len(w) \in Nat
          /\ subscribers'[u][n] = Slot(c, i)
          /\ \A j \in 1 .. Len(w) : subscribers'[u][j] = w[j]
      BY <3>1
    <3>5. /\ \A j \in 1 .. Len(w) : /\ w[j].call \in 1 .. Len(many')
                                    /\ w[j].index \in 1 .. many'[w[j].call].at
                                    /\ many'[w[j].call].waits[w[j].index] = t
          /\ \A x, j \in 1 .. Len(w) : w[x] = w[j] => x = j
      BY <3>2, <1>6, SlotsOKKept
    <3>6. ASSUME NEW j \in 1 .. n
          PROVE  /\ subscribers'[u][j].call \in 1 .. Len(many')
                 /\ subscribers'[u][j].index \in 1 .. many'[subscribers'[u][j].call].at
                 /\ many'[subscribers'[u][j].call].waits[subscribers'[u][j].index] = t
      <4>1. CASE j \in 1 .. Len(w)
        BY <4>1, <3>4, <3>5
      <4>2. CASE j \notin 1 .. Len(w)
        <5>1. subscribers'[u][j] = Slot(c, i)
          BY <4>2, <3>4
        <5>2. c \in 1 .. Len(many') /\ i \in 1 .. many'[c].at /\ many'[c].waits[i] = t
          BY <1>1, <1>2
        <5> QED BY <5>1, <5>2, SlotParts
      <4> QED BY <4>1, <4>2
    <3>7. ASSUME NEW x \in 1 .. n, NEW j \in 1 .. n, subscribers'[u][x] = subscribers'[u][j]
          PROVE  x = j
      <4>1. CASE x \in 1 .. Len(w) /\ j \in 1 .. Len(w)
        BY <4>1, <3>4, <3>5, <3>7
      <4>2. ASSUME NEW y \in 1 .. n, y \notin 1 .. Len(w)
            PROVE  y = n /\ subscribers'[u][y] = Slot(c, i)
        BY <4>2, <3>4
      <4>3. ASSUME NEW y \in 1 .. Len(w)
            PROVE  subscribers'[u][y] # Slot(c, i)
        BY <3>3, <3>4
      <4>4. CASE x \notin 1 .. Len(w) /\ j \notin 1 .. Len(w)
        BY <4>2, <4>4
      <4>5. CASE x \in 1 .. Len(w) /\ j \notin 1 .. Len(w)
        BY <4>2, <4>3, <4>5, <3>7
      <4>6. CASE x \notin 1 .. Len(w) /\ j \in 1 .. Len(w)
        BY <4>2, <4>3, <4>6, <3>7
      <4> QED BY <4>1, <4>4, <4>5, <4>6
    <3>8. SlotsOK(subscribers[u], u)'
      BY <2>2, <3>4, <3>6, <3>7 DEF SlotsOK, SlotOf
    <3> QED BY <2>2, <3>8, <1>5
  <2> QED BY <2>1, <2>2
<1>12. WaitingOK'
  BY <1>4, <1>6, WaitersKept DEF WaitingOK
<1>13. ASSUME NEW j \in Done(c)
       PROVE  /\ j \in 1 .. many[c].at /\ j # i
              /\ status'[many'[c].waits[j]] # "pending"
              /\ many'[c].results[j] = Outcome(many[c].waits[j])'
  <2>1. j \in 1 .. many[c].at /\ j # i
    BY <1>3 DEF Done
  <2>2. PICK u \in Tickets : u = many[c].waits[j] /\ Exists(u)
    BY <2>1, <1>2, ManyFacts
  <2>3. Settled(u) /\ many[c].results[j] = Outcome(u)
    BY <2>2, <1>2, <1>13 DEF SlotsInv, DeliveredOK
  <2>4. status'[u] = status[u] /\ value'[u] = value[u]
    BY <2>2, <2>3, SettledKept
  <2>5. j \in 1 .. Len(many[c].waits) /\ j \in 1 .. Len(many[c].results)
    BY <2>1, <1>3
  <2>6. many'[c].waits[j] = u /\ many'[c].results[j] = many[c].results[j]
    BY <2>1, <2>2, <2>5, <1>1
  <2> QED BY <2>1, <2>3, <2>4, <2>6 DEF Settled, Outcome
<1>14. i \notin Done(c)
  BY <1>3 DEF Done
<1>15. \A j \in 1 .. many'[c].at : j = i \/ j \in 1 .. many[c].at
  BY <1>1, <1>2, <1>3
<1>16. \A j \in 1 .. many[c].at : j \in 1 .. many'[c].at /\ j # i
  BY <1>1, <1>2, <1>3
<1>17. Waits(c, i)' <=>
         \E x \in 1 .. Len(subscribers'[t]) : subscribers'[t][x] = Slot(c, i)
  <2>1. many'[c].waits[i] = t
    BY <1>1
  <2> QED BY <2>1, <1>7, <1>8 DEF Waits, Subscribed
<1>18. CASE filled
  <2>1. ~Waits(c, i)'
    BY <1>18, <1>1, <1>7, <1>17 DEF Subscribed
  <2>2. Done(c)' = Done(c) \cup {i}
    <3>1. i \in 1 .. many'[c].at
      BY <1>1, <1>2
    <3>2. ASSUME NEW j PROVE j \in Done(c)' <=> j \in Done(c) \cup {i}
      <4>1. CASE j = i
        BY <4>1, <2>1, <3>1 DEF Done
      <4>2. CASE j # i
        <5>1. j \in 1 .. many'[c].at <=> j \in 1 .. many[c].at
          BY <4>2, <1>15, <1>16
        <5> QED BY <4>2, <5>1, <1>2, <1>10 DEF Done
      <4> QED BY <4>1, <4>2
    <3> QED BY <3>2
  <2>3. many'[c].remaining = Len(many'[c].keys) - Cardinality(Done(c)')
    <3>1. /\ Len(many'[c].keys) = Len(many[c].keys)
          /\ many'[c].remaining = many[c].remaining - 1
      BY <1>18, <1>1
    <3> QED BY <3>1, <2>2, <1>2, <1>14, CountedDown
  <2>4. status'[many'[c].waits[i]] # "pending" /\ many'[c].results[i] = Outcome(many[c].waits[i])'
    BY <1>18, <1>1, <1>5 DEF Outcome
  <2>5. \A j \in Done(c)' : /\ status'[many'[c].waits[j]] # "pending"
                            /\ many'[c].results[j] = Outcome(many[c].waits[j])'
    <3> SUFFICES ASSUME NEW j \in Done(c)'
                 PROVE  /\ status'[many'[c].waits[j]] # "pending"
                        /\ many'[c].results[j] = Outcome(many[c].waits[j])'
      OBVIOUS
    <3>1. CASE j = i
      BY <3>1, <2>4 DEF Outcome
    <3>2. CASE j # i
      BY <3>2, <2>2, <1>13
    <3> QED BY <3>1, <3>2
  <2>6. ASSUME NEW d \in 1 .. Len(many)
        PROVE  /\ \A j \in Done(d)' : /\ status'[many'[d].waits[j]] # "pending"
                                      /\ many'[d].results[j] = Outcome(many[d].waits[j])'
               /\ many'[d].remaining = Len(many'[d].keys) - Cardinality(Done(d)')
    <3>1. CASE d = c
      BY <3>1, <2>3, <2>5
    <3>2. CASE d # c
      BY <3>2, <1>1, <1>10, CallKept
    <3> QED BY <3>1, <3>2
  <2>7. DeliveredOK' /\ CountdownOK'
    BY <2>6, <1>1 DEF DeliveredOK, CountdownOK, Settled, Outcome
  <2> QED BY <2>7, <1>11, <1>12 DEF SlotsInv
<1>19. CASE ~filled
  <2>1. Waits(c, i)'
    <3> DEFINE w == subscribers[t]
               n == Len(w) + 1
    <3>1. w \in Seq(Slots) /\ subscribers'[t] = Append(w, Slot(c, i))
      BY <1>19, <1>1, <1>2 DEF TypeOK
    <3> HIDE DEF w
    <3>2. n \in 1 .. Len(subscribers'[t]) /\ subscribers'[t][n] = Slot(c, i)
      BY <3>1
    <3> QED BY <3>2, <1>17
  <2>2. Done(c)' = Done(c)
    <3>1. ASSUME NEW j PROVE j \in Done(c)' <=> j \in Done(c)
      <4>1. CASE j = i
        BY <4>1, <2>1, <1>14 DEF Done
      <4>2. CASE j # i
        <5>1. j \in 1 .. many'[c].at <=> j \in 1 .. many[c].at
          BY <4>2, <1>15, <1>16
        <5> QED BY <5>1, <1>2, <1>10 DEF Done
      <4> QED BY <4>1, <4>2
    <3> QED BY <3>1
  <2>3. many'[c].remaining = Len(many'[c].keys) - Cardinality(Done(c)')
    BY <1>19, <2>2, <1>1, <1>2 DEF SlotsInv, CountdownOK
  <2>4. \A j \in Done(c)' : /\ status'[many'[c].waits[j]] # "pending"
                            /\ many'[c].results[j] = Outcome(many[c].waits[j])'
    BY <2>2, <1>13
  <2>5. ASSUME NEW d \in 1 .. Len(many)
        PROVE  /\ \A j \in Done(d)' : /\ status'[many'[d].waits[j]] # "pending"
                                      /\ many'[d].results[j] = Outcome(many[d].waits[j])'
               /\ many'[d].remaining = Len(many'[d].keys) - Cardinality(Done(d)')
    <3>1. CASE d = c
      BY <3>1, <2>3, <2>4
    <3>2. CASE d # c
      BY <3>2, <1>1, <1>10, CallKept
    <3> QED BY <3>1, <3>2
  <2>6. DeliveredOK' /\ CountdownOK'
    BY <2>5, <1>1 DEF DeliveredOK, CountdownOK, Settled, Outcome
  <2> QED BY <2>6, <1>11, <1>12 DEF SlotsInv
<1> QED BY <1>18, <1>19

\* Slots is inductive.
LEMMA SlotsStep == ShapeInv /\ PlacesInv /\ SlotsInv /\ [Next]_vars => SlotsInv'
<1> SUFFICES ASSUME ShapeInv, PlacesInv, SlotsInv, [Next]_vars PROVE SlotsInv'
  OBVIOUS
<1>1. ASSUME NEW l \in Loaders, NEW k \in LoadKeys, Load(l, k) \/ Prime(l, k)
      PROVE  SlotsInv'
  <2>1. /\ many' = many /\ subscribers' = subscribers /\ calls' = calls
        /\ \E st \in {"pending", "resolved"}, v \in {None, Primed} : NewTicket(l, k, st, v)
    BY <1>1 DEF Load, Prime, EnqueueLoadMiss
  <2>2. PICK st \in {"pending", "resolved"}, v \in {None, Primed} : NewTicket(l, k, st, v)
    BY <2>1
  <2>3. \A u \in Tickets : u # made' => status'[u] = status[u]
    BY <2>2, NewTicketHolds DEF Values
  <2>4. \A u \in Tickets : Exists(u) => u # made'
    BY <2>2, ConstantFacts, HeldFacts DEF NewTicket, Exists
  <2> QED BY <2>1, <2>3, <2>4, IdleSlots
<1>2. ASSUME NEW l \in Loaders, ClearAll(l) \/ \E k \in LoadKeys : Clear(l, k)
      PROVE  SlotsInv'
  BY <1>2, IdleSlots DEF ClearAll, Clear
<1>3. ASSUME NEW l \in Loaders, NEW keys \in ManyKeys, LoadMany(l, keys)
      PROVE  SlotsInv'
  BY <1>3, LoadManySlots
<1>4. ASSUME NEW l \in Loaders, Dispatch(l)
      PROVE  SlotsInv'
  BY <1>4, PushSlots DEF Dispatch
<1>5. CASE LoadManyNext
  BY <1>5, LoopSlots
<1>6. CASE CallBatch \/ NextEntry \/ \E reply \in {"values", "dies"} : BatchReturns(reply)
  BY <1>6, QuietLoopSlots
<1>7. CASE SettleTicket
  BY <1>7, SettleSlots
<1>8. CASE NotifySubscriber
  BY <1>8, NotifySlots
<1>9. CASE DispatchReturns
  BY <1>9, ReturnSlots
<1>10. CASE OnStall \/ StallNextRound \/ StallReturns \/ UNCHANGED vars
  <2>1. UNCHANGED <<many, subscribers, calls, status>>
    BY <1>10 DEF OnStall, StallNextRound, StallReturns, tickets, vars
  <2> QED BY <2>1, IdleSlots
<1>11. CASE StallDispatch
  <2> DEFINE l == Head(hooks).loader
  <2>1. CASE queue[l] = <<>>
    <3>1. UNCHANGED <<many, subscribers, calls, status>>
      BY <2>1, <1>11 DEF StallDispatch, tickets
    <3> QED BY <3>1, IdleSlots
  <2>2. CASE queue[l] # <<>>
    <3>1. /\ l \in Loaders /\ TakeQueue(l)
          /\ UNCHANGED <<tickets, subscribers, many>>
      BY <2>2, <1>11 DEF StallDispatch
    <3> QED BY <3>1, PushSlots
  <2> QED BY <2>1, <2>2
<1> QED
  BY <1>1, <1>2, <1>3, <1>4, <1>5, <1>6, <1>7, <1>8, <1>9, <1>10, <1>11
  DEF Next, UserStep, DispatchStep, HookStep

\* Before any call no slot waits.
LEMMA SlotsInit == Init => SlotsInv
<1> SUFFICES ASSUME Init PROVE SlotsInv
  OBVIOUS
<1>1. many = <<>> /\ calls = <<>> /\ Len(<<>>) = 0
  BY EmptySeq DEF Init
<1>2. SubscribersOK
  BY <1>1 DEF Init, SubscribersOK, SlotsOK
<1> QED BY <1>1, <1>2 DEF SlotsInv, WaitingOK, DeliveredOK, CountdownOK

\* Slots holds in every reachable state, on top of Shape and Places.
LEMMA SlotsHold == Spec => [](ShapeInv /\ PlacesInv /\ SlotsInv)
BY SlotsInit, SlotsStep, PlacesHold, PTL DEF Spec

\* load_many resolves when, and only when, every key has called back: in every
\* reachable state the countdown of every call is the number of keys that have
\* not, and every other slot holds the outcome of its own key's ticket, though
\* keys repeat, are cached, or settle while the loop is still subscribing.
THEOREM CountdownsAreExact == Spec => []LoadManyCountsDown
<1>1. ShapeInv /\ SlotsInv => LoadManyCountsDown
  <2> SUFFICES ASSUME ShapeInv, SlotsInv, NEW c \in 1 .. Len(many)
               PROVE  LET m == many[c]
                          done == (1 .. m.at) \ Undelivered(c)
                      IN  /\ m.remaining = Len(m.keys) - Cardinality(done)
                          /\ \A i \in done : /\ Settled(m.waits[i])
                                             /\ m.results[i] = Outcome(m.waits[i])
    BY DEF LoadManyCountsDown
  <2>1. ASSUME NEW i \in 1 .. many[c].at
        PROVE  i \in Undelivered(c) <=> Waits(c, i)
    BY DEF Undelivered, Waits, Subscribed, Calling, Slot
  <2>2. (1 .. many[c].at) \ Undelivered(c) = Done(c)
    BY <2>1 DEF Done
  <2> QED BY <2>2 DEF SlotsInv, DeliveredOK, CountdownOK
<1> QED BY <1>1, SlotsHold, PTL

=============================================================================
