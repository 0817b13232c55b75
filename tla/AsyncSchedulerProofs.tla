--------------------------- MODULE AsyncSchedulerProofs ---------------------------
(***************************************************************************)
(* Proofs about AsyncScheduler, for every selection: a block whose loop    *)
(* runs is left alone unless it has adopted a pending list, a callback     *)
(* points at the entry it settles unless resolvers settle promises, and    *)
(* what is written stays.  They rest on CallsHold and FieldsHold.          *)
(***************************************************************************)
EXTENDS AsyncSchedulerFields

-----------------------------------------------------------------------------
(* The life of a block                                                     *)

\* Block b has adopted a pending list, whose items may enqueue b at any time.
Adopted(b) == \E f \in owned : Home(f) = b

\* The operation loop of block b has returned, as far as its callers can tell.
Rests(b) == life[b] \in {"suspended", "done"} \/ Adopted(b)

HasLoop(b) == \E n \in Depths : At(n, "block") /\ stack[n].block = b
LoopRuns(b) ==
  \E n \in Depths : /\ At(n, "block") /\ stack[n].block = b
                    /\ stack[n].index <= Len(Ops[b])
Resolving(b) == \E n \in Depths : At(n, "resolve") /\ stack[n].block = b

\* A block runs while its loop does, and rests when its loop has finalized it.
LoopsLive ==
  /\ \A b \in Blocks : LoopRuns(b) => life[b] = "running" \/ Adopted(b)
  /\ \A n \in Depths : At(n, "block") /\ stack[n].index > Len(Ops[stack[n].block]) =>
       life[stack[n].block] \in {"suspended", "done"}
  /\ \A b \in Blocks : life[b] = "running" => HasLoop(b)

\* What is enqueued, processed, resolved, armed or returned rests.
WaitsRest ==
  /\ \A n \in Depths : At(n, "process") \/ At(n, "resolve") => Rests(stack[n].block)
  /\ \A b \in Blocks : b \in Range(ready) => Rests(b)
  /\ \A f \in Fields : ctx[f] # 0 => Rests(Home(f))
  /\ ret # None /\ ret.kind = "frame" => Rests(ret.of)

\* Nothing waits in a frame that is resolved, or has been.
DoneEmpty ==
  \A b \in Blocks : life[b] = "done" \/ Resolving(b) => entries[b] = <<>> \/ Adopted(b)

LivesInv == LoopsLive /\ WaitsRest /\ DoneEmpty

-----------------------------------------------------------------------------
(* What a step has to respect                                              *)

\* Lives go on: a loop that is left, or goes past its operations, has been
\* finalized; what starts has a loop.
LivesGo(T, U) ==
  /\ owned \subseteq owned'
  /\ \A b \in Blocks : /\ life[b] \in {"suspended", "done"} =>
                            life'[b] \in {"suspended", "done"}
                       /\ life[b] = "running" =>
                            life'[b] = "running" \/ Adopted(b) \/ ~LoopRuns(b)'
                       /\ life'[b] = "running" => life[b] = "running" \/ HasLoop(b)'
  /\ \A t \in T : t.at = "block" /\ t.index > Len(Ops[t.block]) =>
       life'[t.block] \in {"suspended", "done"}
  /\ Running("block") => /\ \/ Len(stack) \in Depths'
                            \/ life'[Innermost.block] \in {"suspended", "done"}
                         /\ \A t \in T : t.at = "block"
  /\ \A u \in U : /\ u.at = "block" => u.index = 0 /\ life'[u.block] = "running"
                  /\ u.at = "process" => Rests(u.block)

\* What is newly enqueued, armed or returned rests.
WaitsGo ==
  /\ \A b \in Blocks : b \in Range(ready') => b \in Range(ready) \/ Rests(b)'
  /\ \A f \in Fields : ctx'[f] # 0 => ctx[f] # 0 \/ Rests(Home(f))'
  /\ ret' # None /\ ret'.kind = "frame" => Rests(ret.of)'

\* Nothing is entered where nothing may be.
EmptyGoes(T) ==
  /\ \A t \in T : t.at = "resolve" => entries'[t.block] = <<>>
  /\ \A b \in Blocks : life'[b] = "done" =>
       life[b] = "done" \/ Resolving(b) \/ entries'[b] = <<>>
  /\ \A b \in Blocks : (life[b] = "done" \/ Resolving(b)) /\ entries[b] = <<>> =>
       entries'[b] = <<>> \/ Adopted(b)

\* A frame that rests, or has adopted a list, still does after the step.
LEMMA RestsStays ==
  ASSUME NEW T, NEW U, LivesGo(T, U)
  PROVE  \A b \in Blocks : (Adopted(b) => Adopted(b)') /\ (Rests(b) => Rests(b)')
BY DEF LivesGo, Adopted, Rests

\* A loop that runs has a running block after the step as well.
LEMMA LoopsLiveGo ==
  ASSUME TypesInv, CallsInv, FieldsInv, LivesInv, TypesInv', NEW T, NEW U, Moves(T, U),
         \A t \in T : Onward(t), \A u \in U : Starts(u), LivesGo(T, U)
  PROVE  LoopsLive'
<1>1. \A b \in Blocks : (Adopted(b) => Adopted(b)') /\ (Rests(b) => Rests(b)')
  BY RestsStays
<1>2. ASSUME NEW n \in Depths', At(n, "block")'
      PROVE  /\ stack'[n].at = "block" /\ stack'[n].block \in Blocks
             /\ stack'[n].index \in Nat /\ Len(Ops[stack'[n].block]) \in Nat
  <2>1. stack'[n] \in Calls /\ stack'[n].at = "block"
    BY <1>2 DEF Depths, TypesInv, At
  <2> QED BY <2>1, CallTypes, TypesAssumption
<1>3. ASSUME NEW n \in Depths, At(n, "block")
      PROVE  /\ stack[n].at = "block" /\ stack[n].block \in Blocks
             /\ stack[n].index \in Nat /\ Len(Ops[stack[n].block]) \in Nat
  <2>1. stack[n] \in Calls /\ stack[n].at = "block"
    BY <1>3 DEF Depths, TypesInv, At
  <2> QED BY <2>1, CallTypes, TypesAssumption
<1>4. ASSUME NEW b \in Blocks, LoopRuns(b)'
      PROVE  life'[b] = "running" \/ Adopted(b)'
  <2>1. PICK n \in Depths' : /\ At(n, "block")' /\ stack'[n].block = b
                             /\ stack'[n].index <= Len(Ops[b])
    BY <1>4 DEF LoopRuns
  <2>2. stack'[n].at = "block" /\ stack'[n].index \in Nat /\ Len(Ops[b]) \in Nat
    BY <1>2, <2>1
  <2>3. CASE n \in Depths /\ stack'[n] = stack[n] /\ (Calling(n) => Calling(n)')
             /\ \A at : At(n, at) <=> At(n, at)'
    <3>1. LoopRuns(b)
      BY <2>1, <2>3 DEF LoopRuns
    <3>2. life[b] = "running" \/ Adopted(b)
      BY <3>1 DEF LivesInv, LoopsLive
    <3> QED BY <1>1, <1>4, <3>2 DEF LivesGo
  <2>4. CASE n \in Depths /\ n = Len(stack) /\ stack'[n] \in T /\ Innermost = stack[n]
             /\ \A at : At(n, at) <=> Innermost.at = at
    <3>1. At(n, "block") /\ stack[n].block = b /\ stack'[n].index > stack[n].index
      BY <2>1, <2>2, <2>4 DEF Onward
    <3>2. stack[n].index <= Len(Ops[b])
      BY <1>3, <2>1, <2>2, <2>4, <3>1
    <3>3. LoopRuns(b)
      BY <2>4, <3>1, <3>2 DEF LoopRuns
    <3>4. life[b] = "running" \/ Adopted(b)
      BY <3>3 DEF LivesInv, LoopsLive
    <3> QED BY <1>1, <1>4, <3>4 DEF LivesGo
  <2>5. CASE n \notin Depths /\ n = Len(stack) + 1 /\ stack'[n] \in U
    BY <2>1, <2>2, <2>5 DEF LivesGo
  <2> QED BY <2>3, <2>4, <2>5, MovedCall
<1>5. ASSUME NEW n \in Depths', At(n, "block")', stack'[n].index > Len(Ops[stack'[n].block])
      PROVE  life'[stack'[n].block] \in {"suspended", "done"}
  <2>1. /\ stack'[n].at = "block" /\ stack'[n].index \in Nat /\ stack'[n].block \in Blocks
        /\ Len(Ops[stack'[n].block]) \in Nat
    BY <1>2, <1>5
  <2>2. CASE n \in Depths /\ stack'[n] = stack[n] /\ (Calling(n) => Calling(n)')
             /\ \A at : At(n, at) <=> At(n, at)'
    <3>1. life[stack[n].block] \in {"suspended", "done"}
      BY <1>5, <2>2 DEF LivesInv, LoopsLive
    <3> QED BY <2>1, <2>2, <3>1 DEF LivesGo
  <2>3. CASE n \in Depths /\ n = Len(stack) /\ stack'[n] \in T /\ Innermost = stack[n]
             /\ \A at : At(n, at) <=> Innermost.at = at
    BY <1>5, <2>1, <2>3 DEF LivesGo
  <2>4. CASE n \notin Depths /\ n = Len(stack) + 1 /\ stack'[n] \in U
    <3>1. stack'[n].index = 0
      BY <2>1, <2>4 DEF LivesGo
    <3> QED BY <1>5, <2>1, <3>1
  <2> QED BY <2>2, <2>3, <2>4, MovedCall
<1>6. ASSUME NEW b \in Blocks, life'[b] = "running"
      PROVE  HasLoop(b)'
  <2>1. CASE life[b] # "running"
    BY <1>6, <2>1 DEF LivesGo
  <2>2. CASE life[b] = "running"
    <3>1. PICK n \in Depths : At(n, "block") /\ stack[n].block = b
      BY <2>2 DEF LivesInv, LoopsLive, HasLoop
    <3>2. CASE CallStays(n)
      BY <3>1, <3>2 DEF CallStays, HasLoop, At
    <3>3. CASE n = Len(stack) /\ n \notin Depths'
      <4>1. Running("block") /\ Innermost.block = b
        BY <3>1, <3>3 DEF Running, Innermost, At, Depths
      <4> QED BY <1>6, <3>3, <4>1 DEF LivesGo
    <3>4. CASE n = Len(stack) /\ n \in Depths' /\ stack'[n] \in T
      <4>1. Innermost = stack[n] /\ Running("block")
        BY <3>1, <3>4 DEF Running, Innermost, At, Depths
      <4>2. stack'[n].at = "block" /\ stack'[n].block = b
        BY <3>1, <3>4, <4>1 DEF LivesGo, Onward
      <4> QED BY <3>4, <4>2 DEF HasLoop, At
    <3> QED BY <3>2, <3>3, <3>4 DEF Moves
  <2> QED BY <2>1, <2>2
<1> QED BY <1>4, <1>5, <1>6 DEF LoopsLive

\* The layer about running and resting frames is kept by a step that lets
\* nothing rest that runs.
LEMMA LivesKeep ==
  ASSUME TypesInv, CallsInv, FieldsInv, LivesInv, TypesInv', NEW T, NEW U, Moves(T, U),
         \A t \in T : Onward(t), \A u \in U : Starts(u), LivesGo(T, U), WaitsGo, EmptyGoes(T)
  PROVE  LivesInv'
<1>1. \A b \in Blocks : (Adopted(b) => Adopted(b)') /\ (Rests(b) => Rests(b)')
  BY RestsStays
<1>2. LoopsLive'
  BY LoopsLiveGo
<1>3. ASSUME NEW n \in Depths', At(n, "process")' \/ At(n, "resolve")'
      PROVE  \E b \in Blocks : b = stack'[n].block /\ Rests(b)'
  <2>1. PICK b \in Blocks : b = stack'[n].block /\ stack'[n].at \in {"process", "resolve"}
    <3>1. stack'[n] \in Calls /\ stack'[n].at \in {"process", "resolve"}
      BY <1>3 DEF Depths, TypesInv, At
    <3> QED BY <3>1, CallTypes
  <2>2. CASE n \in Depths /\ stack'[n] = stack[n] /\ (Calling(n) => Calling(n)')
             /\ \A at : At(n, at) <=> At(n, at)'
    <3>1. At(n, "process") \/ At(n, "resolve")
      BY <1>3, <2>2
    <3>2. Rests(stack[n].block)
      BY <2>2, <3>1 DEF LivesInv, WaitsRest
    <3>3. Rests(b)
      BY <2>1, <2>2, <3>2
    <3> QED BY <1>1, <2>1, <3>3
  <2>3. CASE n \in Depths /\ n = Len(stack) /\ stack'[n] \in T /\ Innermost = stack[n]
             /\ \A at : At(n, at) <=> Innermost.at = at
    <3>1. At(n, "process") /\ stack'[n].block = stack[n].block
      BY <2>1, <2>3 DEF Onward
    <3>2. Rests(stack[n].block)
      BY <2>3, <3>1 DEF LivesInv, WaitsRest
    <3>3. Rests(b)
      BY <2>1, <3>1, <3>2
    <3> QED BY <1>1, <2>1, <3>3
  <2>4. CASE n \notin Depths /\ n = Len(stack) + 1 /\ stack'[n] \in U
    <3>1. stack'[n].at = "process"
      BY <2>1, <2>4 DEF Starts
    <3>2. Rests(b)
      BY <2>1, <2>4, <3>1 DEF LivesGo
    <3> QED BY <1>1, <2>1, <3>2
  <2> QED BY <2>2, <2>3, <2>4, MovedCall
<1>4. ASSUME NEW b \in Blocks, Resolving(b)'
      PROVE  Resolving(b) \/ entries'[b] = <<>>
  <2>1. PICK n \in Depths' : At(n, "resolve")' /\ stack'[n].block = b /\ stack'[n].at = "resolve"
    BY <1>4 DEF Resolving, At
  <2>2. CASE n \in Depths /\ stack'[n] = stack[n] /\ (Calling(n) => Calling(n)')
             /\ \A at : At(n, at) <=> At(n, at)'
    BY <2>1, <2>2 DEF Resolving
  <2>3. CASE n \in Depths /\ n = Len(stack) /\ stack'[n] \in T /\ Innermost = stack[n]
             /\ \A at : At(n, at) <=> Innermost.at = at
    BY <2>1, <2>3 DEF EmptyGoes
  <2>4. CASE n \notin Depths /\ n = Len(stack) + 1 /\ stack'[n] \in U
    BY <2>1, <2>4 DEF Starts
  <2> QED BY <2>2, <2>3, <2>4, MovedCall
<1>5. ASSUME NEW b \in Blocks, life'[b] = "done" \/ Resolving(b)'
      PROVE  entries'[b] = <<>> \/ Adopted(b)'
  <2>1. CASE life[b] = "done" \/ Resolving(b)
    <3>1. entries[b] = <<>> \/ Adopted(b)
      BY <2>1 DEF LivesInv, DoneEmpty
    <3> QED BY <1>1, <2>1, <3>1 DEF EmptyGoes
  <2>2. CASE ~(life[b] = "done" \/ Resolving(b))
    BY <1>4, <1>5, <2>2 DEF EmptyGoes
  <2> QED BY <2>1, <2>2
<1>6. WaitsRest'
  <2>1. \A b \in Blocks : b \in Range(ready') => Rests(b)'
    BY <1>1 DEF WaitsGo, LivesInv, WaitsRest
  <2>2. \A f \in Fields : ctx'[f] # 0 => Rests(Home(f))'
    BY <1>1, HomeFacts DEF WaitsGo, LivesInv, WaitsRest
  <2>3. ret' # None /\ ret'.kind = "frame" => Rests(ret.of)'
    BY DEF WaitsGo
  <2>4. \A n \in Depths' : At(n, "process")' \/ At(n, "resolve")' => Rests(stack[n].block)'
    BY <1>3
  <2> QED BY <2>1, <2>2, <2>3, <2>4 DEF WaitsRest
<1>7. DoneEmpty'
  BY <1>5 DEF DoneEmpty
<1> QED BY <1>2, <1>6, <1>7 DEF LivesInv

-----------------------------------------------------------------------------
(* Who points at an entry                                                  *)

\* A promise is settled when nothing else is going on.
SettlesFirst == \A n \in Depths : At(n, "settle") => n = 1

PointsInv == SettlesFirst /\ CallbackPointsAtEntry

\* Nobody points elsewhere than before, but for the entry of field f.
OthersPoint(f) ==
  /\ \A g \in Fields : g # f => ctx'[g] = ctx[g]
  /\ \A c \in Blocks : ~IsChild(c, f) => link'[c] = link[c]
  /\ owned \subseteq owned'

\* Callbacks and child frames point as they did.
PointsStay ==
  ctx' = ctx /\ link' = link /\ owned \subseteq owned'

\* After the step, whoever settles a waiting entry holds its index.
EntriesPoint ==
  \A b \in Blocks : \A i \in 1 .. Len(entries'[b]) : \A e \in EntrySet :
    e = entries'[b][i] => Handled(b, i)' \/ PointsAt(e, i)'
NextsPoint ==
  \A n \in Depths' : stack'[n].at = "process" =>
    \A i \in 1 .. Len(stack'[n].next) : \A e \in EntrySet :
      e = stack'[n].next[i] => PointsAt(e, i)'

\* The rebuilt arrays that there were are still pointed at.
NextsStay ==
  \A n \in Depths : At(n, "process") =>
    \A i \in 1 .. Len(stack[n].next) : \A e \in EntrySet :
      e = stack[n].next[i] => PointsAt(e, i)'

\* Arrays and pointers that stay keep who points where.
LEMMA StillPoints ==
  ASSUME PointsStay, NEW e, NEW i, PointsAt(e, i)
  PROVE  PointsAt(e, i)'
BY DEF PointsStay, PointsAt

\* So do those of the fields the step is not about.
LEMMA OthersStillPoint ==
  ASSUME NEW f \in Fields, OthersPoint(f), NEW e \in EntrySet, EntryOK(e), e.field # f,
         NEW i, PointsAt(e, i)
  PROVE  PointsAt(e, i)'
<1>1. e.field \in Fields
  BY EntryFacts
<1>2. CASE e.kind = "promise"
  BY <1>1, <1>2 DEF PointsAt, OthersPoint
<1>3. CASE e.kind = "block"
  <2>1. 1 \in 1 .. Len(Children[e.field]) /\ Children[e.field][1] \in Blocks
    BY <1>1, <1>3, ChildFacts DEF EntryOK
  <2>2. ~IsChild(Children[e.field][1], f)
    <3>1. SUFFICES ASSUME IsChild(Children[e.field][1], f) PROVE FALSE
      OBVIOUS
    <3>2. 1 \in 1 .. Len(Children[f]) /\ Children[f][1] = Children[e.field][1]
      BY <3>1, ChildFacts DEF IsChild
    <3> QED BY <1>1, <2>1, <3>2, TreeAssumption
  <2> QED BY <1>3, <2>1, <2>2 DEF PointsAt, OthersPoint
<1>4. CASE e.kind = "list"
  BY <1>4 DEF PointsAt, OthersPoint
<1> QED BY <1>2, <1>3, <1>4 DEF PointsAt

\* What CallbackPointsAtEntry says, entry by entry.
LEMMA PointsFacts ==
  ASSUME TypesInv, FieldsInv, CallbackPointsAtEntry
  PROVE  /\ \A b \in Blocks : \A i \in 1 .. Len(entries[b]) :
              /\ entries[b][i] \in EntrySet /\ EntryOK(entries[b][i]) /\ i \in Nat
              /\ entries[b][i].field \in Fields /\ Home(entries[b][i].field) = b
              /\ Handled(b, i) \/ PointsAt(entries[b][i], i)
         /\ \A n \in Depths : At(n, "process") => \A i \in 1 .. Len(stack[n].next) :
              /\ stack[n].next[i] \in EntrySet /\ EntryOK(stack[n].next[i]) /\ i \in Nat
              /\ stack[n].next[i].field \in Fields
              /\ PointsAt(stack[n].next[i], i)
<1>1. ASSUME NEW b \in Blocks, NEW i \in 1 .. Len(entries[b])
      PROVE  /\ entries[b][i] \in EntrySet /\ EntryOK(entries[b][i]) /\ i \in Nat
             /\ entries[b][i].field \in Fields /\ Home(entries[b][i].field) = b
             /\ Handled(b, i) \/ PointsAt(entries[b][i], i)
  <2>1. entries[b][i] \in EntrySet
    BY DEF TypesInv
  <2> QED BY <2>1, EntryFacts DEF FieldsInv, ArraysOK, ArrayOK, CallbackPointsAtEntry
<1>2. ASSUME NEW n \in Depths, At(n, "process"), NEW i \in 1 .. Len(stack[n].next)
      PROVE  /\ stack[n].next[i] \in EntrySet /\ EntryOK(stack[n].next[i]) /\ i \in Nat
             /\ stack[n].next[i].field \in Fields /\ PointsAt(stack[n].next[i], i)
  <2>1. stack[n] \in Calls /\ stack[n].at = "process" /\ n \in 1 .. Len(stack)
    BY <1>2 DEF TypesInv, Depths, At
  <2>2. stack[n].next[i] \in EntrySet
    BY <2>1, CallTypes
  <2> QED BY <1>2, <2>1, <2>2, EntryFacts DEF FieldsInv, ArraysOK, ArrayOK, CallbackPointsAtEntry
<1> QED BY <1>1, <1>2

\* A promise is settled by the event loop or the hook with nothing below it
\* on the stack.
LEMMA SettlesFirstKeeps ==
  ASSUME TypesInv, TypesInv', NEW T, NEW U, Moves(T, U), SettlesFirst,
         \A t \in T : t.at = "settle" => Innermost.at = "settle",
         \A u \in U : u.at = "settle" => stack = <<>>
  PROVE  SettlesFirst'
<1>1. SUFFICES ASSUME NEW n \in Depths', At(n, "settle")' PROVE n = 1
  BY DEF SettlesFirst
<1>2. stack'[n].at = "settle"
  BY <1>1 DEF At
<1>3. CASE n \in Depths /\ stack'[n] = stack[n] /\ (Calling(n) => Calling(n)')
           /\ \A at : At(n, at) <=> At(n, at)'
  BY <1>1, <1>3 DEF SettlesFirst
<1>4. CASE n \in Depths /\ n = Len(stack) /\ stack'[n] \in T /\ Innermost = stack[n]
           /\ \A at : At(n, at) <=> Innermost.at = at
  BY <1>2, <1>4 DEF SettlesFirst
<1>5. CASE n \notin Depths /\ n = Len(stack) + 1 /\ stack'[n] \in U
  BY <1>2, <1>5
<1> QED BY <1>3, <1>4, <1>5, MovedCall

\* The layer about pointers, from its parts after the step.
LEMMA PointsNext ==
  ASSUME TypesInv', SettlesFirst', EntriesPoint, NextsPoint
  PROVE  PointsInv'
<1>1. ASSUME NEW b \in Blocks, NEW i \in 1 .. Len(entries'[b])
      PROVE  Handled(b, i)' \/ PointsAt(entries[b][i], i)'
  <2>1. PICK e \in EntrySet : e = entries'[b][i]
    BY DEF TypesInv
  <2>2. Handled(b, i)' \/ PointsAt(e, i)'
    BY <2>1 DEF EntriesPoint
  <2> QED BY <2>1, <2>2 DEF PointsAt
<1>2. ASSUME NEW n \in 1 .. Len(stack'), stack'[n].at = "process",
             NEW i \in 1 .. Len(stack'[n].next)
      PROVE  PointsAt(stack[n].next[i], i)'
  <2>1. PICK e \in EntrySet : e = stack'[n].next[i]
    <3>1. stack'[n] \in Calls
      BY DEF TypesInv
    <3> QED BY <1>2, <3>1, CallTypes
  <2>2. PointsAt(e, i)'
    BY <1>2, <2>1 DEF NextsPoint, Depths
  <2> QED BY <2>1, <2>2 DEF PointsAt
<1>3. CallbackPointsAtEntry'
  BY <1>1, <1>2 DEF CallbackPointsAtEntry
<1> QED BY <1>3 DEF PointsInv

\* The rebuilt arrays are those there were, or empty.
LEMMA NextsPointOn ==
  ASSUME TypesInv, TypesInv', NextsGrow, NextsStay
  PROVE  NextsPoint
<1>1. SUFFICES ASSUME NEW n \in Depths', stack'[n].at = "process",
                      NEW i \in 1 .. Len(stack'[n].next), NEW e \in EntrySet,
                      e = stack'[n].next[i]
               PROVE  PointsAt(e, i)'
  BY DEF NextsPoint
<1>2. At(n, "process")' /\ stack'[n].next # <<>>
  BY <1>1 DEF At
<1>3. n \in Depths /\ At(n, "process") /\ stack'[n].next = stack[n].next
  BY <1>1, <1>2 DEF NextsGrow
<1> QED BY <1>1, <1>3 DEF NextsStay

\* A step that moves no entry and leaves the pointers alone.
LEMMA PointsCalm ==
  ASSUME TypesInv, CallsInv, FieldsInv, TypesInv', NEW T, NEW U, Moves(T, U), StepsOK(T, U),
         \A t \in T : t.at = "settle" => Innermost.at = "settle",
         \A u \in U : u.at = "settle" => stack = <<>>,
         PointsStay,
         \A b \in Blocks :
           /\ Len(entries'[b]) = Len(entries[b])
           /\ \A i \in 1 .. Len(entries[b]) :
                entries'[b][i] = entries[b][i] \/ entries'[b][i].state # "armed"
  PROVE  PointsInv => PointsInv'
<1>1. SUFFICES ASSUME SettlesFirst, CallbackPointsAtEntry PROVE PointsInv'
  BY DEF PointsInv
<1>2. HandledKept
  BY MovesHandled DEF StepsOK
<1>3. ASSUME NEW b \in Blocks, NEW i \in 1 .. Len(entries'[b]), NEW e \in EntrySet,
             e = entries'[b][i]
      PROVE  Handled(b, i)' \/ PointsAt(e, i)'
  <2>1. i \in 1 .. Len(entries[b]) /\ i \in Nat
    OBVIOUS
  <2>2. Handled(b, i) \/ PointsAt(entries[b][i], i)
    BY <1>1, <2>1, PointsFacts
  <2>3. CASE Handled(b, i)
    BY <1>2, <2>1, <2>3 DEF HandledKept
  <2>4. CASE e.state # "armed"
    BY <2>4 DEF PointsAt
  <2>5. CASE PointsAt(entries[b][i], i) /\ entries'[b][i] = entries[b][i]
    <3>1. PointsAt(e, i)
      BY <1>3, <2>5
    <3> QED BY <3>1, StillPoints
  <2> QED BY <1>3, <2>1, <2>2, <2>3, <2>4, <2>5
<1>4. NextsStay
  <2>1. ASSUME NEW n \in Depths, At(n, "process"), NEW i \in 1 .. Len(stack[n].next),
               NEW e \in EntrySet, e = stack[n].next[i]
        PROVE  PointsAt(e, i)'
    <3>1. PointsAt(e, i)
      BY <1>1, <2>1, PointsFacts
    <3> QED BY <3>1, StillPoints
  <2> QED BY <2>1 DEF NextsStay
<1>5. NextsPoint
  BY <1>4, StepNexts, NextsPointOn
<1>6. SettlesFirst'
  BY <1>1, SettlesFirstKeeps
<1> QED BY <1>3, <1>5, <1>6, PointsNext DEF EntriesPoint

\* Arming a frame: the callback pair of each entry armed holds its index.
LEMMA ArmPoints ==
  ASSUME TypesInv, FieldsInv, NEW b \in Blocks, NEW es \in Seq(EntrySet), ArmFrame(b, es),
         ArrayOK(es), \A i \in 1 .. Len(es) : Home(es[i].field) = b,
         link' = link, owned' = owned
  PROVE  /\ \A i \in 1 .. Len(es) : PointsAt(es[i], i) =>
              \A e \in EntrySet : e = entries'[b][i] => PointsAt(e, i)'
         /\ \A e \in EntrySet : \A i : Home(e.field) # b /\ PointsAt(e, i) => PointsAt(e, i)'
<1>1. \A f \in Fields : ctx'[f] = IF ArmsAt(es, f) # {} THEN CHOOSE i \in ArmsAt(es, f) : TRUE
                                  ELSE ctx[f]
  BY DEF ArmFrame
<1>2. ASSUME NEW i \in 1 .. Len(es), PointsAt(es[i], i), NEW e \in EntrySet, e = entries'[b][i]
      PROVE  PointsAt(e, i)'
  <2>1. PICK d \in EntrySet : d = es[i] /\ EntryOK(d) /\ d.field \in Fields
    BY EntryFacts DEF ArrayOK
  <2>2. e = ArmedEntry(d) /\ e.field = d.field /\ e.kind = d.kind
    BY <1>2, <2>1, ArmFacts
  <2>3. CASE d.state = "unarmed"
    <3>1. PICK s \in {"ready", "armed"} : s = IF SettledAtOnce(d) THEN "ready" ELSE "armed"
      OBVIOUS
    <3>2. e = Entry(d.field, d.kind, s)
      BY <2>2, <2>3, <3>1 DEF ArmedEntry
    <3>3. e.state = s
      BY <3>2, MadeEntry
    <3>4. CASE s = "ready"
      BY <3>3, <3>4 DEF PointsAt
    <3>5. CASE s = "armed"
      <4>1. d.kind = "promise" /\ ~SettledAtOnce(d)
        BY <2>1, <2>3, <3>1, <3>5 DEF EntryOK
      <4>2. Waits(d)
        BY <2>3, <4>1 DEF Waits
      <4>3. i \in ArmsAt(es, d.field)
        BY <2>1, <2>3, <4>2 DEF ArmsAt
      <4>4. \A j \in ArmsAt(es, d.field) : j = i
        BY <2>1 DEF ArmsAt, ArrayOK
      <4>5. ctx'[d.field] = i
        BY <1>1, <2>1, <4>3, <4>4
      <4> QED BY <2>2, <4>1, <4>5 DEF PointsAt
    <3> QED BY <3>4, <3>5
  <2>4. CASE d.state # "unarmed"
    <3>1. e = d
      BY <2>2, <2>4 DEF ArmedEntry
    <3>2. ArmsAt(es, d.field) = {}
      <4>1. SUFFICES ASSUME NEW j \in ArmsAt(es, d.field) PROVE FALSE
        OBVIOUS
      <4>2. j \in 1 .. Len(es) /\ es[j].field = d.field /\ es[j].state = "unarmed"
        BY <4>1 DEF ArmsAt
      <4>3. j = i
        BY <2>1, <4>2 DEF ArrayOK
      <4> QED BY <2>1, <2>4, <4>2, <4>3
    <3>3. ctx'[d.field] = ctx[d.field]
      BY <1>1, <2>1, <3>2
    <3> QED BY <1>2, <2>1, <3>1, <3>3 DEF PointsAt
  <2> QED BY <2>3, <2>4
<1>3. ASSUME NEW e \in EntrySet, NEW i, Home(e.field) # b, PointsAt(e, i)
      PROVE  PointsAt(e, i)'
  <2>1. ArmsAt(es, e.field) = {}
    BY <1>3 DEF ArmsAt
  <2>2. e.field \in Fields
    BY EntryFacts
  <2>3. ctx'[e.field] = ctx[e.field]
    BY <1>1, <2>1, <2>2
  <2> QED BY <1>3, <2>3 DEF PointsAt
<1> QED BY <1>2, <1>3

\* Frames other than b keep their entries, and are pointed at as before.
LEMMA OtherFrames ==
  ASSUME TypesInv, FieldsInv, CallbackPointsAtEntry, HandledKept, NEW b \in Blocks,
         NEW f \in Fields, Home(f) = b, OthersPoint(f),
         NEW c \in Blocks, c # b, entries'[c] = entries[c],
         NEW i \in 1 .. Len(entries'[c]), NEW e \in EntrySet, e = entries'[c][i]
  PROVE  Handled(c, i)' \/ PointsAt(e, i)'
<1>1. /\ i \in 1 .. Len(entries[c]) /\ e = entries[c][i] /\ i \in Nat
      /\ EntryOK(e) /\ e.field \in Fields /\ Home(e.field) = c
      /\ Handled(c, i) \/ PointsAt(e, i)
  BY PointsFacts
<1>2. CASE Handled(c, i)
  BY <1>1, <1>2 DEF HandledKept
<1>3. CASE PointsAt(e, i)
  BY <1>1, <1>3, OthersStillPoint
<1> QED BY <1>1, <1>2, <1>3

\* Rebuilt arrays without the field are pointed at as before.
LEMMA OtherNexts ==
  ASSUME TypesInv, FieldsInv, CallbackPointsAtEntry, NEW f \in Fields, OthersPoint(f),
         \A kind : ~Moved(f, kind)
  PROVE  NextsStay
<1>1. SUFFICES ASSUME NEW n \in Depths, At(n, "process"), NEW i \in 1 .. Len(stack[n].next),
                      NEW e \in EntrySet, e = stack[n].next[i]
               PROVE  PointsAt(e, i)'
  BY DEF NextsStay
<1>2. EntryOK(e) /\ PointsAt(e, i) /\ e.field \in Fields
  BY <1>1, PointsFacts
<1>3. e.field # f
  BY <1>1 DEF Moved
<1> QED BY <1>2, <1>3, OthersStillPoint

\* The loop of block b enters field f, which whoever settles it points at.
LEMMA AppendPoints ==
  ASSUME TypesInv, CallsInv, FieldsInv, TypesInv', NEW T, NEW U, Moves(T, U), StepsOK(T, U),
         \A t \in T : t.at = "settle" => Innermost.at = "settle",
         \A u \in U : u.at # "settle",
         NEW b \in Blocks, NEW f \in Fields, Home(f) = b, NotHeld(f), OthersPoint(f),
         NEW d \in EntrySet, entries' = [entries EXCEPT ![b] = Append(entries[b], d)],
         NEW k \in Nat, k = Len(entries[b]) + 1, PointsAt(d, k)'
  PROVE  PointsInv => PointsInv'
<1>1. SUFFICES ASSUME SettlesFirst, CallbackPointsAtEntry PROVE PointsInv'
  BY DEF PointsInv
<1>2. HandledKept
  BY MovesHandled DEF StepsOK
<1>3. /\ \A c \in Blocks : c # b => entries'[c] = entries[c]
      /\ Len(entries[b]) \in Nat /\ Len(entries'[b]) = Len(entries[b]) + 1
      /\ \A i \in 1 .. Len(entries[b]) : entries'[b][i] = entries[b][i]
      /\ entries'[b][Len(entries[b]) + 1] = d
  BY AppendedFacts
<1>4. ASSUME NEW i \in 1 .. Len(entries'[b]), NEW e \in EntrySet, e = entries'[b][i]
      PROVE  Handled(b, i)' \/ PointsAt(e, i)'
  <2>1. CASE i = k
    <3>1. e = d
      BY <1>3, <1>4, <2>1
    <3> QED BY <2>1, <3>1
  <2>2. CASE i # k
    <3>1. i \in 1 .. Len(entries[b]) /\ i \in Nat /\ e = entries[b][i]
      BY <1>3, <1>4, <2>2
    <3>2. /\ EntryOK(e) /\ e.field \in Fields /\ e.field # f
          /\ Handled(b, i) \/ PointsAt(e, i)
      BY <1>1, <3>1, PointsFacts DEF NotHeld
    <3>3. CASE Handled(b, i)
      BY <1>2, <3>1, <3>3 DEF HandledKept
    <3>4. CASE PointsAt(e, i)
      BY <3>2, <3>4, OthersStillPoint
    <3> QED BY <3>2, <3>3, <3>4
  <2> QED BY <2>1, <2>2
<1>5. ASSUME NEW c \in Blocks, NEW i \in 1 .. Len(entries'[c]), NEW e \in EntrySet,
             e = entries'[c][i]
      PROVE  Handled(c, i)' \/ PointsAt(e, i)'
  <2>1. CASE c = b
    BY <1>4, <1>5, <2>1
  <2>2. CASE c # b
    BY <1>1, <1>2, <1>3, <1>5, <2>2, OtherFrames
  <2> QED BY <2>1, <2>2
<1>6. \A kind : ~Moved(f, kind)
  BY MovedHeld DEF FieldsInv, NotHeld, HeldAt
<1>7. NextsPoint
  BY <1>1, <1>6, OtherNexts, StepNexts, NextsPointOn
<1>8. SettlesFirst'
  BY <1>1, SettlesFirstKeeps
<1> QED BY <1>5, <1>7, <1>8, PointsNext DEF EntriesPoint

\* The process call moves entry d to the rebuilt array, where it is pointed at.
LEMMA MovePoints ==
  ASSUME TypesInv, CallsInv, FieldsInv, TypesInv', Running("process"), EntriesLeft,
         NEW f \in Fields, f = FieldOf(Len(stack)), OthersPoint(f),
         NEW d \in EntrySet, d.field = f, stack' = MoveTo(d), entries' = entries,
         NEW k \in Nat, k = NextIndex, PointsAt(d, k)'
  PROVE  PointsInv => PointsInv'
<1>1. SUFFICES ASSUME SettlesFirst, CallbackPointsAtEntry PROVE PointsInv'
  BY DEF PointsInv
<1>2. PICK t \in Calls :
        /\ t.at = "process" /\ t.block = Innermost.block /\ t.index = Innermost.index + 1
        /\ t.next = Append(Innermost.next, d)
        /\ Becomes(t) /\ SameCall(t)
  BY MoveToFacts
<1>3. Moves({t}, {})
  BY <1>2, BecomesMoves
<1>4. /\ Innermost.index \in Nat /\ Innermost.next \in Seq(EntrySet)
      /\ Within(Len(stack)) /\ Innermost.block \in Blocks
  BY HereProcess
<1>5. PICK b \in Blocks, i \in Nat \ {0} :
        /\ b = Innermost.block /\ i = Innermost.index + 1
        /\ Home(f) = b /\ HeldAt(f, i) /\ \A kind : ~Moved(f, kind)
  BY <1>4, HereField
<1>6. PICK L \in Nat : /\ L = Len(stack) /\ L \in Depths /\ stack[L] = Innermost
                       /\ L \in Depths' /\ stack'[L] = t /\ Innermost.at = "process"
                       /\ At(L, "process")
  BY <1>2, Here DEF Becomes, Depths
<1>7. HandledKept
  <2>1. ProcessGoes({t})
    BY <1>2, <1>4, <1>6 DEF ProcessGoes
  <2> QED BY <1>3, <2>1, MovesHandled
<1>8. Handled(b, i)'
  BY <1>2, <1>5, <1>6 DEF Handled, Depths
<1>9. ASSUME NEW j \in 1 .. Len(entries'[b]), NEW e \in EntrySet, e = entries'[b][j]
      PROVE  Handled(b, j)' \/ PointsAt(e, j)'
  <2>1. /\ j \in 1 .. Len(entries[b]) /\ j \in Nat /\ e = entries[b][j]
        /\ EntryOK(e) /\ e.field \in Fields
        /\ Handled(b, j) \/ PointsAt(e, j)
    BY <1>1, <1>9, PointsFacts
  <2>2. CASE Handled(b, j)
    BY <1>7, <2>1, <2>2 DEF HandledKept
  <2>3. CASE PointsAt(e, j) /\ e.field # f
    BY <2>1, <2>3, OthersStillPoint
  <2>4. CASE e.field = f
    <3>1. HeldAt(f, j)
      BY <1>5, <2>1, <2>4 DEF HeldAt
    <3>2. j = i
      BY <1>5, <3>1, HeldOnce DEF FieldsInv
    <3> QED BY <1>8, <3>2
  <2> QED BY <2>1, <2>2, <2>3, <2>4
<1>10. ASSUME NEW c \in Blocks, NEW j \in 1 .. Len(entries'[c]), NEW e \in EntrySet,
              e = entries'[c][j]
       PROVE  Handled(c, j)' \/ PointsAt(e, j)'
  <2>1. CASE c = b
    BY <1>9, <1>10, <2>1
  <2>2. CASE c # b
    BY <1>1, <1>5, <1>7, <1>10, <2>2, OtherFrames
  <2> QED BY <2>1, <2>2
<1>11. NextsStay
  BY <1>1, <1>5, OtherNexts
<1>12. ASSUME NEW n \in Depths', stack'[n].at = "process",
              NEW j \in 1 .. Len(stack'[n].next), NEW e \in EntrySet, e = stack'[n].next[j]
       PROVE  PointsAt(e, j)'
  <2>1. CASE n \in Depths /\ stack'[n] = stack[n] /\ (Calling(n) => Calling(n)')
             /\ \A at : At(n, at) <=> At(n, at)'
    <3>1. At(n, "process")
      BY <1>12, <2>1 DEF At
    <3> QED BY <1>11, <1>12, <2>1, <3>1 DEF NextsStay
  <2>2. CASE n = L
    <3>1. stack'[n].next = Append(Innermost.next, d) /\ Len(Innermost.next) \in Nat
      BY <1>2, <1>4, <1>6, <2>2
    <3>2. CASE j = k
      <4>1. e = d
        BY <1>4, <1>12, <3>1, <3>2 DEF NextIndex
      <4> QED BY <3>2, <4>1
    <3>3. CASE j # k
      <4>1. j \in 1 .. Len(stack[n].next) /\ e = stack[n].next[j]
        BY <1>4, <1>6, <1>12, <2>2, <3>1, <3>3 DEF NextIndex
      <4> QED BY <1>6, <1>11, <2>2, <4>1 DEF NextsStay
    <3> QED BY <3>2, <3>3
  <2> QED BY <1>3, <1>6, <2>1, <2>2, MovedCall
<1>13. SettlesFirst'
  BY <1>1, <1>2, <1>3, SettlesFirstKeeps
<1> QED BY <1>10, <1>12, <1>13, PointsNext DEF EntriesPoint, NextsPoint

-----------------------------------------------------------------------------
(* The steps that enter no field                                           *)

\* A step that enters nothing, moves nothing, and starts and ends no block.
LEMMA CalmHolds ==
  ASSUME TypesInv, CallsInv, FieldsInv, LivesInv, TypesInv', NEW T, NEW U, Moves(T, U),
         StepsOK(T, U), UNCHANGED <<life, entries, ctx, link, owned>>,
         \A t \in T : t.at = Innermost.at,
         \A t \in T : t.at = "block" => \/ t.index <= Len(Ops[t.block])
                                        \/ life[t.block] \in {"suspended", "done"},
         Running("block") => \/ Len(stack) \in Depths'
                             \/ life[Innermost.block] \in {"suspended", "done"},
         Innermost.at # "resolve" \/ T = {},
         \A u \in U : /\ u.at # "settle"
                      /\ u.at = "process" => Rests(u.block),
         \A t \in T : t \in Calls,
         WaitsGo
  PROVE  LivesInv' /\ (PointsInv => PointsInv')
<1>1. /\ \A t \in T : Onward(t)
      /\ \A u \in U : Starts(u)
  BY DEF StepsOK
<1>2. LivesGo(T, U)
  <2>1. \A t \in T : t.at = "block" /\ t.index > Len(Ops[t.block]) =>
          life'[t.block] \in {"suspended", "done"}
    <3>1. SUFFICES ASSUME NEW t \in T, t.at = "block", t.index > Len(Ops[t.block])
                   PROVE  life'[t.block] \in {"suspended", "done"}
      OBVIOUS
    <3>2. t.index \in Nat /\ Len(Ops[t.block]) \in Nat
      BY <3>1, CallTypes, TypesAssumption
    <3> QED BY <3>1, <3>2
  <2>2. \A u \in U : u.at # "block"
    BY <1>1 DEF Starts
  <2>3. Running("block") => \A t \in T : t.at = "block"
    BY DEF Running
  <2> QED BY <2>1, <2>2, <2>3 DEF LivesGo
<1>3. EmptyGoes(T)
  BY <1>1 DEF EmptyGoes, Onward
<1>4. LivesInv'
  BY <1>1, <1>2, <1>3, LivesKeep
<1>5. PointsInv => PointsInv'
  BY PointsCalm DEF PointsStay
<1> QED BY <1>4, <1>5

\* A loop that is done with its field, item or entry goes on.
LEMMA AdvanceHolds ==
  ASSUME TypesInv, CallsInv, FieldsInv, LivesInv, TypesInv',
         Running("block") \/ Running("list") \/ Running("process"), Within(Len(stack)),
         NEW U, U \in {{}, {DrainLoop}}, U = {DrainLoop} => ~Running("process"),
         IF U = {} THEN Becomes(Advanced(Innermost))
         ELSE BecomesAndEnters(Advanced(Innermost), DrainLoop),
         UNCHANGED <<life, entries, ctx, link, owned>>, WaitsGo
  PROVE  LivesInv' /\ (PointsInv => PointsInv')
<1>1. PICK L \in Nat : L = Len(stack)
  BY DEF TypesInv
<1>2. PICK t \in Calls :
        /\ Moves({t}, U) /\ StepsOK({t}, U) /\ t.at = Innermost.at
        /\ t.index = Innermost.index + 1 /\ Innermost.index \in Nat
        /\ t.at \in {"block", "process"} => t.block = Innermost.block
        /\ L \in Depths'
  <2>1. \E s \in Calls :
          /\ Moves({s}, U) /\ StepsOK({s}, U) /\ s.at = Innermost.at
          /\ s.index = Innermost.index + 1 /\ Innermost.index \in Nat
          /\ s.at # "settle" /\ \A u \in U : u.at # "settle"
          /\ s.at \in {"block", "process"} => s.block = Innermost.block
          /\ s.at = "process" => s.next = Innermost.next
          /\ L \in Depths' /\ L \in Depths /\ stack'[L] = s
          /\ \A at : At(L, at)' <=> At(L, at)
    BY <1>1, AdvanceSteps
  <2> QED BY <2>1
<1>3. t.at = "block" => t.index <= Len(Ops[t.block])
  <2>1. ASSUME t.at = "block" PROVE t.index <= Len(Ops[t.block])
    <3>1. Running("block")
      BY <1>2, <2>1, Here
    <3> QED BY <1>2, <2>1, <3>1, HereBlock
  <2> QED BY <2>1
<1>4. Innermost.at # "resolve"
  BY Here
<1>5. \A u \in U : u.at = "drain"
  BY MadeOthers
<1> QED BY <1>1, <1>2, <1>3, <1>4, <1>5, CalmHolds

\* Block c starts: its loop is called, and runs.
LEMMA StartHolds ==
  ASSUME TypesInv, CallsInv, FieldsInv, LivesInv, TypesInv', NEW T, NEW u, Moves(T, {u}),
         StepsOK(T, {u}), UNCHANGED <<entries, ctx, link, owned, ready>>, ret' = None,
         \A t \in T : t.at = "settle" /\ Innermost.at = "settle",
         Running("block") => Len(stack) \in Depths',
         NEW c \in Blocks, life' = [life EXCEPT ![c] = "running"],
         u.at = "block", u.block = c, u.index = 0,
         \E n \in Depths' : stack'[n] = u
  PROVE  LivesInv' /\ (PointsInv => PointsInv')
<1>1. /\ \A t \in T : Onward(t)
      /\ \A v \in {u} : Starts(v)
  BY DEF StepsOK
<1>2. /\ life'[c] = "running" /\ life[c] = "none"
      /\ \A b \in Blocks : b # c => life'[b] = life[b]
  BY <1>1 DEF TypesInv, Starts
<1>3. LivesGo(T, {u})
  <2>1. HasLoop(c)'
    BY DEF HasLoop, At
  <2>2. Running("block") => T = {}
    BY DEF Running
  <2> QED BY <1>2, <2>1, <2>2 DEF LivesGo
<1>4. EmptyGoes(T)
  BY <1>2 DEF EmptyGoes
<1>5. WaitsGo
  BY DEF WaitsGo
<1>6. LivesInv'
  BY <1>1, <1>3, <1>4, <1>5, LivesKeep
<1>7. PointsInv => PointsInv'
  BY PointsCalm DEF PointsStay
<1> QED BY <1>6, <1>7

\* What is returned rests.
LEMMA ReturnRests ==
  ASSUME NEW b \in Blocks, Rests(b)', ret' = None \/ ret' = Frame(b)
  PROVE  ret' # None /\ ret'.kind = "frame" => Rests(ret.of)'
<1>1. CASE ret' = None
  BY <1>1
<1>2. CASE ret' = Frame(b)
  <2>1. ret'.of = b
    BY <1>2, ResultFacts
  <2> QED BY <2>1 DEF Rests, Adopted
<1> QED BY <1>1, <1>2

\* The loop that has finalized its block has left it suspended, or done.
LEMMA HereFinalized ==
  ASSUME TypesInv, CallsInv, LivesInv, Running("block"), NEW b \in Blocks,
         Innermost.block = b, Innermost.index > Len(Ops[b])
  PROVE  life[b] \in {"suspended", "done"}
BY Here DEF LivesInv, LoopsLive

\* What runs keeps running and what rests keeps resting, and pointers stay
\* true, by the end of finalize_block after the drain it entered.
LEMMA FinalizeReturnsHolds ==
  ASSUME TypesInv, CallsInv, FieldsInv, LivesInv, TypesInv', NEW b \in Blocks,
         FinalizeReturns(b)
  PROVE  LivesInv' /\ (PointsInv => PointsInv')
<1>1. /\ ret = None /\ Running("block") /\ Innermost.block = b /\ stack # <<>>
      /\ UNCHANGED <<life, entries, ctx, link, owned>>
      /\ Innermost.at = "block" /\ ~Running("process")
  BY Here DEF FinalizeReturns, Finalizing, lists, frames
<1>2. /\ Innermost.index \in Nat /\ Len(Ops[b]) \in Nat
      /\ Innermost.index > Len(Ops[b]) /\ (b \in Roots => Len(stack) = 1)
  BY <1>1, HereBlock, HereStarted DEF FinalizeReturns, Finalizing
<1>3. life[b] \in {"suspended", "done"}
  BY <1>1, <1>2, HereFinalized
<1>4. Rests(b)'
  BY <1>1, <1>3 DEF Rests
<1>5. CASE b \in Roots /\ Finalizing(b, 1) /\ response = None /\ unresolved[b] = 0
  <2>1. EnqueueAndDrain(TRUE, b, ready, Advance) /\ ret' = ret
    BY <1>5 DEF FinalizeReturns
  <2>2. PICK t \in Calls : t = Advanced(Innermost)
        /\ t = OpLoop(b, Innermost.index + 1)
    BY <1>1, HereBlock, MadeCalls DEF Advanced
  <2>3. t.at = "block" /\ t.block = b /\ t.index = Innermost.index + 1
    BY <2>2, MadeBlock
  <2>4. SameCall(t)
    BY <2>3, <1>1 DEF SameCall
  <2>5. EnqueueAndDrain(TRUE, b, ready, Top(t)) /\ ready \in Seq(Blocks \cup {None})
    BY <2>1, <2>2 DEF Advance, TypesInv
  <2>6. /\ Becomes(t) \/ BecomesAndEnters(t, DrainLoop)
        /\ \A c : c \in Range(ready') => c \in Range(ready) \/ c = b
    BY <1>1, <2>5, EnqueueAndDrainFacts
  <2>7. PICK U \in {{}, {DrainLoop}} : Moves({t}, U) /\ StepsOK({t}, U)
    BY <1>1, <2>3, <2>4, <2>6, GoesOnQuietly
  <2>8. \A u \in U : u.at = "drain"
    BY <2>7, MadeOthers
  <2>9. WaitsGo
    BY <1>1, <1>4, <2>1, <2>6 DEF WaitsGo
  <2> QED BY <1>1, <1>3, <2>3, <2>7, <2>8, <2>9, CalmHolds
<1>6. CASE ~(b \in Roots /\ Finalizing(b, 1) /\ response = None /\ unresolved[b] = 0)
  <2>1. /\ stack' = Pop /\ ready' = ready
        /\ ret' = IF b \in Roots THEN None ELSE Frame(b)
    BY <1>6 DEF FinalizeReturns
  <2>2. Leaves
    BY <1>1, <2>1, PopFacts
  <2>3. ret' # None \/ Len(stack) = 1
    BY <1>2, <2>1, ResultFacts
  <2>4. Moves({}, {}) /\ StepsOK({}, {})
    BY <1>1, <2>2, <2>3, ReturnsQuietly
  <2>5. WaitsGo
    <3>1. ret' # None /\ ret'.kind = "frame" => Rests(ret.of)'
      BY <1>4, <2>1, ReturnRests
    <3> QED BY <1>1, <2>1, <3>1 DEF WaitsGo
  <2> QED BY <1>1, <1>3, <2>4, <2>5, CalmHolds
<1> QED BY <1>5, <1>6

\* What runs keeps running and what rests keeps resting, and pointers stay
\* true, by the item loop that takes the frame or the outcome of an item's
\* block.
LEMMA ListTakesResultHolds ==
  ASSUME TypesInv, CallsInv, FieldsInv, LivesInv, TypesInv', NEW f \in Fields,
         ListTakesResult(f)
  PROVE  LivesInv' /\ (PointsInv => PointsInv')
<1>1. /\ ret # None /\ ret' = None /\ Running("list") /\ stack # <<>>
      /\ Within(Len(stack)) /\ stack' = Advance
      /\ UNCHANGED <<life, entries, ctx, link, owned, ready>>
  BY Here DEF ListTakesResult, frames
<1>2. Becomes(Advanced(Innermost))
  <2>1. PICK t \in Calls : t = Advanced(Innermost)
    BY <1>1, Here, AdvancedFacts
  <2> QED BY <1>1, <2>1, TopFacts DEF Advance
<1>3. WaitsGo
  BY <1>1 DEF WaitsGo
<1> QED BY <1>1, <1>2, <1>3, AdvanceHolds

\* What runs keeps running and what rests keeps resting, and pointers stay
\* true, by the return of a list to its caller.
LEMMA ListReturnsHolds ==
  ASSUME TypesInv, CallsInv, FieldsInv, LivesInv, TypesInv', NEW f \in Fields,
         ListComplete(f) \/ ListPends(f)
  PROVE  LivesInv' /\ (PointsInv => PointsInv')
<1>1. /\ ret = None /\ Running("list") /\ stack # <<>> /\ Innermost.at = "list"
      /\ ~Running("process") /\ ~Running("block") /\ stack' = Pop
      /\ UNCHANGED <<life, entries, ctx, link, owned, ready>>
  BY Here DEF ListComplete, ListPends, InItemLoop, Returns, lists, frames
<1>2. ret' # None /\ ret'.kind # "frame"
  <2>1. CASE ListComplete(f)
    <3>1. PICK n \in BOOLEAN : ret' = Outcome(n)
      BY <2>1 DEF ListComplete, Returns, ListNulls
    <3> QED BY <3>1, ResultFacts
  <2>2. CASE ListPends(f)
    <3>1. ret' = [kind |-> "list", of |-> f, null |-> FALSE] /\ f \in Lists
      BY <1>1, <2>2, HereList DEF ListPends, InItemLoop, Returns
    <3>2. ret' \in Results /\ ret'.kind = "list"
      BY <3>1 DEF Results
    <3> QED BY <3>2, ResultFacts
  <2> QED BY <2>1, <2>2
<1>3. Leaves
  BY <1>1, PopFacts
<1>4. Moves({}, {}) /\ StepsOK({}, {})
  BY <1>1, <1>2, <1>3, ReturnsQuietly
<1>5. WaitsGo
  BY <1>1, <1>2 DEF WaitsGo
<1> QED BY <1>1, <1>4, <1>5, CalmHolds

\* What runs keeps running and what rests keeps resting, and pointers stay
\* true, by the return of a settled promise when its callbacks have run.
LEMMA SettleReturnsHolds ==
  ASSUME TypesInv, CallsInv, FieldsInv, LivesInv, TypesInv', SettleReturns
  PROVE  LivesInv' /\ (PointsInv => PointsInv')
<1>1. /\ ret = None /\ Running("settle") /\ stack # <<>> /\ Innermost.at = "settle"
      /\ ~Running("process") /\ ~Running("block") /\ stack' = Pop /\ ret' = ret
      /\ UNCHANGED <<life, entries, ctx, link, owned, ready>>
  BY Here DEF SettleReturns, InSettleLoop, lists, frames
<1>2. Moves({}, {}) /\ StepsOK({}, {})
  BY <1>1, PopFacts, ReturnsQuietly
<1>3. WaitsGo
  BY <1>1 DEF WaitsGo
<1> QED BY <1>1, <1>2, <1>3, CalmHolds

\* What runs keeps running and what rests keeps resting, and pointers stay
\* true, by drain_scheduler that takes the last frame of the queue, or finds
\* it empty.
LEMMA DrainNextHolds ==
  ASSUME TypesInv, CallsInv, FieldsInv, LivesInv, TypesInv', DrainNext
  PROVE  LivesInv' /\ (PointsInv => PointsInv')
<1>1. /\ ret = None /\ Running("drain") /\ stack # <<>> /\ Innermost.at = "drain"
      /\ ~Running("process") /\ ~Running("block")
      /\ ret' = ret /\ ready \in Seq(Blocks \cup {None})
      /\ UNCHANGED <<life, entries, ctx, link, owned>>
  BY Here, OneProcess DEF DrainNext, lists, frames, TypesInv
<1>2. CASE ready = <<>>
  <2>1. stack' = Pop /\ ready' = ready
    BY <1>2 DEF DrainNext
  <2>2. Moves({}, {}) /\ StepsOK({}, {})
    BY <1>1, <2>1, PopFacts, ReturnsQuietly
  <2>3. WaitsGo
    BY <1>1, <2>1 DEF WaitsGo
  <2> QED BY <1>1, <2>2, <2>3, CalmHolds
<1>3. CASE ready # <<>>
  <2>1. PICK n \in Nat : n = Len(ready) /\ n # 0
    BY <1>1, <1>3
  <2>2. /\ ready' = SubSeq(ready, 1, n - 1)
        /\ stack' = IF ready[n] = None THEN stack ELSE Push(ProcessLoop(ready[n], 0, <<>>))
    BY <1>3, <2>1 DEF DrainNext
  <2>3. \A c : c \in Range(ready') => c \in Range(ready)
    <3>1. /\ 1 \in Int /\ n - 1 \in 0 .. Len(ready)
          /\ \A i \in 1 .. n - 1 : i \in 1 .. Len(ready)
      BY <2>1
    <3>2. /\ ready' \in Seq(Blocks \cup {None}) /\ Len(ready') = n - 1
          /\ \A i \in 1 .. n - 1 : ready'[i] = ready[i]
      BY <1>1, <2>1, <2>2, <3>1
    <3>3. SUFFICES ASSUME NEW c, c \in Range(ready') PROVE c \in Range(ready)
      OBVIOUS
    <3>4. PICK i \in 1 .. n - 1 : c = ready'[i]
      BY <3>2, <3>3 DEF Range
    <3>5. i \in 1 .. Len(ready) /\ c = ready[i]
      BY <3>1, <3>2, <3>4
    <3> QED BY <1>1, <3>5 DEF Range
  <2>4. WaitsGo
    BY <1>1, <2>3 DEF WaitsGo
  <2>5. CASE ready[n] = None
    <3>1. stack' = stack
      BY <2>2, <2>5
    <3>2. Moves({}, {})
      BY <1>1, <3>1, StaysMoves
    <3>3. StepsOK({}, {})
      BY <1>1 DEF StepsOK, ProcessGoes, NextsSame
    <3> QED BY <1>1, <2>4, <3>2, <3>3, CalmHolds
  <2>6. CASE ready[n] # None
    <3>1. PICK b \in Blocks : b = ready[n] /\ b \in Range(ready)
      <4>1. n \in 1 .. Len(ready)
        BY <2>1
      <4>2. ready[n] \in Blocks \cup {None} /\ ready[n] \in Range(ready)
        BY <1>1, <4>1 DEF Range
      <4> QED BY <4>2, <2>6
    <3>2. PICK u \in Calls : u = ProcessLoop(b, 0, <<>>)
      BY StartedProcess
    <3>3. u.at = "process" /\ u.block = b /\ u.index = 0 /\ u.next = <<>>
      BY <3>2, MadeProcess
    <3>4. Enters(u)
      BY <2>2, <2>6, <3>1, <3>2, PushFacts
    <3>5. Moves({}, {u})
      BY <1>1, <3>4, EntersMoves
    <3>6. life[b] # "none" /\ Rests(b)
      BY <3>1 DEF FieldsInv, EnteredOK, StartedOK, LivesInv, WaitsRest
    <3>7. StepsOK({}, {u})
      BY <1>1, <3>3, <3>6 DEF StepsOK, ProcessGoes, NextsSame, Starts
    <3> QED BY <1>1, <2>4, <3>3, <3>5, <3>6, <3>7, CalmHolds
  <2> QED BY <2>5, <2>6
<1> QED BY <1>2, <1>3

\* The loop of block b is left, or goes past its operations.
LEMMA LoopEnds ==
  ASSUME TypesInv, CallsInv, FieldsInv, TypesInv', NEW T \in SUBSET Calls, NEW U, Moves(T, U),
         Running("block"), NEW b \in Blocks, Innermost.block = b,
         NEW L \in Nat, L = Len(stack), L \in Depths' => stack'[L] \in T,
         \A t \in T : t.at = "block" /\ t.index > Len(Ops[b]), \A u \in U : u.at # "block"
  PROVE  ~LoopRuns(b)'
<1>1. SUFFICES ASSUME NEW n \in Depths', At(n, "block")', stack'[n].block = b,
                      stack'[n].index <= Len(Ops[b])
               PROVE  FALSE
  BY DEF LoopRuns
<1>2. stack'[n].at = "block" /\ Len(Ops[b]) \in Nat
  BY <1>1, TypesAssumption DEF At
<1>3. ASSUME stack'[n] \in T PROVE FALSE
  <2>1. stack'[n] \in Calls /\ stack'[n].index > Len(Ops[b])
    BY <1>3
  <2>2. stack'[n].index \in Nat
    BY <1>2, <2>1, CallTypes
  <2> QED BY <1>1, <1>2, <2>1, <2>2
<1>4. CASE n \in Depths /\ stack'[n] = stack[n] /\ (Calling(n) => Calling(n)')
           /\ \A at : At(n, at) <=> At(n, at)'
  <2>1. At(n, "block") /\ stack[n].block = b
    BY <1>1, <1>4
  <2>2. L \in Depths /\ At(L, "block") /\ stack[L].block = b
    BY Here
  <2>3. n = L
    BY <1>4, <2>1, <2>2 DEF FieldsInv, EnteredOK, LoopsOnce
  <2> QED BY <1>1, <1>3, <2>3
<1>5. CASE n \in Depths /\ n = Len(stack) /\ stack'[n] \in T /\ Innermost = stack[n]
           /\ \A at : At(n, at) <=> Innermost.at = at
  BY <1>3, <1>5
<1>6. CASE n \notin Depths /\ n = Len(stack) + 1 /\ stack'[n] \in U
  BY <1>2, <1>6
<1> QED BY <1>4, <1>5, <1>6, MovedCall

\* What runs keeps running and what rests keeps resting, and pointers stay
\* true, by finalize_block of a block nothing of which is pending.
LEMMA FinalizeCompleteHolds ==
  ASSUME TypesInv, CallsInv, FieldsInv, LivesInv, TypesInv', NEW b \in Blocks,
         FinalizeComplete(b)
  PROVE  LivesInv' /\ (PointsInv => PointsInv')
<1>1. /\ ret = None /\ Running("block") /\ Innermost.block = b
      /\ life' = [life EXCEPT ![b] = "done"] /\ entries[b] = <<>>
      /\ UNCHANGED <<entries, ctx, link, owned, ready>> /\ stack' = Pop
      /\ b \in Roots => ret' = ret
      /\ b \notin Roots => ret' = Outcome(nulled[b])
  BY DEF FinalizeComplete, Finalizing, Returns, lists
<1>2. stack # <<>> /\ ~Running("process") /\ Innermost.at = "block"
  BY <1>1, Here
<1>3. b \in Roots => Len(stack) = 1
  BY <1>1, HereStarted
<1>4. nulled[b] \in BOOLEAN
  BY DEF TypesInv
<1>5. Moves({}, {}) /\ StepsOK({}, {})
  <2>1. ret' # None \/ Len(stack) = 1
    BY <1>1, <1>3, <1>4, ResultFacts
  <2> QED BY <1>1, <1>2, <2>1, PopFacts, ReturnsQuietly
<1>6. PICK L \in Nat : L = Len(stack) /\ L \notin Depths'
  BY <1>1, <1>2, PopFacts DEF Leaves, Depths, TypesInv
<1>7. ~LoopRuns(b)'
  <2>1. PICK T \in SUBSET Calls : T = {}
    OBVIOUS
  <2>2. Moves(T, T)
    BY <1>5, <2>1
  <2>3. /\ \A t \in T : t.at = "block" /\ t.index > Len(Ops[b])
        /\ \A u \in T : u.at # "block"
    BY <2>1
  <2> QED BY <1>1, <1>6, <2>2, <2>3, LoopEnds
<1>8. life'[b] = "done" /\ \A c \in Blocks : c # b => life'[c] = life[c]
  BY <1>1 DEF TypesInv
<1>9. LivesGo({}, {})
  BY <1>1, <1>7, <1>8 DEF LivesGo
<1>10. WaitsGo
  <2>1. ret' # None => ret'.kind # "frame"
    BY <1>1, <1>4, ResultFacts
  <2> QED BY <1>1, <2>1 DEF WaitsGo
<1>11. EmptyGoes({})
  BY <1>1, <1>8 DEF EmptyGoes
<1>12. LivesInv'
  BY <1>5, <1>9, <1>10, <1>11, LivesKeep
<1>13. PointsInv => PointsInv'
  BY <1>1, <1>5, PointsCalm DEF PointsStay
<1> QED BY <1>12, <1>13

\* Once frame b is armed, all entries are pointed at.
LEMMA ArmedEntriesPoint ==
  ASSUME TypesInv, FieldsInv, NEW b \in Blocks, NEW es \in Seq(EntrySet), ArmFrame(b, es),
         ArrayOK(es), \A i \in 1 .. Len(es) : Home(es[i].field) = b,
         link' = link, owned' = owned, CallbackPointsAtEntry,
         \A i \in 1 .. Len(es) : PointsAt(es[i], i),
         \A c \in Blocks, i \in Nat : c # b /\ Handled(c, i) => Handled(c, i)'
  PROVE  EntriesPoint
<1>1. SUFFICES ASSUME NEW c \in Blocks, NEW i \in 1 .. Len(entries'[c]), NEW e \in EntrySet,
                      e = entries'[c][i]
               PROVE  Handled(c, i)' \/ PointsAt(e, i)'
  BY DEF EntriesPoint
<1>2. CASE c = b
  <2>1. i \in 1 .. Len(es)
    BY <1>2, ArmFacts
  <2>2. PointsAt(es[i], i) => \A d \in EntrySet : d = entries'[b][i] => PointsAt(d, i)'
    BY <2>1, ArmPoints
  <2> QED BY <1>1, <1>2, <2>1, <2>2
<1>3. CASE c # b
  <2>1. entries'[c] = entries[c]
    BY <1>3, ArmFacts
  <2>2. /\ i \in 1 .. Len(entries[c]) /\ e = entries[c][i] /\ i \in Nat
        /\ Home(e.field) = c /\ (Handled(c, i) \/ PointsAt(e, i))
    BY <1>1, <2>1, PointsFacts
  <2>3. CASE Handled(c, i)
    BY <1>3, <2>2, <2>3
  <2>4. CASE PointsAt(e, i)
    <3>1. \A d \in EntrySet : \A j : Home(d.field) # b /\ PointsAt(d, j) => PointsAt(d, j)'
      BY ArmPoints
    <3> QED BY <1>3, <2>2, <2>4, <3>1
  <2> QED BY <2>2, <2>3, <2>4
<1> QED BY <1>2, <1>3

\* What a process call has moved is of the block it processes.
LEMMA NextsHome ==
  ASSUME TypesInv, CallsInv, FieldsInv, NEW n \in Depths, At(n, "process"),
         NEW j \in 1 .. Len(stack[n].next)
  PROVE  Home(stack[n].next[j].field) = stack[n].block
<1>1. /\ stack[n].block \in Blocks /\ stack[n].index \in Nat
      /\ stack[n].index <= Len(entries[stack[n].block])
      /\ Len(entries[stack[n].block]) \in Nat
  BY CallingProcess
<1>2. PICK i \in 1 .. stack[n].index :
        entries[stack[n].block][i].field = stack[n].next[j].field
  BY DEF FieldsInv, ArraysOK
<1>3. i \in 1 .. Len(entries[stack[n].block])
  BY <1>1
<1> QED BY <1>1, <1>2, <1>3 DEF FieldsInv, ArraysOK

\* No entry of a block whose loop runs innermost is being dealt with.
LEMMA HereUnhandled ==
  ASSUME TypesInv, CallsInv, FieldsInv, Running("block"), NEW b \in Blocks, Innermost.block = b
  PROVE  \A i : ~Handled(b, i)
<1>1. SUFFICES ASSUME NEW i, Handled(b, i) PROVE FALSE
  OBVIOUS
<1>2. PICK n \in Depths : At(n, "process") /\ stack[n].block = b
  BY <1>1 DEF Handled, At, Depths
<1>3. PICK L \in Nat : L = Len(stack) /\ L \in Depths /\ At(L, "block") /\ stack[L].block = b
  BY Here
<1>4. L < n
  BY <1>2, <1>3 DEF FieldsInv, EnteredOK, LoopsOnce
<1> QED BY <1>3, <1>4 DEF Depths

\* What runs keeps running and what rests keeps resting, and pointers stay
\* true, by finalize_block of a block that waits, armed and queued if
\* something is ready.
LEMMA FinalizeSuspendsHolds ==
  ASSUME TypesInv, CallsInv, FieldsInv, LivesInv, TypesInv', NEW b \in Blocks,
         FinalizeSuspends(b)
  PROVE  LivesInv' /\ (PointsInv => PointsInv')
<1>1. /\ ret = None /\ Running("block") /\ Innermost.block = b /\ stack # <<>>
      /\ Innermost.at = "block" /\ ~Running("process") /\ Innermost.index = Len(Ops[b])
      /\ owned' = owned /\ link' = link /\ entries[b] # <<>>
      /\ life' = [life EXCEPT ![b] = "suspended"]
  BY Here DEF FinalizeSuspends, Finalizing, lists
<1>2. PICK es \in Seq(EntrySet) : es = entries[b] /\ ArmFrame(b, es)
  BY DEF FinalizeSuspends, TypesInv
<1>3. ArrayOK(es) /\ \A i \in 1 .. Len(es) : Home(es[i].field) = b
  BY <1>2 DEF FieldsInv, ArraysOK
<1>4. \A f \in Fields : ctx'[f] # 0 => ctx[f] # 0 \/ Home(f) = b
  BY <1>2, <1>3, ArmKeeps
<1>5. \A c \in Blocks : c # b => entries'[c] = entries[c]
  BY <1>2, ArmFacts
<1>6. /\ life'[b] = "suspended" /\ \A c \in Blocks : c # b => life'[c] = life[c]
      /\ Rests(b)' /\ (b \in Roots => Len(stack) = 1)
  BY <1>1, HereStarted DEF TypesInv, Rests
<1>7. \A c \in Blocks : c \in Range(ready') => c \in Range(ready) \/ c = b
  <2>1. ready' = Enqueued(b, ready) \/ ready' = ready
    BY DEF FinalizeSuspends
  <2> QED BY <2>1, QueueFacts DEF TypesInv
<1>8. PICK L \in Nat : L = Len(stack) /\ L # 0
  BY <1>1 DEF TypesInv
<1>9. ASSUME NEW T \in SUBSET Calls, NEW U, Moves(T, U), StepsOK(T, U),
             L \in Depths' => stack'[L] \in T,
             \A t \in T : t.at = "block" /\ t.block = b /\ t.index > Len(Ops[b]),
             \A u \in U : u.at = "drain", ret' = None \/ ret' = Frame(b)
      PROVE  LivesInv' /\ (PointsInv => PointsInv')
  <2>1. /\ \A t \in T : Onward(t)
        /\ \A u \in U : Starts(u)
    BY <1>9 DEF StepsOK
  <2>2. ~LoopRuns(b)'
    <3>1. /\ \A t \in T : t.at = "block" /\ t.index > Len(Ops[b])
          /\ \A u \in U : u.at # "block"
      BY <1>9
    <3> QED BY <1>1, <1>8, <1>9, <3>1, LoopEnds
  <2>3. LivesGo(T, U)
    <3>1. L \in Depths' \/ life'[Innermost.block] \in {"suspended", "done"}
      BY <1>1, <1>6
    <3> QED BY <1>1, <1>6, <1>9, <2>2, <3>1 DEF LivesGo
  <2>4. WaitsGo
    <3>1. ret' # None /\ ret'.kind = "frame" => Rests(ret.of)'
      BY <1>6, <1>9, ReturnRests
    <3> QED BY <1>4, <1>6, <1>7, <3>1 DEF WaitsGo
  <2>5. EmptyGoes(T)
    BY <1>1, <1>5, <1>6, <1>9 DEF EmptyGoes
  <2>6. LivesInv'
    BY <1>9, <2>1, <2>3, <2>4, <2>5, LivesKeep
  <2>7. ASSUME SettlesFirst, CallbackPointsAtEntry PROVE PointsInv'
    <3>1. HandledKept
      BY <1>9, MovesHandled DEF StepsOK
    <3>2. \A i \in 1 .. Len(es) : PointsAt(es[i], i)
      BY <1>1, <1>2, <2>7, HereUnhandled, PointsFacts
    <3>3. EntriesPoint
      BY <1>1, <1>2, <1>3, <2>7, <3>1, <3>2, ArmedEntriesPoint DEF HandledKept
    <3>4. \A e \in EntrySet : \A i : Home(e.field) # b /\ PointsAt(e, i) => PointsAt(e, i)'
      BY <1>1, <1>2, <1>3, ArmPoints
    <3>5. NextsStay
      <4>1. ASSUME NEW n \in Depths, At(n, "process"), NEW i \in 1 .. Len(stack[n].next),
                   NEW e \in EntrySet, e = stack[n].next[i]
            PROVE  PointsAt(e, i)'
        <5>1. PointsAt(e, i) /\ Home(e.field) = stack[n].block
          BY <2>7, <4>1, PointsFacts, NextsHome
        <5>2. stack[n].block # b
          <6>1. SUFFICES ASSUME stack[n].block = b PROVE FALSE
            OBVIOUS
          <6>2. Handled(b, 0)
            <7>1. stack[n].index \in Nat
              BY <4>1, CallingProcess
            <7> QED BY <4>1, <6>1, <7>1 DEF Handled, At, Depths
          <6> QED BY <1>1, <6>2, HereUnhandled
        <5> QED BY <3>4, <5>1, <5>2
      <4> QED BY <4>1 DEF NextsStay
    <3>6. NextsPoint
      BY <1>9, <3>5, StepNexts, NextsPointOn
    <3>7. SettlesFirst'
      <4>1. /\ \A t \in T : t.at = "settle" => Innermost.at = "settle"
            /\ \A u \in U : u.at = "settle" => stack = <<>>
        BY <1>9
      <4> QED BY <1>9, <2>7, <4>1, SettlesFirstKeeps
    <3> QED BY <3>3, <3>6, <3>7, PointsNext
  <2> QED BY <2>6, <2>7 DEF PointsInv
<1>10. PICK settled \in BOOLEAN : settled = (WaitingCount(entries[b]) = 0)
  OBVIOUS
<1>11. draining \in BOOLEAN
  BY DEF TypesInv
<1>12. CASE b \in Roots \cup Items /\ settled /\ ~draining
  <2>1. stack' = Append(Advance, DrainLoop) /\ ret' = ret
    BY <1>10, <1>12 DEF FinalizeSuspends
  <2>2. PICK t \in Calls : t = Advanced(Innermost)
        /\ t = OpLoop(b, Innermost.index + 1)
    BY <1>1, HereBlock, MadeCalls DEF Advanced
  <2>3. t.at = "block" /\ t.block = b /\ t.index = Innermost.index + 1
    BY <2>2, MadeBlock
  <2>4. SameCall(t)
    BY <2>3, <1>1 DEF SameCall
  <2>5. BecomesAndEnters(t, DrainLoop)
    BY <1>1, <2>1, <2>2, TopPushFacts, MadeCalls DEF Advance
  <2>6. PICK U \in {{}, {DrainLoop}} : Moves({t}, U) /\ StepsOK({t}, U)
    BY <1>1, <2>3, <2>4, <2>5, GoesOnQuietly
  <2>7. PICK T \in SUBSET Calls : T = {t}
    OBVIOUS
  <2>8. /\ Moves(T, U) /\ StepsOK(T, U) /\ stack'[L] \in T
    BY <1>8, <2>5, <2>6, <2>7 DEF BecomesAndEnters
  <2>9. \A s \in T : s.at = "block" /\ s.block = b /\ s.index > Len(Ops[b])
    <3>1. Len(Ops[b]) \in Nat
      BY TypesAssumption
    <3> QED BY <1>1, <2>3, <2>7, <3>1
  <2>10. \A u \in U : u.at = "drain"
    BY <2>6, MadeOthers
  <2> QED BY <1>1, <1>9, <2>1, <2>8, <2>9, <2>10
<1>13. CASE ~(b \in Roots \cup Items /\ settled /\ ~draining)
  <2>1. stack' = Pop /\ ret' = IF b \in Roots THEN None ELSE Frame(b)
    <3>1. CASE b \in Roots \cup Items
      BY <1>10, <1>11, <1>13, <3>1 DEF FinalizeSuspends
    <3>2. CASE b \notin Roots \cup Items
      BY <3>2 DEF FinalizeSuspends, Returns
    <3> QED BY <3>1, <3>2
  <2>2. Leaves
    BY <1>1, <2>1, PopFacts
  <2>3. ret' # None \/ Len(stack) = 1
    BY <1>6, <2>1, ResultFacts
  <2>4. PICK T \in SUBSET Calls : T = {}
    OBVIOUS
  <2>5. Moves(T, T) /\ StepsOK(T, T)
    BY <1>1, <2>2, <2>3, <2>4, ReturnsQuietly
  <2>6. L \notin Depths'
    BY <1>8, <2>2 DEF Leaves, Depths
  <2> QED BY <1>9, <2>1, <2>4, <2>5, <2>6
<1> QED BY <1>12, <1>13

\* A loop that goes on replaces its own record.
LEMMA AdvanceBecomes ==
  ASSUME TypesInv, CallsInv, Running("block") \/ Running("list") \/ Running("process"),
         Within(Len(stack)), stack' = Advance
  PROVE  Becomes(Advanced(Innermost))
<1>1. PICK t \in Calls : t = Advanced(Innermost)
  <2>1. PICK es : es = entries
    OBVIOUS
  <2>2. Running("process") => Len(es[Innermost.block]) \in Nat
          /\ Len(entries[Innermost.block]) <= Len(es[Innermost.block])
    BY <2>1, HereProcess
  <2> QED BY <2>2, AdvancedFacts
<1> QED BY <1>1, Here, TopFacts DEF Advance

\* A loop that calls no drain goes on.
LEMMA GoesOnHolds ==
  ASSUME TypesInv, CallsInv, FieldsInv, LivesInv, TypesInv',
         Running("block") \/ Running("list") \/ Running("process"), Within(Len(stack)),
         stack' = Advance, ret' = None,
         UNCHANGED <<life, entries, ctx, link, owned, ready>>
  PROVE  LivesInv' /\ (PointsInv => PointsInv')
<1>1. Becomes(Advanced(Innermost))
  BY AdvanceBecomes
<1>2. WaitsGo
  BY DEF WaitsGo
<1>3. PICK U \in {{}, {DrainLoop}} : U = {}
  OBVIOUS
<1>4. U # {DrainLoop}
  BY <1>3
<1> QED BY <1>1, <1>2, <1>3, <1>4, AdvanceHolds

\* The innermost loop calls the loop over the operations of block c.
LEMMA CallsBlockHolds ==
  ASSUME TypesInv, CallsInv, FieldsInv, LivesInv, TypesInv', NEW c \in Blocks,
         stack # <<>>, ret = None, ret' = None,
         stack' = Push(OpLoop(c, 0)), life[c] = "none", life' = [life EXCEPT ![c] = "running"],
         UNCHANGED <<entries, ctx, link, owned, ready>>
  PROVE  LivesInv' /\ (PointsInv => PointsInv')
<1>1. PICK u \in Calls : u = OpLoop(c, 0) /\ u.at = "block" /\ u.block = c /\ u.index = 0
  BY MadeCalls, MadeBlock
<1>2. Enters(u)
  BY <1>1, PushFacts
<1>3. Moves({}, {u})
  BY <1>2, EntersMoves
<1>4. PICK L \in Nat : L = Len(stack) /\ L # 0
  BY DEF TypesInv
<1>5. L \in Depths' /\ L + 1 \in Depths' /\ stack'[L + 1] = u
  BY <1>2, <1>4 DEF Enters, Depths
<1>6. Starts(u)
  BY <1>1 DEF Starts, TypesInv
<1>7. StepsOK({}, {u})
  BY <1>4, <1>5, <1>6 DEF StepsOK, ProcessGoes, NextsSame
<1>8. PICK T \in SUBSET Calls : T = {}
  OBVIOUS
<1>9. /\ Moves(T, {u}) /\ StepsOK(T, {u})
      /\ \A t \in T : t.at = "settle" /\ Innermost.at = "settle"
  BY <1>3, <1>7, <1>8
<1> QED BY <1>1, <1>4, <1>5, <1>9, StartHolds

\* The loop completes the field that it is at.
LEMMA CompletionHolds ==
  ASSUME TypesInv, CallsInv, FieldsInv, LivesInv, TypesInv', NEW b \in Blocks,
         NEW f \in Fields, NEW result, CompleteField(b, f, result), ret = None, ret' = None,
         Running("block") \/ Running("process"), Within(Len(stack)),
         f = FieldOf(Len(stack)), Running("process") => CurrentEntry.kind = "promise",
         UNCHANGED <<entries, ctx, link, owned, ready>>
  PROVE  LivesInv' /\ (PointsInv => PointsInv')
<1>1. CASE ~(result = "value" /\ (f \in Lists \/ Children[f] # <<>>))
  <2>1. stack' = Advance /\ life' = life
    BY <1>1 DEF CompleteField
  <2> QED BY <2>1, GoesOnHolds
<1>2. CASE result = "value" /\ (f \in Lists \/ Children[f] # <<>>)
  <2>1. PICK L \in Nat : L = Len(stack) /\ L # 0 /\ stack # <<>>
    BY Here DEF Depths
  <2>2. MayComplete(f)
    <3>1. \E c \in Blocks : /\ Home(f) = c
                            /\ Running("block") => Untouched(f)
                            /\ Running("process") => Asleep(f)
      BY HereField
    <3> QED BY <3>1 DEF MayComplete
  <2>3. CASE f \in Lists
    <3>1. PICK u \in Calls : u = ItemLoop(f, 0) /\ u.at = "list" /\ u.field = f
      BY <2>3, MadeCalls, MadeList
    <3>2. stack' = Push(u) /\ life' = life
      BY <1>2, <2>3, <3>1 DEF CompleteField
    <3>3. Enters(u)
      BY <3>2, PushFacts
    <3>4. Moves({}, {u}) /\ L \in Depths'
      BY <2>1, <3>3, EntersMoves DEF Enters, Depths
    <3>5. StepsOK({}, {u})
      BY <2>1, <2>2, <3>1, <3>4 DEF StepsOK, ProcessGoes, NextsSame, Starts
    <3>6. WaitsGo
      BY DEF WaitsGo
    <3>7. Innermost.at # "resolve"
      BY Here
    <3> QED BY <2>1, <3>1, <3>2, <3>4, <3>5, <3>6, <3>7, CalmHolds
  <2>4. CASE f \notin Lists
    <3>1. PICK c \in Blocks : c = Children[f][1] /\ 1 \in 1 .. Len(Children[f])
      BY <1>2, <2>4, ChildFacts
    <3>2. stack' = Push(OpLoop(c, 0)) /\ life' = [life EXCEPT ![c] = "running"]
      BY <1>2, <2>4, <3>1 DEF CompleteField
    <3>3. life[c] = "none"
      BY <2>2, <3>1 DEF ChildOf, MayStart, FieldsInv, StartsOK
    <3> QED BY <2>1, <3>2, <3>3, CallsBlockHolds
  <2> QED BY <2>3, <2>4
<1> QED BY <1>1, <1>2

\* What runs keeps running and what rests keeps resting, and pointers stay
\* true, by a resolver that returns a value, a null or dies.
LEMMA ResolverReturnsValueHolds ==
  ASSUME TypesInv, CallsInv, FieldsInv, LivesInv, TypesInv', NEW b \in Blocks,
         ResolverReturnsValue(b)
  PROVE  LivesInv' /\ (PointsInv => PointsInv')
<1>1. /\ ret = None /\ ret' = None /\ Running("block") /\ ~Running("process")
      /\ Within(Len(stack)) /\ FieldOf(Len(stack)) = CurrentField /\ CurrentField \in Fields
  BY Here, HereBlock DEF ResolverReturnsValue, InOpLoop
<1>2. PICK f \in Fields : f = CurrentField
  BY <1>1
<1>3. CompleteField(b, f, answer[f])
  BY <1>2 DEF ResolverReturnsValue
<1>4. UNCHANGED <<entries, ctx, link, owned, ready>>
  BY DEF ResolverReturnsValue, lists
<1> QED BY <1>1, <1>2, <1>3, <1>4, CompletionHolds

\* What runs keeps running and what rests keeps resting, and pointers stay
\* true, by process_frame that completes a ready entry with a value.
LEMMA ProcessConsumesHolds ==
  ASSUME TypesInv, CallsInv, FieldsInv, LivesInv, TypesInv', NEW b \in Blocks,
         ProcessConsumes(b)
  PROVE  LivesInv' /\ (PointsInv => PointsInv')
<1>1. /\ ret = None /\ ret' = None /\ Running("process") /\ Within(Len(stack))
      /\ FieldOf(Len(stack)) = CurrentEntry.field /\ CurrentEntry.field \in Fields
      /\ UNCHANGED <<entries, ctx, link, owned, ready>>
  BY HereProcess DEF ProcessConsumes, InProcessLoop, lists
<1>2. PICK f \in Fields : f = CurrentEntry.field
  BY <1>1
<1>3. CASE CurrentEntry.kind = "promise" /\ CompleteField(b, f, answer[f])
  BY <1>1, <1>2, <1>3, CompletionHolds
<1>4. CASE stack' = Advance /\ UNCHANGED life
  BY <1>1, <1>4, GoesOnHolds
<1> QED BY <1>2, <1>3, <1>4 DEF ProcessConsumes

\* The list completes the item that it is at.
LEMMA CompleteItemHolds ==
  ASSUME TypesInv, CallsInv, FieldsInv, LivesInv, TypesInv', NEW p \in BOOLEAN,
         CompleteItem(CurrentItem, p), ret = None, ret' = None, Running("list"),
         Within(Len(stack)), UNCHANGED <<entries, ctx, link, owned, ready>>
  PROVE  LivesInv' /\ (PointsInv => PointsInv')
<1>1. stack # <<>>
  BY Here
<1>2. PICK b \in Blocks : b = CurrentItem /\ life[b] = "none"
  BY HereItem
<1>3. CASE answer[b] = "value"
  <2>1. stack' = Push(OpLoop(b, 0)) /\ life' = [life EXCEPT ![b] = "running"]
    BY <1>2, <1>3 DEF CompleteItem
  <2> QED BY <1>1, <1>2, <2>1, CallsBlockHolds
<1>4. CASE answer[b] # "value"
  <2>1. stack' = Advance /\ life' = life
    BY <1>2, <1>4 DEF CompleteItem
  <2> QED BY <2>1, GoesOnHolds
<1> QED BY <1>3, <1>4

\* What runs keeps running and what rests keeps resting, and pointers stay
\* true, by an item that is a value.
LEMMA ItemIsValueHolds ==
  ASSUME TypesInv, CallsInv, FieldsInv, LivesInv, TypesInv', NEW f \in Fields, ItemIsValue(f)
  PROVE  LivesInv' /\ (PointsInv => PointsInv')
<1>1. /\ ret = None /\ ret' = None /\ Running("list") /\ Within(Len(stack))
      /\ CompleteItem(CurrentItem, FALSE) /\ UNCHANGED <<entries, ctx, link, owned, ready>>
  BY HereList DEF ItemIsValue, InItemLoop
<1> QED BY <1>1, CompleteItemHolds

\* What runs keeps running and what rests keeps resting, and pointers stay
\* true, by an item that is a promise, settled or not.
LEMMA ItemIsPromiseHolds ==
  ASSUME TypesInv, CallsInv, FieldsInv, LivesInv, TypesInv', NEW f \in Fields, ItemIsPromise(f)
  PROVE  LivesInv' /\ (PointsInv => PointsInv')
<1>1. /\ ret = None /\ ret' = None /\ Running("list") /\ Within(Len(stack))
      /\ UNCHANGED <<entries, ctx, link, owned, ready>>
  BY HereList DEF ItemIsPromise, InItemLoop
<1>2. CompleteItem(CurrentItem, TRUE) \/ (stack' = Advance /\ life' = life)
  BY DEF ItemIsPromise
<1> QED BY <1>1, <1>2, CompleteItemHolds, GoesOnHolds

\* The settle loop has called a subscriber that settles no entry.
LEMMA CallbackHolds ==
  ASSUME TypesInv, CallsInv, FieldsInv, LivesInv, TypesInv', Running("settle"),
         NEW t \in Calls, t.at = "settle", SameCall(t),
         Becomes(t) \/ BecomesAndEnters(t, DrainLoop), ret' = None,
         UNCHANGED <<life, entries, ctx, link, owned>>,
         \A b \in Blocks : b \in Range(ready') => b \in Range(ready) \/ Rests(b)
  PROVE  LivesInv' /\ (PointsInv => PointsInv')
<1>1. Innermost.at = "settle" /\ ~Running("block")
  BY Here
<1>2. PICK U \in {{}, {DrainLoop}} : Moves({t}, U) /\ StepsOK({t}, U)
  BY GoesOnQuietly
<1>3. \A u \in U : u.at = "drain"
  BY <1>2, MadeOthers
<1>4. WaitsGo
  BY DEF WaitsGo, Rests, Adopted
<1> QED BY <1>1, <1>2, <1>3, <1>4, CalmHolds

\* What runs keeps running and what rests keeps resting, and pointers stay
\* true, by an item that settles with a value.
LEMMA SettledItemHolds ==
  ASSUME TypesInv, CallsInv, FieldsInv, LivesInv, TypesInv', Running("settle"),
         NEW b \in Items, NEW null, NEW raised \in BOOLEAN, NEW x,
         ItemResolves(b, null, raised, AfterSubscriber(x, None)), ret' = None,
         UNCHANGED <<life, entries, ctx, link, owned>>
  PROVE  LivesInv' /\ (PointsInv => PointsInv')
<1>1. stack # <<>>
  BY Here
<1>2. PICK t \in Calls : /\ AfterSubscriber(x, None) = Top(t) /\ SameCall(t)
                         /\ t.at = "settle" /\ t.waiting = Innermost.waiting \ {x}
  BY AfterSubscriberFacts
<1>3. PICK p \in Blocks : p = Home(ListOf(b)) /\ Dequeued(b) \in Seq(Blocks \cup {None})
  BY ItemResolvesFacts
<1>4. PICK wanted \in BOOLEAN :
        /\ EnqueueAndDrain(wanted, p, Dequeued(b), Top(t))
        /\ wanted => ListOf(b) \in owned
  BY <1>2, <1>3, ItemResolvesFacts
<1>5. Becomes(t) \/ BecomesAndEnters(t, DrainLoop)
  BY <1>1, <1>3, <1>4, EnqueueAndDrainFacts
<1>6. \A c \in Blocks : c \in Range(ready') => c \in Range(ready) \/ (wanted /\ c = p)
  <2>1. \A c \in Blocks : c \in Range(Dequeued(b)) => c \in Range(ready)
    BY RootOrItem, DequeuedFacts, TypesAssumption
  <2>2. CASE wanted
    <3>1. ready' = Enqueued(p, Dequeued(b))
      BY <1>4, <2>2 DEF EnqueueAndDrain
    <3> QED BY <1>3, <2>1, <2>2, <3>1, QueueFacts
  <2>3. CASE ~wanted
    <3>1. ready' = Dequeued(b)
      BY <1>4, <2>3 DEF EnqueueAndDrain
    <3> QED BY <2>1, <3>1
  <2> QED BY <2>2, <2>3
<1>7. wanted => Rests(p)
  BY <1>3, <1>4 DEF Rests, Adopted
<1> QED BY <1>2, <1>5, <1>6, <1>7, CallbackHolds

\* What runs keeps running and what rests keeps resting, and pointers stay
\* true, by the item callback that takes the frame or outcome of the item's
\* block.
LEMMA SettleTakesResultHolds ==
  ASSUME TypesInv, CallsInv, FieldsInv, LivesInv, TypesInv', SettleTakesResult
  PROVE  LivesInv' /\ (PointsInv => PointsInv')
<1>1. /\ ret # None /\ ret' = None /\ Running("settle") /\ stack # <<>>
      /\ Innermost.current \in Items
      /\ UNCHANGED <<life, entries, ctx, link, owned>>
  BY Here, HereSettle DEF SettleTakesResult, frames
<1>2. CASE ret.kind = "outcome"
  <2>1. PICK b \in Items : b = Innermost.current
    BY <1>1
  <2>2. ItemResolves(b, ret.null, FALSE, AfterSubscriber(None, None))
    BY <1>2, <2>1 DEF SettleTakesResult
  <2> QED BY <1>1, <2>2, SettledItemHolds
<1>3. CASE ret.kind # "outcome"
  <2>1. PICK t \in Calls : /\ AfterSubscriber(None, None) = Top(t) /\ SameCall(t)
                           /\ t.at = "settle" /\ t.waiting = Innermost.waiting \ {None}
    BY <1>1, AfterSubscriberFacts
  <2>2. stack' = Top(t) /\ ready' = ready
    BY <1>3, <2>1 DEF SettleTakesResult
  <2>3. Becomes(t)
    BY <1>1, <2>2, TopFacts
  <2> QED BY <1>1, <2>1, <2>2, <2>3, CallbackHolds
<1> QED BY <1>2, <1>3

\* What runs keeps running and what rests keeps resting, and pointers stay
\* true, by the callback of a list item.
LEMMA SettleItemHolds ==
  ASSUME TypesInv, CallsInv, FieldsInv, LivesInv, TypesInv', NEW b \in Blocks, SettleItem(b)
  PROVE  LivesInv' /\ (PointsInv => PointsInv')
<1>1. /\ ret = None /\ ret' = None /\ Running("settle") /\ stack # <<>>
      /\ Innermost.at = "settle" /\ ~Running("process") /\ ~Running("block")
      /\ b \in Innermost.waiting /\ b \in Items /\ UNCHANGED <<entries, ctx, link>>
  BY Here DEF SettleItem, InSettleLoop
<1>2. CASE answer[b] = "value"
  <2>1. /\ stack' = Append(AfterSubscriber(b, b), OpLoop(b, 0))
        /\ life' = [life EXCEPT ![b] = "running"] /\ ready' = ready /\ owned' = owned
    BY <1>2 DEF SettleItem, lists
  <2>2. PICK t \in Calls : AfterSubscriber(b, b) = Top(t) /\ SameCall(t) /\ t.at = "settle"
    <3>1. b \in Items \cup {None}
      BY <1>1
    <3>2. PICK t \in Calls : /\ t = SettleLoop(Innermost.waiting \ {b}, b)
                            /\ AfterSubscriber(b, b) = Top(t) /\ SameCall(t)
      BY <1>1, <3>1, AfterSubscriberFacts
    <3> QED BY <3>2, MadeSettle
  <2>3. PICK u \in Calls : u = OpLoop(b, 0) /\ u.at = "block" /\ u.block = b /\ u.index = 0
    BY MadeCalls, MadeBlock
  <2>4. BecomesAndEnters(t, u)
    BY <1>1, <2>1, <2>2, <2>3, TopPushFacts
  <2>5. Moves({t}, {u})
    BY <2>2, <2>4, BecomesAndEntersMoves
  <2>6. PICK L \in Nat : L = Len(stack) /\ L \in Depths /\ At(L, "settle")
                         /\ stack[L] = Innermost
    BY <1>1, Here
  <2>7. L + 1 \in Depths' /\ stack'[L + 1] = u
    BY <2>4, <2>6 DEF BecomesAndEnters, Depths
  <2>8. life[b] = "none"
    <3>1. Subscribed(b)
      BY <1>1, <2>6 DEF Subscribed
    <3> QED BY <3>1 DEF FieldsInv, StartsOK
  <2>9. Starts(u)
    BY <2>1, <2>3, <2>8 DEF Starts, TypesInv
  <2>10. StepsOK({t}, {u})
    BY <1>1, <2>2, <2>9 DEF StepsOK, Onward, ProcessGoes, NextsSame
  <2>11. PICK T \in SUBSET Calls : T = {t}
    OBVIOUS
  <2>12. /\ Moves(T, {u}) /\ StepsOK(T, {u})
         /\ \A s \in T : s.at = "settle" /\ Innermost.at = "settle"
    BY <1>1, <2>2, <2>5, <2>10, <2>11
  <2> QED BY <1>1, <2>1, <2>3, <2>7, <2>12, StartHolds
<1>3. CASE answer[b] # "value"
  <2>1. PICK raised \in BOOLEAN : raised = (answer[b] = "error")
    OBVIOUS
  <2>2. /\ ItemResolves(b, TRUE, raised, AfterSubscriber(b, None))
        /\ owned' = owned /\ life' = life
    BY <1>3, <2>1 DEF SettleItem
  <2> QED BY <1>1, <2>1, <2>2, SettledItemHolds
<1> QED BY <1>2, <1>3

\* The callback pair of an entry stores what settled, at the index it holds.
LEMMA SettleEntryHolds ==
  ASSUME TypesInv, CallsInv, FieldsInv, LivesInv, TypesInv', NEW f \in Fields, SettleEntry(f)
  PROVE  LivesInv' /\ (PointsInv => PointsInv')
<1>1. /\ ret = None /\ Running("settle") /\ stack # <<>> /\ Innermost.at = "settle"
      /\ ~Running("block") /\ ~Running("process")
      /\ ret' = ret /\ link' = link /\ life' = life /\ owned' = owned
  BY Here DEF SettleEntry, InSettleLoop, lists
<1>2. PICK b \in Blocks : b = Home(f)
  BY HomeFacts
<1>3. PICK t \in Calls : /\ AfterSubscriber(f, None) = Top(t) /\ SameCall(t)
                         /\ t.at = "settle" /\ t.waiting = Innermost.waiting \ {f}
  <2>1. None \in Items \cup {None}
    OBVIOUS
  <2>2. \E t \in Calls : /\ t = SettleLoop(Innermost.waiting \ {f}, None)
                        /\ AfterSubscriber(f, None) = Top(t) /\ SameCall(t)
                        /\ t.at = "settle" /\ t.current = None
                        /\ t.waiting = Innermost.waiting \ {f}
                        /\ \A es : IndexFits(t, es)
    <3>1. ret = None /\ Running("settle")
      BY <1>1
    <3> QED BY <2>1, <3>1, AfterSubscriberFacts
  <2> QED BY <2>2
<1>4. CASE ctx[f] \notin 1 .. Len(entries[b])
  <2>1. stack' = Top(t) /\ entries' = entries /\ ctx' = ctx /\ ready' = ready
    BY <1>2, <1>3, <1>4 DEF SettleEntry
  <2>2. Becomes(t)
    BY <1>1, <2>1, TopFacts
  <2> QED BY <1>1, <1>3, <2>1, <2>2, CallbackHolds
<1>5. CASE ctx[f] \in 1 .. Len(entries[b])
  <2>1. PICK k \in 1 .. Len(entries[b]) : k = ctx[f]
    BY <1>5
  <2>2. /\ entries' = [entries EXCEPT ![b] = Stored(entries[b], k)]
        /\ ctx' = [ctx EXCEPT ![f] = 0]
        /\ \E wanted \in BOOLEAN : EnqueueAndDrain(wanted, b, ready, Top(t))
    BY <1>2, <1>3, <1>5, <2>1 DEF SettleEntry
  <2>3. /\ \A c \in Blocks : c # b => entries'[c] = entries[c]
        /\ Len(entries'[b]) = Len(entries[b])
        /\ \A j \in 1 .. Len(entries[b]) : j # k => entries'[b][j] = entries[b][j]
        /\ entries'[b][k].state = "ready"
    <3>1. /\ entries' \in [Blocks -> Seq(EntrySet)]
          /\ \A c \in Blocks : c # b => entries'[c] = entries[c]
          /\ Len(entries'[b]) = Len(entries[b])
          /\ \A j \in 1 .. Len(entries[b]) :
               /\ entries'[b][j].field = entries[b][j].field
               /\ entries'[b][j].kind = entries[b][j].kind
               /\ j # k => entries'[b][j] = entries[b][j]
          /\ entries'[b][k].state = "ready"
      BY <2>2, StoredInFacts
    <3> QED BY <3>1
  <2>4. PICK wanted \in BOOLEAN : EnqueueAndDrain(wanted, b, ready, Top(t))
    BY <2>2
  <2>5. ready \in Seq(Blocks \cup {None})
    BY DEF TypesInv
  <2>6. /\ \A c : c \in Range(ready') => c \in Range(ready) \/ c = b
        /\ Becomes(t) \/ BecomesAndEnters(t, DrainLoop)
    BY <1>1, <2>4, <2>5, EnqueueAndDrainFacts
  <2>7. PICK U \in {{}, {DrainLoop}} : Moves({t}, U) /\ StepsOK({t}, U)
    BY <1>1, <1>3, <2>6, GoesOnQuietly
  <2>8. \A u \in U : u.at = "drain"
    BY <2>7, MadeOthers
  <2>9. Rests(b)'
    <3>1. ctx[f] # 0
      BY <1>5
    <3>2. Rests(b)
      BY <1>2, <3>1 DEF LivesInv, WaitsRest
    <3> QED BY <1>1, <3>2 DEF Rests, Adopted
  <2>10. \A g \in Fields : ctx'[g] # 0 => ctx[g] # 0
    BY <2>2 DEF TypesInv
  <2>11. WaitsGo
    BY <1>1, <2>6, <2>9, <2>10 DEF WaitsGo
  <2>12. /\ \A s \in {t} : Onward(s)
         /\ \A u \in U : Starts(u)
    BY <2>7 DEF StepsOK
  <2>13. LivesGo({t}, U)
    BY <1>1, <1>3, <2>8 DEF LivesGo
  <2>14. EmptyGoes({t})
    <3>1. entries[b] # <<>>
      BY <2>1
    <3> QED BY <1>1, <1>3, <2>3, <3>1 DEF EmptyGoes
  <2>15. LivesInv'
    BY <2>7, <2>11, <2>12, <2>13, <2>14, LivesKeep
  <2>16. ASSUME SettlesFirst, CallbackPointsAtEntry PROVE PointsInv'
    <3>1. OthersPoint(f)
      BY <1>1, <2>2 DEF OthersPoint, TypesInv
    <3>2. Len(stack) = 1
      BY <1>1, <2>16, Here DEF SettlesFirst
    <3>3. \A n \in Depths : ~At(n, "process")
      <4>1. SUFFICES ASSUME NEW n \in Depths, At(n, "process") PROVE FALSE
        OBVIOUS
      <4>2. n = Len(stack)
        BY <3>2, <4>1 DEF Depths
      <4> QED BY <1>1, <4>1, <4>2, Here
    <3>4. ASSUME NEW c \in Blocks, NEW i \in 1 .. Len(entries'[c]), NEW e \in EntrySet,
                 e = entries'[c][i]
          PROVE  Handled(c, i)' \/ PointsAt(e, i)'
      <4>1. CASE c = b /\ i = k
        BY <2>3, <3>4, <4>1 DEF PointsAt
      <4>2. CASE ~(c = b /\ i = k)
        <5>1. i \in 1 .. Len(entries[c]) /\ e = entries[c][i] /\ i \in Nat
          BY <2>3, <3>4, <4>2
        <5>2. ~Handled(c, i)
          BY <3>3 DEF Handled, At, Depths
        <5>3. PointsAt(e, i) /\ EntryOK(e) /\ e.field \in Fields /\ Home(e.field) = c
          BY <2>16, <5>1, <5>2, PointsFacts
        <5>4. CASE e.field # f
          BY <3>1, <5>3, <5>4, OthersStillPoint
        <5>5. CASE e.field = f
          <6>1. c = b /\ i # k
            BY <1>2, <4>2, <5>3, <5>5
          <6>2. ~(e.state = "armed" /\ e.kind = "promise")
            BY <2>1, <5>3, <5>5, <6>1 DEF PointsAt
          <6> QED BY <1>1, <5>3, <6>2 DEF PointsAt
        <5> QED BY <5>4, <5>5
      <4> QED BY <4>1, <4>2
    <3>5. NextsStay
      BY <3>3 DEF NextsStay
    <3>6. NextsPoint
      BY <2>7, <3>5, StepNexts, NextsPointOn
    <3>7. SettlesFirst'
      <4>1. /\ \A s \in {t} : s.at = "settle" => Innermost.at = "settle"
            /\ \A u \in U : u.at = "settle" => stack = <<>>
        BY <1>1, <2>8
      <4> QED BY <2>7, <2>16, <4>1, SettlesFirstKeeps
    <3> QED BY <3>4, <3>6, <3>7, PointsNext DEF EntriesPoint
  <2> QED BY <2>15, <2>16 DEF PointsInv
<1> QED BY <1>4, <1>5

\* A promise settles: when nothing else is going on, the callbacks are the first
\* calls.
LEMMA SettlePromiseHolds ==
  ASSUME TypesInv, CallsInv, FieldsInv, LivesInv, TypesInv', NEW p \in Promises,
         SettlePromise(p)
  PROVE  LivesInv' /\ (stack = <<>> => (PointsInv => PointsInv'))
<1>1. /\ stack = <<>> \/ (ret = None /\ Running("block"))
      /\ UNCHANGED <<entries, life, ctx, link, owned, ready, ret>>
  BY DEF SettlePromise, InOpLoop, frames, lists
<1>2. ret = None
  BY <1>1, OneProcess
<1>3. PICK w \in SUBSET Positions : w = subs[p]
  BY DEF TypesInv
<1>4. PICK u \in Calls : u = SettleLoop(w, None) /\ u.at = "settle" /\ u.waiting = w
  BY MadeCalls, MadeSettle
<1>5. Enters(u)
  BY <1>3, <1>4, PushFacts DEF SettlePromise
<1>6. Moves({}, {u})
  BY <1>2, <1>5, EntersMoves
<1>7. ~Running("process")
  <2>1. CASE stack = <<>>
    BY <2>1 DEF Running
  <2>2. CASE Running("block")
    BY <2>2, Here
  <2> QED BY <1>1, <2>1, <2>2
<1>8. StepsOK({}, {u})
  BY <1>4, <1>7 DEF StepsOK, ProcessGoes, NextsSame, Starts
<1>9. /\ \A t \in {} : Onward(t)
      /\ \A v \in {u} : Starts(v)
  BY <1>8 DEF StepsOK
<1>10. LivesGo({}, {u})
  <2>1. Running("block") => Len(stack) \in Depths'
    BY <1>5, InnermostFacts DEF Enters, Depths
  <2> QED BY <1>1, <1>4, <2>1 DEF LivesGo
<1>11. EmptyGoes({})
  BY <1>1 DEF EmptyGoes
<1>12. WaitsGo
  BY <1>1, <1>2 DEF WaitsGo
<1>13. LivesInv'
  BY <1>6, <1>9, <1>10, <1>11, <1>12, LivesKeep
<1>14. ASSUME stack = <<>> PROVE PointsInv => PointsInv'
  <2>1. \A v \in {u} : v.at = "settle" => stack = <<>>
    BY <1>14
  <2> QED BY <1>1, <1>6, <1>8, <2>1, PointsCalm DEF PointsStay
<1> QED BY <1>13, <1>14

-----------------------------------------------------------------------------
(* The steps that enter a field                                            *)

\* The block whose loop is at an operation runs, and is not resolved, unless it
\* has adopted a pending list.
LEMMA HereRuns ==
  ASSUME TypesInv, CallsInv, FieldsInv, LivesInv, Running("block"), Within(Len(stack)),
         NEW b \in Blocks, Innermost.block = b
  PROVE  Adopted(b) \/ (life[b] = "running" /\ ~Resolving(b))
<1>1. PICK L \in Nat : L = Len(stack) /\ L \in Depths /\ At(L, "block") /\ stack[L] = Innermost
  BY Here
<1>2. Innermost.index <= Len(Ops[b])
  BY HereBlock
<1>3. LoopRuns(b)
  BY <1>1, <1>2 DEF LoopRuns
<1>4. life[b] = "running" \/ Adopted(b)
  BY <1>3 DEF LivesInv, LoopsLive
<1>5. ~Resolving(b)
  <2>1. SUFFICES ASSUME NEW n \in Depths, At(n, "resolve"), stack[n].block = b PROVE FALSE
    BY DEF Resolving
  <2>2. L < n
    BY <1>1, <2>1 DEF FieldsInv, EnteredOK, LoopsOnce
  <2> QED BY <1>1, <2>1, <2>2 DEF Depths
<1> QED BY <1>4, <1>5

\* The loop of block b enters the field it is at, and goes on.
LEMMA AppendHolds ==
  ASSUME TypesInv, CallsInv, FieldsInv, LivesInv, TypesInv', Running("block"),
         Within(Len(stack)), NEW b \in Blocks, Innermost.block = b,
         NEW f \in Fields, f = FieldOf(Len(stack)), OthersPoint(f), life' = life, WaitsGo,
         NEW d \in EntrySet, entries' = [entries EXCEPT ![b] = Append(entries[b], d)],
         NEW k \in Nat, k = Len(entries[b]) + 1, PointsAt(d, k)',
         NEW U, U \in {{}, {DrainLoop}},
         IF U = {} THEN Becomes(Advanced(Innermost))
         ELSE BecomesAndEnters(Advanced(Innermost), DrainLoop)
  PROVE  LivesInv' /\ (PointsInv => PointsInv')
<1>1. PICK L \in Nat : L = Len(stack)
  BY DEF TypesInv
<1>2. ~Running("process") /\ Innermost.at = "block"
  BY Here
<1>3. PICK t \in Calls :
        /\ Moves({t}, U) /\ StepsOK({t}, U) /\ t.at = Innermost.at
        /\ t.index = Innermost.index + 1 /\ Innermost.index \in Nat
        /\ t.at \in {"block", "process"} => t.block = Innermost.block
        /\ L \in Depths'
  <2>1. \E s \in Calls :
          /\ Moves({s}, U) /\ StepsOK({s}, U) /\ s.at = Innermost.at
          /\ s.index = Innermost.index + 1 /\ Innermost.index \in Nat
          /\ s.at # "settle" /\ \A u \in U : u.at # "settle"
          /\ s.at \in {"block", "process"} => s.block = Innermost.block
          /\ s.at = "process" => s.next = Innermost.next
          /\ L \in Depths' /\ L \in Depths /\ stack'[L] = s
          /\ \A at : At(L, at)' <=> At(L, at)
    BY <1>1, <1>2, AdvanceSteps
  <2> QED BY <2>1
<1>4. t.at = "block" /\ t.block = b /\ t.index \in Nat /\ t.index <= Len(Ops[b])
      /\ Len(Ops[b]) \in Nat
  BY <1>2, <1>3, HereBlock
<1>5. \A u \in U : u.at = "drain"
  BY MadeOthers
<1>6. Home(f) = b /\ NotHeld(f)
  <2>1. \E g \in Fields : \E c \in Blocks : \E i \in Nat \ {0} :
           /\ g = FieldOf(Len(stack)) /\ c = Innermost.block /\ Home(g) = c
           /\ Running("block") => MayHold(g)
    BY HereField
  <2>2. Home(f) = b /\ MayHold(f)
    BY <2>1
  <2> QED BY <2>2 DEF FieldsInv, HoldsKept
<1>7. PICK T \in SUBSET Calls : T = {t}
  OBVIOUS
<1>8. /\ Moves(T, U) /\ StepsOK(T, U) /\ \A s \in T : Onward(s) /\ s = t
      /\ \A u \in U : Starts(u)
  BY <1>3, <1>7 DEF StepsOK
<1>9. LivesGo(T, U)
  <2>1. owned \subseteq owned'
    BY DEF OthersPoint
  <2>2. \A s \in T : ~(s.at = "block" /\ s.index > Len(Ops[s.block])) /\ s.at = "block"
    BY <1>4, <1>8
  <2> QED BY <1>1, <1>3, <1>5, <2>1, <2>2 DEF LivesGo
<1>10. EmptyGoes(T)
  <2>1. \A c \in Blocks : c # b => entries'[c] = entries[c]
    BY DEF TypesInv
  <2>2. Adopted(b) \/ (life[b] = "running" /\ ~Resolving(b))
    BY HereRuns
  <2>3. \A s \in T : s.at # "resolve"
    BY <1>4, <1>8
  <2> QED BY <2>1, <2>2, <2>3 DEF EmptyGoes
<1>11. LivesInv'
  BY <1>8, <1>9, <1>10, LivesKeep
<1>12. PointsInv => PointsInv'
  <2>1. /\ \A s \in T : s.at = "settle" => Innermost.at = "settle"
        /\ \A u \in U : u.at # "settle"
    BY <1>4, <1>5, <1>8
  <2> QED BY <1>6, <1>8, <2>1, AppendPoints
<1> QED BY <1>11, <1>12

\* What runs keeps running and what rests keeps resting, and pointers stay
\* true, by a resolver that returns a promise, for which an entry is appended
\* and armed.
LEMMA ResolverReturnsPromiseHolds ==
  ASSUME TypesInv, CallsInv, FieldsInv, LivesInv, TypesInv', NEW b \in Blocks,
         ResolverReturnsPromise(b)
  PROVE  LivesInv' /\ (PointsInv => PointsInv')
<1>1. /\ ret = None /\ ret' = None /\ Running("block") /\ Innermost.block = b
      /\ Within(Len(stack)) /\ CurrentField \in Fields /\ FieldOf(Len(stack)) = CurrentField
      /\ stack' = Advance /\ UNCHANGED <<life, link, ctx, owned, ready>>
  BY HereBlock, Here DEF ResolverReturnsPromise, InOpLoop, lists
<1>2. PICK f \in Fields : f = CurrentField
  BY <1>1
<1>3. PICK e \in EntrySet : e = Entry(f, "promise", "unarmed")
  BY EntryFacts DEF Kinds
<1>4. e.state = "unarmed"
  BY <1>3, MadeEntry
<1>5. entries' = [entries EXCEPT ![b] = Append(entries[b], e)]
  BY <1>2, <1>3 DEF ResolverReturnsPromise
<1>6. PICK k \in Nat : k = Len(entries[b]) + 1
  BY DEF TypesInv
<1>7. PointsAt(e, k)'
  BY <1>4 DEF PointsAt
<1>8. OthersPoint(f) /\ WaitsGo
  BY <1>1 DEF OthersPoint, WaitsGo
<1>9. PICK U \in {{}, {DrainLoop}} : U = {}
  OBVIOUS
<1>10. Becomes(Advanced(Innermost))
  BY <1>1, AdvanceBecomes
<1> QED BY <1>1, <1>2, <1>5, <1>6, <1>7, <1>8, <1>9, <1>10, AppendHolds

\* The loop adopts what was returned, and tells its maker the index k.
Links(f, k) ==
  IF ret.kind = "frame" THEN link' = [link EXCEPT ![ret.of] = k] /\ owned' = owned
  ELSE owned' = Adopts(f) /\ link' = link

\* Linking a child frame makes it point at the entry just appended.
LEMMA LinksPoints ==
  ASSUME TypesInv, CallsInv, ret # None, ret.kind \in {"frame", "list"},
         Running("block") \/ Running("process"), NEW f \in Fields, f = FieldOf(Len(stack)),
         NEW k \in Nat, Links(f, k), ctx' = ctx, NEW e \in EntrySet, e = AdoptedEntry(f)
  PROVE  OthersPoint(f) /\ PointsAt(e, k)'
<1>1. /\ \A x : At(Len(stack), x) => x \in {"block", "process"}
      /\ ReturnOK /\ ret \in Results
  BY Here DEF CallsInv, TypesInv
<1>2. e.field = f /\ e.kind = IF ret.kind = "frame" THEN "block" ELSE "list"
  BY AdoptedFacts
<1>3. CASE ret.kind = "frame"
  <2>1. Executes(Len(stack), ret.of)
    BY <1>3 DEF CallsInv, ReturnOK
  <2>2. IsChild(ret.of, f) /\ ret.of \in Blocks
    BY <1>1, <1>3, <2>1, ResultFacts DEF Executes
  <2>3. link' = [link EXCEPT ![ret.of] = k] /\ owned' = owned
    BY <1>3 DEF Links
  <2>4. Children[f][1] = ret.of /\ e.kind = "block"
    BY <1>2, <1>3, <2>2 DEF IsChild
  <2>5. link'[ret.of] = k
    BY <2>2, <2>3 DEF TypesInv
  <2>6. \A c \in Blocks : c # ret.of => link'[c] = link[c]
    BY <2>3 DEF TypesInv
  <2>7. PointsAt(e, k)'
    BY <1>2, <2>4, <2>5 DEF PointsAt
  <2>8. OthersPoint(f)
    BY <2>2, <2>3, <2>6 DEF OthersPoint
  <2> QED BY <2>7, <2>8
<1>4. CASE ret.kind = "list"
  <2>1. owned' = owned \cup {f} /\ link' = link
    BY <1>4 DEF Links, Adopts
  <2>2. e.kind = "list"
    BY <1>2, <1>4
  <2> QED BY <1>2, <2>1, <2>2 DEF PointsAt, OthersPoint
<1> QED BY <1>3, <1>4

\* What runs keeps running and what rests keeps resting, and pointers stay
\* true, by the operation loop that takes a child's frame, list or outcome.
LEMMA BlockTakesResultHolds ==
  ASSUME TypesInv, CallsInv, FieldsInv, LivesInv, TypesInv', NEW b \in Blocks,
         BlockTakesResult(b)
  PROVE  LivesInv' /\ (PointsInv => PointsInv')
<1>1. /\ ret # None /\ ret' = None /\ Running("block") /\ Innermost.block = b /\ stack # <<>>
      /\ Within(Len(stack)) /\ CurrentField \in Fields /\ ret \in Results
      /\ ~Running("process") /\ FieldOf(Len(stack)) = CurrentField
  BY HereBlock, Here DEF BlockTakesResult, TypesInv
<1>2. PICK f \in Fields : f = CurrentField
  BY <1>1
<1>3. CASE ret.kind = "outcome"
  <2>1. stack' = Advance /\ UNCHANGED <<entries, ctx, life, link, owned, ready>>
    BY <1>2, <1>3 DEF BlockTakesResult, frames
  <2> QED BY <1>1, <2>1, GoesOnHolds
<1>4. CASE ret.kind \in {"frame", "list"}
  <2>1. PICK e \in EntrySet : e = AdoptedEntry(f)
    BY <1>1, <1>2, <1>4, AdoptedOK
  <2>2. PICK k \in Nat : k = Len(entries[b]) + 1
    BY DEF TypesInv
  <2>3. /\ entries' = [entries EXCEPT ![b] = Append(entries[b], e)]
        /\ UNCHANGED <<ctx, life>>
    BY <1>2, <1>4, <2>1 DEF BlockTakesResult
  <2>4. Len(entries'[b]) = k
    <3>1. entries'[b] = Append(entries[b], e) /\ entries[b] \in Seq(EntrySet)
      BY <2>3 DEF TypesInv
    <3> QED BY <2>2, <3>1
  <2>5. Links(f, k)
    BY <1>2, <1>4, <2>4 DEF BlockTakesResult, Links
  <2>6. OthersPoint(f) /\ PointsAt(e, k)'
    BY <1>1, <1>2, <1>4, <2>1, <2>3, <2>5, LinksPoints
  <2>7. PICK t \in Calls : t = Advanced(Innermost)
    BY <1>1, AdvancedFacts
  <2>8. CASE ret.kind = "frame"
    <3>1. PICK wanted \in BOOLEAN : wanted = (unresolved[ret.of] = 0)
      OBVIOUS
    <3>2. EnqueueAndDrain(wanted, ret.of, ready, Top(t)) /\ owned' = owned
      BY <2>7, <2>8, <3>1 DEF BlockTakesResult, Advance
    <3>3. PICK c \in Blocks : c = ret.of /\ ready \in Seq(Blocks \cup {None})
      BY <1>1, <2>8, ResultFacts DEF TypesInv
    <3>4. /\ \A x : x \in Range(ready') => x \in Range(ready) \/ x = c
          /\ Becomes(t) \/ BecomesAndEnters(t, DrainLoop)
      BY <1>1, <3>2, <3>3, EnqueueAndDrainFacts
    <3>5. Rests(c)'
      <4>1. Rests(ret.of)
        BY <1>1, <2>8 DEF LivesInv, WaitsRest
      <4> QED BY <2>3, <3>2, <3>3, <4>1 DEF Rests, Adopted
    <3>6. WaitsGo
      BY <1>1, <2>3, <3>4, <3>5 DEF WaitsGo
    <3>7. CASE Becomes(t)
      <4>1. PICK U \in {{}, {DrainLoop}} : U = {}
        OBVIOUS
      <4> QED BY <1>1, <1>2, <2>2, <2>3, <2>6, <2>7, <3>6, <3>7, <4>1, AppendHolds
    <3>8. CASE BecomesAndEnters(t, DrainLoop)
      <4>1. PICK U \in {{}, {DrainLoop}} : U = {DrainLoop} /\ U # {}
        OBVIOUS
      <4> QED BY <1>1, <1>2, <2>2, <2>3, <2>6, <2>7, <3>6, <3>8, <4>1, AppendHolds
    <3> QED BY <3>4, <3>7, <3>8
  <2>9. CASE ret.kind = "list"
    <3>1. stack' = Top(t) /\ ready' = ready
      BY <1>2, <2>7, <2>9 DEF BlockTakesResult, Advance
    <3>2. Becomes(t)
      BY <1>1, <3>1, TopFacts
    <3>3. WaitsGo
      BY <1>1, <2>3, <3>1 DEF WaitsGo
    <3>4. PICK U \in {{}, {DrainLoop}} : U = {}
      OBVIOUS
    <3> QED BY <1>1, <1>2, <2>2, <2>3, <2>6, <2>7, <3>2, <3>3, <3>4, AppendHolds
  <2> QED BY <1>4, <2>8, <2>9
<1> QED BY <1>1, <1>3, <1>4, ResultFacts

\* The process call moves what it is at to the rebuilt array.
LEMMA MoveHolds ==
  ASSUME TypesInv, CallsInv, FieldsInv, LivesInv, TypesInv', Running("process"), EntriesLeft,
         NEW f \in Fields, f = FieldOf(Len(stack)), OthersPoint(f),
         NEW e \in EntrySet, e.field = f, stack' = MoveTo(e), UNCHANGED <<entries, life>>,
         WaitsGo, NEW k \in Nat, k = NextIndex, PointsInv => PointsAt(e, k)'
  PROVE  LivesInv' /\ (PointsInv => PointsInv')
<1>1. PICK t \in Calls :
        /\ t.at = "process" /\ t.block = Innermost.block /\ t.index = Innermost.index + 1
        /\ Becomes(t) /\ SameCall(t)
  BY MoveToFacts
<1>2. PICK T \in SUBSET Calls : T = {t}
  OBVIOUS
<1>3. Moves(T, {})
  BY <1>1, <1>2, BecomesMoves
<1>4. Innermost.at = "process" /\ ~Running("block")
  BY Here
<1>5. \A s \in T : Onward(s) /\ s.at = "process"
  BY <1>1, <1>2, <1>4 DEF Onward
<1>6. LivesGo(T, {})
  BY <1>4, <1>5 DEF LivesGo, OthersPoint
<1>7. EmptyGoes(T)
  BY <1>5 DEF EmptyGoes
<1>8. LivesInv'
  <2>1. \A u \in {} : Starts(u)
    OBVIOUS
  <2> QED BY <1>3, <1>5, <1>6, <1>7, <2>1, LivesKeep
<1>9. PointsInv => PointsInv'
  <2>1. SUFFICES ASSUME PointsInv PROVE PointsInv'
    OBVIOUS
  <2>2. PointsAt(e, k)'
    BY <2>1
  <2>3. PointsInv => PointsInv'
    BY <2>2, MovePoints
  <2> QED BY <2>1, <2>3
<1> QED BY <1>8, <1>9

\* What runs keeps running and what rests keeps resting, and pointers stay
\* true, by process_frame that keeps an entry that is not ready in the
\* rebuilt array.
LEMMA ProcessMovesHolds ==
  ASSUME TypesInv, CallsInv, FieldsInv, LivesInv, TypesInv', NEW b \in Blocks, ProcessMoves(b)
  PROVE  LivesInv' /\ (PointsInv => PointsInv')
<1>1. /\ ret = None /\ ret' = None /\ Running("process") /\ EntriesLeft
      /\ FieldOf(Len(stack)) = CurrentEntry.field /\ CurrentEntry.field \in Fields
      /\ Innermost.block \in Blocks /\ Innermost.block = b
      /\ Innermost.index + 1 \in 1 .. Len(entries[Innermost.block])
      /\ Len(Innermost.next) \in Nat
      /\ UNCHANGED <<entries, life, ready, owned>>
  BY HereProcess DEF ProcessMoves, InProcessLoop, lists
<1>2. PICK e \in EntrySet : e = CurrentEntry
  BY <1>1, HereProcess
<1>3. PICK f \in Fields : f = e.field /\ f = FieldOf(Len(stack))
  BY <1>1, <1>2
<1>4. PICK k \in Nat : k = NextIndex /\ k # 0
  BY <1>1 DEF NextIndex
<1>5. /\ stack' = MoveTo(e)
      /\ link' = IF e.kind = "block" THEN [link EXCEPT ![Children[f][1]] = k] ELSE link
      /\ ctx' = IF e.kind = "promise" /\ ctx[f] # 0 THEN [ctx EXCEPT ![f] = k] ELSE ctx
  BY <1>2, <1>3, <1>4 DEF ProcessMoves
<1>6. EntryOK(e)
  BY <1>1, <1>2 DEF FieldsInv, ArraysOK, ArrayOK, CurrentEntry
<1>7. OthersPoint(f)
  <2>1. \A g \in Fields : g # f => ctx'[g] = ctx[g]
    BY <1>5 DEF TypesInv
  <2>2. \A c \in Blocks : ~IsChild(c, f) => link'[c] = link[c]
    <3>1. CASE e.kind = "block"
      <4>1. IsChild(Children[f][1], f)
        BY <1>3, <1>6, <3>1 DEF EntryOK, IsChild
      <4> QED BY <1>5, <3>1, <4>1 DEF TypesInv
    <3>2. CASE e.kind # "block"
      BY <1>5, <3>2
    <3> QED BY <3>1, <3>2
  <2> QED BY <1>1, <2>1, <2>2 DEF OthersPoint
<1>8. WaitsGo
  BY <1>1, <1>5 DEF WaitsGo, TypesInv
<1>9. ASSUME PointsInv PROVE PointsAt(e, k)'
  <2>1. PICK c \in Blocks, i \in Nat \ {0} :
          /\ c = Innermost.block /\ i = Innermost.index + 1 /\ ~Handled(c, i)
    <3>1. Within(Len(stack))
      BY <1>1, HereProcess
    <3> QED BY <1>1, <3>1, HereField
  <2>2. i \in 1 .. Len(entries[c]) /\ e = entries[c][i]
    BY <1>1, <1>2, <2>1 DEF CurrentEntry
  <2>3. PointsAt(e, i)
    BY <1>9, <2>1, <2>2, PointsFacts DEF PointsInv
  <2>4. SUFFICES ASSUME e.state = "armed"
                 PROVE  /\ e.kind = "promise" => ctx'[f] = k
                        /\ e.kind = "block" => link'[Children[f][1]] = k
                        /\ e.kind = "list" => f \in owned'
    BY <1>3 DEF PointsAt
  <2>5. e.kind = "promise" => ctx'[f] = k
    BY <1>3, <1>5, <2>1, <2>3, <2>4 DEF PointsAt, TypesInv
  <2>6. e.kind = "block" => link'[Children[f][1]] = k
    <3>1. SUFFICES ASSUME e.kind = "block" PROVE link'[Children[f][1]] = k
      OBVIOUS
    <3>2. Children[f][1] \in Blocks
      BY <1>3, <1>6, <3>1, ChildFacts DEF EntryOK
    <3> QED BY <1>5, <3>1, <3>2 DEF TypesInv
  <2>7. e.kind = "list" => f \in owned'
    BY <1>1, <1>3, <2>3, <2>4 DEF PointsAt
  <2> QED BY <2>5, <2>6, <2>7
<1> QED BY <1>1, <1>3, <1>4, <1>5, <1>7, <1>8, <1>9, MoveHolds

\* What runs keeps running and what rests keeps resting, and pointers stay
\* true, by process_frame that takes the frame or outcome of the block a
\* ready entry started.
LEMMA ProcessTakesResultHolds ==
  ASSUME TypesInv, CallsInv, FieldsInv, LivesInv, TypesInv', NEW b \in Blocks,
         ProcessTakesResult(b)
  PROVE  LivesInv' /\ (PointsInv => PointsInv')
<1>1. /\ ret # None /\ ret' = None /\ Running("process") /\ ret \in Results
      /\ Within(Len(stack)) /\ EntriesLeft /\ Innermost.block = b
      /\ FieldOf(Len(stack)) = CurrentEntry.field /\ CurrentEntry.field \in Fields
      /\ Len(Innermost.next) \in Nat /\ UNCHANGED <<entries, ctx, life>>
  BY HereProcess, Here DEF ProcessTakesResult, TypesInv
<1>2. PICK f \in Fields : f = CurrentEntry.field
  BY <1>1
<1>3. CASE ret.kind = "outcome"
  <2>1. stack' = Advance /\ UNCHANGED <<link, owned, ready>>
    BY <1>2, <1>3 DEF ProcessTakesResult
  <2> QED BY <1>1, <2>1, GoesOnHolds
<1>4. CASE ret.kind \in {"frame", "list"}
  <2>1. PICK e \in EntrySet : e = AdoptedEntry(f) /\ e.field = f
    BY <1>1, <1>2, <1>4, AdoptedOK
  <2>2. PICK k \in Nat : k = NextIndex
    BY <1>1 DEF NextIndex
  <2>3. stack' = MoveTo(e) /\ Links(f, k)
    BY <1>2, <1>4, <2>1, <2>2 DEF ProcessTakesResult, Links
  <2>4. OthersPoint(f) /\ PointsAt(e, k)'
    BY <1>1, <1>2, <1>4, <2>1, <2>3, LinksPoints
  <2>5. WaitsGo
    <3>1. CASE ret.kind = "frame"
      <4>1. PICK c \in Blocks : c = ret.of
        BY <1>1, <3>1, ResultFacts
      <4>2. owned' = owned /\ (ready' = Enqueued(c, ready) \/ ready' = ready)
        BY <3>1, <4>1 DEF ProcessTakesResult
      <4>3. \A d : d \in Range(ready') => d \in Range(ready) \/ d = c
        BY <4>2, QueueFacts DEF TypesInv
      <4>4. Rests(c)
        BY <1>1, <3>1, <4>1 DEF LivesInv, WaitsRest
      <4>5. Rests(c)'
        BY <1>1, <4>2, <4>4 DEF Rests, Adopted
      <4> QED BY <1>1, <4>3, <4>5 DEF WaitsGo
    <3>2. CASE ret.kind = "list"
      <4>1. ready' = ready
        BY <3>2 DEF ProcessTakesResult
      <4> QED BY <1>1, <4>1 DEF WaitsGo
    <3> QED BY <1>4, <3>1, <3>2
  <2> QED BY <1>1, <1>2, <2>1, <2>2, <2>3, <2>4, <2>5, MoveHolds
<1> QED BY <1>1, <1>3, <1>4, ResultFacts

-----------------------------------------------------------------------------
(* The steps that end a block                                              *)

\* What runs keeps running and what rests keeps resting, and pointers stay
\* true, by process_frame that swaps the rebuilt array in and counts what
\* still waits.
LEMMA ProcessEndsHolds ==
  ASSUME TypesInv, CallsInv, FieldsInv, LivesInv, TypesInv', NEW b \in Blocks, ProcessEnds(b)
  PROVE  LivesInv' /\ (PointsInv => PointsInv')
<1>1. PICK L \in Nat :
        /\ L = Len(stack) /\ L \in Depths /\ stack[L] = Innermost /\ At(L, "process")
        /\ Innermost.block = b /\ ret = None /\ ret' = None /\ ~EntriesLeft
        /\ ~Running("block")
        /\ life' = life /\ owned' = owned /\ link' = link
  BY Here DEF ProcessEnds, InProcessLoop, lists
<1>2. PICK es \in Seq(EntrySet) : es = Innermost.next /\ es = stack[L].next /\ ArmFrame(b, es)
  BY <1>1, HereProcess DEF ProcessEnds, InProcessLoop
<1>3. /\ stack[L].index \in Nat /\ Len(es) \in Nat /\ Len(es) <= stack[L].index
      /\ stack[L].index <= Len(entries[b]) /\ Len(entries[b]) \in Nat
  BY <1>1, <1>2, HereProcess DEF ProcessEnds, InProcessLoop
<1>4. ArrayOK(es) /\ \A j \in 1 .. Len(es) : Home(es[j].field) = b
  BY <1>1, <1>2, NextsHome DEF FieldsInv, ArraysOK
<1>5. \A f \in Fields : ctx'[f] # 0 => ctx[f] # 0 \/ Home(f) = b
  BY <1>2, <1>4, ArmKeeps
<1>6. /\ entries' \in [Blocks -> Seq(EntrySet)] /\ Len(entries'[b]) = Len(es)
      /\ \A c \in Blocks : c # b => entries'[c] = entries[c]
  BY <1>2, ArmFacts
<1>7. PICK T \in SUBSET Calls :
           /\ Moves(T, {}) /\ \A t \in T : t.at # "settle" /\ Onward(t)
           /\ \A t \in T : /\ t.at = "process" => t.next = <<>>
                           /\ t.at = "resolve" => Innermost.next = <<>>
           /\ \A n \in Depths' : At(n, "process")' => stack'[n].next = <<>>
  BY <1>1, EndsCalls
<1>8. es = <<>> => entries'[b] = <<>>
  BY <1>6
<1>9. Innermost.at = "process"
  BY <1>1 DEF At
<1>10. \A t \in T : t.at # "block" /\ (t.at = "resolve" => t.block = b)
  BY <1>1, <1>7, <1>9 DEF Onward
<1>11. LivesGo(T, {})
  BY <1>1, <1>10 DEF LivesGo
<1>12. Rests(b) /\ Rests(b)'
  <2>1. Rests(stack[L].block)
    BY <1>1 DEF LivesInv, WaitsRest
  <2> QED BY <1>1, <2>1 DEF Rests, Adopted
<1>13. WaitsGo
  <2>1. \A c \in Blocks : c \in Range(ready') => c \in Range(ready) \/ c = b
    <3>1. ready' = Enqueued(b, ready) \/ ready' = ready
      BY DEF ProcessEnds
    <3> QED BY <3>1, QueueFacts DEF TypesInv
  <2> QED BY <1>1, <1>5, <1>12, <2>1 DEF WaitsGo
<1>14. EmptyGoes(T)
  <2>1. \A t \in T : t.at = "resolve" => entries'[t.block] = <<>>
    BY <1>2, <1>7, <1>8, <1>10
  <2>2. entries[b] = <<>> => entries'[b] = <<>>
    BY <1>3, <1>8
  <2> QED BY <1>1, <1>6, <2>1, <2>2 DEF EmptyGoes
<1>15. LivesInv'
  <2>1. \A u \in {} : Starts(u)
    OBVIOUS
  <2> QED BY <1>7, <1>11, <1>13, <1>14, <2>1, LivesKeep
<1>16. ASSUME SettlesFirst, CallbackPointsAtEntry PROVE PointsInv'
  <2>1. \A i \in 1 .. Len(es) : PointsAt(es[i], i)
    BY <1>1, <1>2, <1>16, PointsFacts
  <2>2. ASSUME NEW c \in Blocks, NEW i \in Nat, c # b, Handled(c, i) PROVE FALSE
    <3>1. PICK n \in Depths : At(n, "process") /\ stack[n].block = c
      BY <2>2 DEF Handled, At, Depths
    <3>2. n = L
      BY <1>1, <3>1, OneProcess
    <3> QED BY <1>1, <2>2, <3>1, <3>2
  <2>3. EntriesPoint
    BY <1>1, <1>2, <1>4, <1>16, <2>1, <2>2, ArmedEntriesPoint
  <2>4. NextsPoint
    <3>1. SUFFICES ASSUME NEW n \in Depths', stack'[n].at = "process",
                          NEW i \in 1 .. Len(stack'[n].next)
                   PROVE  FALSE
      BY DEF NextsPoint
    <3>2. stack'[n].next = <<>>
      BY <1>7, <3>1 DEF At
    <3> QED BY <3>1, <3>2
  <2>5. SettlesFirst'
    <3>1. /\ \A t \in T : t.at = "settle" => Innermost.at = "settle"
          /\ \A u \in {} : u.at = "settle" => stack = <<>>
      BY <1>7
    <3> QED BY <1>7, <1>16, <3>1, SettlesFirstKeeps
  <2> QED BY <2>3, <2>4, <2>5, PointsNext
<1> QED BY <1>15, <1>16 DEF PointsInv

\* A frame that has started, and is not on frame_stack, rests.
LEMMA NotExecutingRests ==
  ASSUME TypesInv, LivesInv, NEW p \in Blocks, life[p] # "none", ~Executing(p)
  PROVE  Rests(p)
<1>1. ~HasLoop(p)
  BY DEF HasLoop, Executing, At, Depths
<1>2. life[p] # "running"
  BY <1>1 DEF LivesInv, LoopsLive
<1> QED BY <1>2 DEF Rests, TypesInv

\* What runs keeps running and what rests keeps resting, and pointers stay
\* true, by resolve_frame that stores a block's outcome in its parent and
\* enqueues it.
LEMMA ResolveFrameHolds ==
  ASSUME TypesInv, CallsInv, FieldsInv, LivesInv, TypesInv', NEW b \in Blocks, ResolveFrame(b)
  PROVE  LivesInv' /\ (PointsInv => PointsInv')
<1>1. /\ Running("resolve") /\ Innermost.block = b /\ Innermost.at = "resolve"
      /\ stack # <<>> /\ ret = None /\ draining /\ ~Running("process") /\ ~Running("block")
      /\ life' = [life EXCEPT ![b] = "done"] /\ link' = link /\ ctx' = ctx /\ ret' = ret
  BY Here, OneProcess DEF ResolveFrame
<1>2. life[b] # "none"
  BY <1>1, HereStarted
<1>3. /\ life'[b] = "done" /\ \A c \in Blocks : c # b => life'[c] = life[c]
  BY <1>1 DEF TypesInv
<1>4. Resolving(b) /\ Rests(b)
  <2>1. PICK L \in Depths : At(L, "resolve") /\ stack[L] = Innermost
    BY <1>1, Here
  <2>2. Rests(stack[L].block)
    BY <2>1 DEF LivesInv, WaitsRest
  <2> QED BY <1>1, <2>1, <2>2 DEF Resolving
<1>5. \A c \in Blocks : c \in Range(Dequeued(b)) => c \in Range(ready)
  BY DequeuedFacts, TypesAssumption
<1>6. ASSUME stack' = Pop, owned' = owned,
             \A c \in Blocks : Len(entries'[c]) = Len(entries[c]),
             \A c \in Blocks : \A i \in 1 .. Len(entries[c]) :
               entries'[c][i] = entries[c][i] \/ entries'[c][i].state # "armed",
             \A c \in Blocks : c \in Range(ready') => c \in Range(ready) \/ Rests(c)
      PROVE  LivesInv' /\ (PointsInv => PointsInv')
  <2>1. Moves({}, {}) /\ StepsOK({}, {})
    BY <1>1, <1>6, PopFacts, ReturnsQuietly
  <2>2. PICK T \in SUBSET Calls : T = {}
    OBVIOUS
  <2>3. Moves(T, T) /\ StepsOK(T, T)
    BY <2>1, <2>2
  <2>4. \A c \in Blocks : Rests(c) => Rests(c)'
    BY <1>3, <1>6 DEF Rests, Adopted
  <2>5. LivesGo(T, T)
    <3>1. life[b] = "running" => Adopted(b)
      BY <1>4 DEF Rests
    <3> QED BY <1>1, <1>3, <1>6, <2>2, <3>1 DEF LivesGo
  <2>6. WaitsGo
    BY <1>1, <1>6, <2>4 DEF WaitsGo
  <2>7. EmptyGoes(T)
    <3>1. ASSUME NEW c \in Blocks, entries[c] = <<>> PROVE entries'[c] = <<>>
      <4>1. Len(entries'[c]) = 0 /\ entries'[c] \in Seq(EntrySet)
        BY <1>6, <3>1 DEF TypesInv
      <4> QED BY <4>1
    <3> QED BY <1>3, <1>4, <2>2, <3>1 DEF EmptyGoes
  <2>8. LivesInv'
    <3>1. (\A t \in T : Onward(t)) /\ (\A u \in T : Starts(u))
      BY <2>2
    <3> QED BY <2>3, <2>5, <2>6, <2>7, <3>1, LivesKeep
  <2>9. PointsInv => PointsInv'
    <3>1. PointsStay
      BY <1>1, <1>6 DEF PointsStay
    <3>2. /\ \A t \in T : t.at = "settle" => Innermost.at = "settle"
          /\ \A u \in T : u.at = "settle" => stack = <<>>
      BY <2>2
    <3>3. \A c \in Blocks :
            /\ Len(entries'[c]) = Len(entries[c])
            /\ \A i \in 1 .. Len(entries[c]) :
                 entries'[c][i] = entries[c][i] \/ entries'[c][i].state # "armed"
      BY <1>6
    <3> QED BY <2>3, <3>1, <3>2, <3>3, PointsCalm
  <2> QED BY <2>8, <2>9
<1>7. CASE \E f \in Fields \ Lists :
             /\ b \in Range(Children[f])
             /\ ResolveIntoParent(b, CHOOSE g \in Fields : b \in Range(Children[g]))
             /\ UNCHANGED <<lists, errors, draining, response>>
  <2>1. PICK f \in Fields :
          f = (CHOOSE g \in Fields : b \in Range(Children[g])) /\ b \in Range(Children[f])
    BY <1>7
  <2>2. PICK p \in Blocks : p = Home(f)
    BY HomeFacts
  <2>3. ResolveIntoParent(b, f) /\ owned' = owned
    BY <1>7, <2>1 DEF lists
  <2>4. life[p] # "none"
    <3>1. Children[f] \in Seq(Blocks)
      BY ChildFacts
    <3>2. PICK i \in 1 .. Len(Children[f]) : Children[f][i] = b
      BY <2>1, <3>1 DEF Range
    <3> QED BY <1>2, <2>2, <3>2 DEF FieldsInv, EnteredOK, StartedOK
  <2>5. stack' = Pop
    BY <2>3 DEF ResolveIntoParent
  <2>6. \A c \in Blocks : c \in Range(ready') => c \in Range(ready) \/ Rests(c)
    <3>1. CASE Executing(p)
      <4>1. ready' = Dequeued(b)
        BY <2>2, <2>3, <3>1 DEF ResolveIntoParent
      <4> QED BY <1>5, <4>1
    <3>2. CASE ~Executing(p)
      <4>1. ready' = Enqueued(p, Dequeued(b)) \/ ready' = Dequeued(b)
        BY <2>2, <2>3 DEF ResolveIntoParent
      <4>2. Rests(p)
        BY <2>4, <3>2, NotExecutingRests
      <4> QED BY <1>5, <4>1, <4>2, DequeuedFacts, QueueFacts
    <3> QED BY <3>1, <3>2
  <2>7. CASE link[b] \in 1 .. Len(entries[p])
    <3>1. PICK k \in 1 .. Len(entries[p]) : k = link[b]
      BY <2>7
    <3>2. entries' = [entries EXCEPT ![p] = Stored(entries[p], k)]
      BY <2>2, <2>3, <3>1 DEF ResolveIntoParent
    <3>3. /\ entries' \in [Blocks -> Seq(EntrySet)]
          /\ \A c \in Blocks : c # p => entries'[c] = entries[c]
          /\ Len(entries'[p]) = Len(entries[p])
          /\ \A j \in 1 .. Len(entries[p]) :
               /\ entries'[p][j].field = entries[p][j].field
               /\ entries'[p][j].kind = entries[p][j].kind
               /\ j # k => entries'[p][j] = entries[p][j]
          /\ entries'[p][k].state = "ready"
      BY <3>2, StoredInFacts
    <3>4. \A c \in Blocks : Len(entries'[c]) = Len(entries[c])
      BY <3>3
    <3>5. \A c \in Blocks : \A i \in 1 .. Len(entries[c]) :
            entries'[c][i] = entries[c][i] \/ entries'[c][i].state # "armed"
      BY <3>3
    <3> QED BY <1>6, <2>3, <2>5, <2>6, <3>4, <3>5
  <2>8. CASE link[b] \notin 1 .. Len(entries[p])
    <3>1. entries' = entries
      BY <2>2, <2>3, <2>8 DEF ResolveIntoParent
    <3> QED BY <1>6, <2>3, <2>5, <2>6, <3>1
  <2> QED BY <2>7, <2>8
<1>8. CASE /\ b \in Items
           /\ ItemResolves(b, nulled[b], FALSE, Pop)
           /\ UNCHANGED <<entries, unresolved, owned, response>>
  <2>1. PICK p \in Blocks : p = Home(ListOf(b))
    BY <1>8, ItemResolvesFacts
  <2>2. PICK wanted \in BOOLEAN :
          /\ EnqueueAndDrain(wanted, p, Dequeued(b), Pop)
          /\ wanted => ListOf(b) \in owned
    BY <1>8, <2>1, ItemResolvesFacts
  <2>3. stack' = Pop
    BY <1>1, <2>2 DEF EnqueueAndDrain
  <2>4. wanted => Rests(p)
    BY <2>1, <2>2 DEF Rests, Adopted
  <2>5. \A c \in Blocks : c \in Range(ready') => c \in Range(ready) \/ (wanted /\ c = p)
    <3>1. CASE wanted
      <4>1. ready' = Enqueued(p, Dequeued(b))
        BY <2>2, <3>1 DEF EnqueueAndDrain
      <4> QED BY <1>5, <3>1, <4>1, DequeuedFacts, QueueFacts
    <3>2. CASE ~wanted
      <4>1. ready' = Dequeued(b)
        BY <2>2, <3>2 DEF EnqueueAndDrain
      <4> QED BY <1>5, <4>1
    <3> QED BY <3>1, <3>2
  <2> QED BY <1>6, <1>8, <2>3, <2>4, <2>5
<1>9. CASE /\ b \in Roots
           /\ response' = IF nulled[b] THEN "null" ELSE "data"
           /\ stack' = Pop
           /\ ready' = Dequeued(b)
           /\ UNCHANGED <<entries, unresolved, lists, errors, draining>>
  <2>1. owned' = owned
    BY <1>9 DEF lists
  <2> QED BY <1>5, <1>6, <1>9, <2>1
<1> QED BY <1>7, <1>8, <1>9 DEF ResolveFrame

-----------------------------------------------------------------------------
(* Every step                                                              *)

\* At the start nothing runs, waits or points anywhere.
LEMMA InitLives ==
  ASSUME Init
  PROVE  LivesInv /\ PointsInv
<1>1. PICK root \in Roots :
        /\ life = [b \in Blocks |-> IF b = root THEN "running" ELSE "none"]
        /\ stack = <<OpLoop(root, 0)>>
  BY DEF Init
<1>2. root \in Blocks
  BY TypesAssumption
<1>3. PICK a \in Calls : a = OpLoop(root, 0)
  BY <1>2, MadeCalls
<1>4. a.at = "block" /\ a.block = root /\ a.index = 0
  BY <1>3, MadeBlock
<1>5. Len(stack) = 1 /\ stack[1] = a
  BY <1>1, <1>3
<1>6. /\ Depths = {1} /\ (\A n, at : At(n, at) <=> n = 1 /\ at = "block")
      /\ stack[1].block = root /\ stack[1].index = 0 /\ stack[1].at = "block"
  BY <1>4, <1>5 DEF Depths, At
<1>7. /\ \A b \in Blocks : life[b] = IF b = root THEN "running" ELSE "none"
      /\ \A b \in Blocks : entries[b] = <<>> /\ Len(entries[b]) = 0
      /\ \A f \in Fields : ctx[f] = 0
      /\ owned = {} /\ ret = None
  BY <1>1 DEF Init
<1>8. Range(ready) = {}
  BY DEF Init, Range
<1>9. \A b \in Blocks : Len(Ops[b]) \in Nat
  BY TypesAssumption
<1>10. LoopsLive
  BY <1>2, <1>6, <1>7, <1>9 DEF LoopsLive, LoopRuns, HasLoop
<1>11. WaitsRest
  BY <1>6, <1>7, <1>8 DEF WaitsRest
<1>12. DoneEmpty
  BY <1>7 DEF DoneEmpty
<1>13. PointsInv
  BY <1>5, <1>6, <1>7 DEF PointsInv, SettlesFirst, CallbackPointsAtEntry
<1> QED BY <1>10, <1>11, <1>12, <1>13 DEF LivesInv

\* A step that changes nothing keeps both layers.
LEMMA SameLives ==
  ASSUME TypesInv, CallsInv, FieldsInv, LivesInv, UNCHANGED vars
  PROVE  LivesInv' /\ (PointsInv => PointsInv')
<1>1. TypesInv'
  BY SameCalls
<1>2. /\ stack' = stack /\ ret' = ret /\ UNCHANGED <<life, entries, ctx, link, owned>>
      /\ ready' = ready
  BY DEF vars
<1>3. PICK T \in SUBSET Calls : T = {}
  OBVIOUS
<1>4. Moves(T, T)
  BY <1>1, <1>2, <1>3, StaysMoves
<1>5. Running("process") \/ Running("block") => Len(stack) \in Depths'
  BY <1>2, Here DEF Depths
<1>6. StepsOK(T, T)
  BY <1>3, <1>5 DEF StepsOK, ProcessGoes, NextsSame
<1>7. WaitsGo
  <2>1. ret' # None /\ ret'.kind = "frame" => Rests(ret.of)'
    BY <1>2 DEF LivesInv, WaitsRest, Rests, Adopted
  <2> QED BY <1>2, <2>1 DEF WaitsGo
<1>8. /\ \A t \in T : t.at = Innermost.at
      /\ \A t \in T : t.at = "block" => \/ t.index <= Len(Ops[t.block])
                                        \/ life[t.block] \in {"suspended", "done"}
      /\ \A u \in T : u.at # "settle" /\ (u.at = "process" => Rests(u.block))
      /\ \A t \in T : t \in Calls
  BY <1>3
<1> QED BY <1>1, <1>2, <1>3, <1>4, <1>5, <1>6, <1>7, <1>8, CalmHolds

\* A promise is settled when nothing else is going on, unless resolvers do.
LEMMA SettlesWhenIdle ==
  ASSUME Executed \notin Reentrant, NEW p \in Promises, SettlePromise(p)
  PROVE  stack = <<>>
BY DEF SettlePromise

\* Every step keeps both layers, the one about pointers if resolvers settle
\* nothing.
LEMMA StepLives ==
  ASSUME TypesInv, CallsInv, FieldsInv, LivesInv, Next
  PROVE  LivesInv' /\ (Executed \notin Reentrant => (PointsInv => PointsInv'))
<1>0. TypesInv'
  BY StepCalls
<1> DEFINE Holds == LivesInv' /\ (PointsInv => PointsInv')
<1>1. ASSUME NEW b \in Blocks, ResolverReturnsValue(b) PROVE Holds
  BY <1>0, <1>1, ResolverReturnsValueHolds
<1>2. ASSUME NEW b \in Blocks, ResolverReturnsPromise(b) PROVE Holds
  BY <1>0, <1>2, ResolverReturnsPromiseHolds
<1>3. ASSUME NEW b \in Blocks, BlockTakesResult(b) PROVE Holds
  BY <1>0, <1>3, BlockTakesResultHolds
<1>4. ASSUME NEW b \in Blocks, FinalizeComplete(b) PROVE Holds
  BY <1>0, <1>4, FinalizeCompleteHolds
<1>5. ASSUME NEW b \in Blocks, FinalizeSuspends(b) PROVE Holds
  BY <1>0, <1>5, FinalizeSuspendsHolds
<1>6. ASSUME NEW b \in Blocks, FinalizeReturns(b) PROVE Holds
  BY <1>0, <1>6, FinalizeReturnsHolds
<1>7. ASSUME NEW b \in Blocks, ProcessMoves(b) PROVE Holds
  BY <1>0, <1>7, ProcessMovesHolds
<1>8. ASSUME NEW b \in Blocks, ProcessConsumes(b) PROVE Holds
  BY <1>0, <1>8, ProcessConsumesHolds
<1>9. ASSUME NEW b \in Blocks, ProcessTakesResult(b) PROVE Holds
  BY <1>0, <1>9, ProcessTakesResultHolds
<1>10. ASSUME NEW b \in Blocks, ProcessEnds(b) PROVE Holds
  BY <1>0, <1>10, ProcessEndsHolds
<1>11. ASSUME NEW b \in Blocks, ResolveFrame(b) PROVE Holds
  BY <1>0, <1>11, ResolveFrameHolds
<1>12. ASSUME NEW b \in Blocks, SettleItem(b) PROVE Holds
  BY <1>0, <1>12, SettleItemHolds
<1>13. ASSUME NEW f \in Fields, ItemIsValue(f) PROVE Holds
  BY <1>0, <1>13, ItemIsValueHolds
<1>14. ASSUME NEW f \in Fields, ItemIsPromise(f) PROVE Holds
  BY <1>0, <1>14, ItemIsPromiseHolds
<1>15. ASSUME NEW f \in Fields, ListTakesResult(f) PROVE Holds
  BY <1>0, <1>15, ListTakesResultHolds
<1>16. ASSUME NEW f \in Fields, ListComplete(f) \/ ListPends(f) PROVE Holds
  BY <1>0, <1>16, ListReturnsHolds
<1>17. ASSUME NEW f \in Fields, SettleEntry(f) PROVE Holds
  BY <1>0, <1>17, SettleEntryHolds
<1>18. CASE DrainNext
  BY <1>0, <1>18, DrainNextHolds
<1>19. CASE SettleTakesResult
  BY <1>0, <1>19, SettleTakesResultHolds
<1>20. CASE SettleReturns
  BY <1>0, <1>20, SettleReturnsHolds
<1>21. ASSUME NEW p \in Promises, SettlePromise(p)
       PROVE  LivesInv' /\ (Executed \notin Reentrant => (PointsInv => PointsInv'))
  BY <1>0, <1>21, SettlePromiseHolds, SettlesWhenIdle
<1>22. CASE Delivered
  BY <1>22, SameLives DEF Delivered
<1> QED BY <1>1, <1>2, <1>3, <1>4, <1>5, <1>6, <1>7, <1>8, <1>9, <1>10, <1>11, <1>12, <1>13,
           <1>14, <1>15, <1>16, <1>17, <1>18, <1>19, <1>20, <1>21, <1>22
        DEF Next, EngineStep

\* The three layers below and the one about running frames hold always.
LEMMA LivesHold == Spec => [](TypesInv /\ CallsInv /\ FieldsInv /\ LivesInv)
<1>1. Init => TypesInv /\ CallsInv /\ FieldsInv /\ LivesInv
  BY InitCalls, InitFields, InitLives
<1>2. TypesInv /\ CallsInv /\ FieldsInv /\ LivesInv /\ [Next]_vars
        => (TypesInv /\ CallsInv /\ FieldsInv /\ LivesInv)'
  BY StepCalls, SameCalls, StepFields, SameFields, StepLives, SameLives
<1> QED BY <1>1, <1>2, PTL DEF Spec

-----------------------------------------------------------------------------
(* Who may process a block                                                 *)

\* A block whose operation loop runs is neither processed nor resolved, unless
\* it has adopted a pending list (consume_current_result_now,
\* execute_block_fast, process_frame).
LeftAloneUnlessAdopting ==
  \A i, j \in 1 .. Len(stack) :
    /\ stack[i].at \in {"process", "resolve"}
    /\ stack[j].at = "block"
    /\ stack[j].block = stack[i].block
    => stack[j].index > Len(Ops[stack[j].block]) \/ Adopted(stack[j].block)

\* A frame whose loop runs is left alone because what is processed or
\* resolved rests.
LEMMA LivesLeaveAlone ==
  ASSUME TypesInv, LivesInv
  PROVE  LeftAloneUnlessAdopting
<1>1. SUFFICES ASSUME NEW i \in 1 .. Len(stack), NEW j \in 1 .. Len(stack),
                      stack[i].at \in {"process", "resolve"}, stack[j].at = "block",
                      stack[j].block = stack[i].block,
                      ~(stack[j].index > Len(Ops[stack[j].block]))
               PROVE  Adopted(stack[j].block)
  BY DEF LeftAloneUnlessAdopting
<1>2. i \in Depths /\ j \in Depths /\ stack[j] \in Calls /\ At(j, "block")
      /\ (At(i, "process") \/ At(i, "resolve"))
  BY <1>1 DEF Depths, At, TypesInv
<1>3. PICK b \in Blocks : b = stack[j].block /\ stack[j].index \in Nat /\ Len(Ops[b]) \in Nat
  BY <1>1, <1>2, CallTypes, TypesAssumption
<1>4. LoopRuns(b)
  BY <1>1, <1>2, <1>3 DEF LoopRuns
<1>5. life[b] = "running" \/ Adopted(b)
  BY <1>4 DEF LivesInv, LoopsLive
<1>6. Rests(stack[i].block)
  BY <1>2 DEF LivesInv, WaitsRest
<1>7. Rests(b)
  BY <1>1, <1>3, <1>6
<1> QED BY <1>3, <1>5, <1>7 DEF Rests

\* The drain leaves a running frame alone that has adopted no pending list: what
\* is enqueued, armed or processed has been finalized (the ready queue of
\* drain, the executing guard of resolve_frame).
THEOREM RunningFramesHold == Spec => []LeftAloneUnlessAdopting
BY LivesHold, LivesLeaveAlone, PTL

\* Without list-typed fields nothing is adopted, and a running frame is left
\* alone whatever its resolvers do, settling promises included.
THEOREM ExecutingFrameHolds ==
  ASSUME Lists = {}
  PROVE  Spec => []ExecutingFrameIsLeftAlone
<1>1. ASSUME TypesInv, LivesInv PROVE ExecutingFrameIsLeftAlone
  <2>1. owned = {}
    BY <1>1 DEF TypesInv
  <2>2. LeftAloneUnlessAdopting
    BY <1>1, LivesLeaveAlone
  <2> QED BY <2>1, <2>2 DEF LeftAloneUnlessAdopting, ExecutingFrameIsLeftAlone, Adopted
<1> QED BY <1>1, LivesHold, PTL

-----------------------------------------------------------------------------
(* The operation that is executed                                          *)

\* One operation is executed.
RootsInv == \E root \in Roots : \A b \in Roots : life[b] # "none" <=> b = root

RootsStay == \A b \in Roots : life'[b] # "none" <=> life[b] # "none"

\* The operation that starts is the only one.
LEMMA InitRoots ==
  ASSUME Init
  PROVE  RootsInv
BY TypesAssumption DEF Init, RootsInv

\* It stays the only one while roots keep their state.
LEMMA SameRoots ==
  ASSUME RootsInv, RootsStay
  PROVE  RootsInv' /\ Executed' = Executed
<1>1. PICK root \in Roots : \A b \in Roots : life[b] # "none" <=> b = root
  BY DEF RootsInv
<1>2. \A b \in Roots : life'[b] # "none" <=> b = root
  BY <1>1 DEF RootsStay
<1> QED BY <1>1, <1>2 DEF RootsInv, Executed

\* Only children and items are started, and what has started stays so.
LEMMA StepRoots ==
  ASSUME TypesInv, CallsInv, FieldsInv, Next
  PROVE  RootsStay
<1>1. ASSUME life' = life PROVE RootsStay
  BY <1>1 DEF RootsStay
<1>2. ASSUME NEW f \in Fields, NEW i \in 1 .. Len(Children[f]),
             life' = [life EXCEPT ![Children[f][i]] = "running"]
      PROVE  RootsStay
  BY <1>2, TypesAssumption, TreeAssumption DEF RootsStay, TypesInv
<1>3. ASSUME NEW b \in Blocks, life[b] # "none",
             \E x : x # "none" /\ life' = [life EXCEPT ![b] = x]
      PROVE  RootsStay
  BY <1>3, TypesAssumption DEF RootsStay, TypesInv
<1>4. ASSUME NEW f \in Fields, NEW b, NEW result, CompleteField(b, f, result)
      PROVE  RootsStay
  <2>1. CASE result = "value" /\ f \notin Lists /\ Children[f] # <<>>
    <3>1. 1 \in 1 .. Len(Children[f])
      BY <2>1, ChildFacts
    <3>2. life' = [life EXCEPT ![Children[f][1]] = "running"]
      BY <1>4, <2>1 DEF CompleteField
    <3> QED BY <1>2, <3>1, <3>2
  <2>2. CASE ~(result = "value" /\ f \notin Lists /\ Children[f] # <<>>)
    <3>1. life' = life
      BY <1>4, <2>2 DEF CompleteField
    <3> QED BY <1>1, <3>1
  <2> QED BY <2>1, <2>2
<1>5. ASSUME NEW b \in Items, life' = [life EXCEPT ![b] = "running"] PROVE RootsStay
  <2>1. PICK f \in Fields : f = ListOf(b) /\ \E i \in 1 .. Len(Children[f]) :
                              Children[f][i] = b
    BY ChildFacts
  <2> QED BY <1>2, <1>5, <2>1
<1>6. ASSUME NEW promised, Running("list"), Within(Len(stack)),
             CompleteItem(CurrentItem, promised)
      PROVE  RootsStay
  <2>1. CurrentItem \in Items
    BY <1>6, HereList
  <2>2. life' = [life EXCEPT ![CurrentItem] = "running"] \/ life' = life
    BY <1>6 DEF CompleteItem
  <2> QED BY <1>1, <1>5, <2>1, <2>2
<1>7. ASSUME NEW b \in Blocks, ResolverReturnsValue(b) PROVE RootsStay
  <2>1. CurrentField \in Fields
    BY <1>7, Here, HereBlock DEF ResolverReturnsValue, InOpLoop
  <2> QED BY <1>4, <1>7, <2>1 DEF ResolverReturnsValue
<1>8. ASSUME NEW b \in Blocks, ProcessConsumes(b) PROVE RootsStay
  <2>1. CurrentEntry.field \in Fields
    BY <1>8, HereProcess DEF ProcessConsumes, InProcessLoop
  <2> QED BY <1>1, <1>4, <1>8, <2>1 DEF ProcessConsumes
<1>9. ASSUME NEW b \in Blocks,
             FinalizeComplete(b) \/ FinalizeSuspends(b) \/ ResolveFrame(b)
      PROVE  RootsStay
  <2>1. life[b] # "none"
    BY <1>9, HereStarted
      DEF FinalizeComplete, FinalizeSuspends, ResolveFrame, Finalizing
  <2>2. \E x : x # "none" /\ life' = [life EXCEPT ![b] = x]
    BY <1>9 DEF FinalizeComplete, FinalizeSuspends, ResolveFrame
  <2> QED BY <1>3, <2>1, <2>2
<1>10. ASSUME NEW b \in Blocks, SettleItem(b) PROVE RootsStay
  <2>1. b \in Items /\ (life' = [life EXCEPT ![b] = "running"] \/ life' = life)
    BY <1>10 DEF SettleItem
  <2> QED BY <1>1, <1>5, <2>1
<1>11. ASSUME NEW f \in Fields, ItemIsValue(f) \/ ItemIsPromise(f) PROVE RootsStay
  <2>1. Running("list") /\ Within(Len(stack))
    BY <1>11, HereList DEF ItemIsValue, ItemIsPromise, InItemLoop
  <2>2. \/ CompleteItem(CurrentItem, FALSE) \/ CompleteItem(CurrentItem, TRUE)
        \/ life' = life
    BY <1>11 DEF ItemIsValue, ItemIsPromise
  <2> QED BY <1>1, <1>6, <2>1, <2>2
<1>12. ASSUME NEW b \in Blocks,
              \/ ResolverReturnsPromise(b) \/ BlockTakesResult(b) \/ FinalizeReturns(b)
              \/ ProcessMoves(b) \/ ProcessTakesResult(b) \/ ProcessEnds(b)
       PROVE  RootsStay
  BY <1>1, <1>12 DEF ResolverReturnsPromise, BlockTakesResult, FinalizeReturns, ProcessMoves,
    ProcessTakesResult, ProcessEnds, frames
<1>13. ASSUME NEW f \in Fields,
              \/ ListTakesResult(f) \/ ListComplete(f) \/ ListPends(f) \/ SettleEntry(f)
       PROVE  RootsStay
  BY <1>1, <1>13 DEF ListTakesResult, ListComplete, ListPends, SettleEntry, frames
<1>14. CASE \/ DrainNext \/ SettleTakesResult \/ SettleReturns
            \/ (\E p \in Promises : SettlePromise(p)) \/ Delivered
  BY <1>1, <1>14 DEF DrainNext, SettleTakesResult, SettleReturns, SettlePromise, Delivered,
    vars, frames
<1> QED BY <1>7, <1>8, <1>9, <1>10, <1>11, <1>12, <1>13, <1>14 DEF Next, EngineStep

\* A resolver that settles promises before it returns may settle them inside
\* process_frame, whose rebuilt array the callback pairs do not point at yet.
\* In an operation whose resolvers do not, every callback pair, child frame and
\* pending list points at the entry it settles, also while process_frame rebuilds
\* the array (finalize_pending_entries, process_frame, the entry_index of
\* callback pairs).
THEOREM CallbacksPointHome == Spec => [](Executed \notin Reentrant => CallbackPointsAtEntry)
<1> DEFINE Points == Executed \notin Reentrant => PointsInv
           Inv == TypesInv /\ CallsInv /\ FieldsInv /\ LivesInv /\ RootsInv /\ Points
<1>1. Init => Inv
  BY InitCalls, InitFields, InitLives, InitRoots
<1>2. Inv /\ Next => Inv'
  <2>1. SUFFICES ASSUME Inv, Next PROVE Inv'
    OBVIOUS
  <2>2. RootsInv' /\ Executed' = Executed
    BY <2>1, StepRoots, SameRoots
  <2>3. LivesInv' /\ (Executed \notin Reentrant => (PointsInv => PointsInv'))
    BY <2>1, StepLives
  <2> QED BY <2>1, <2>2, <2>3, StepCalls, StepFields
<1>3. Inv /\ UNCHANGED vars => Inv'
  <2>1. SUFFICES ASSUME Inv, UNCHANGED vars PROVE Inv'
    OBVIOUS
  <2>2. RootsStay
    BY <2>1 DEF RootsStay, vars
  <2>3. RootsInv' /\ Executed' = Executed
    BY <2>1, <2>2, SameRoots
  <2>4. LivesInv' /\ (PointsInv => PointsInv')
    BY <2>1, SameLives
  <2> QED BY <2>1, <2>3, <2>4, SameCalls, SameFields
<1>4. Inv => (Executed \notin Reentrant => CallbackPointsAtEntry)
  BY DEF PointsInv
<1> QED BY <1>1, <1>2, <1>3, <1>4, PTL DEF Spec

-----------------------------------------------------------------------------
(* What is written stays                                                   *)

\* The field that is consumed may be written, and its block is not done unless it
\* has adopted a pending list.
LEMMA HereWrites ==
  ASSUME TypesInv, CallsInv, FieldsInv, LivesInv, Running("block") \/ Running("process"),
         Within(Len(stack)), NEW f \in Fields, f = FieldOf(Len(stack))
  PROVE  values[f] = "unset" /\ (life[Home(f)] = "done" => Adopted(Home(f)))
<1>1. PICK b \in Blocks, i \in Nat \ {0} :
        /\ b = Innermost.block /\ Home(f) = b
        /\ Running("block") => MayHold(f)
        /\ Running("process") => HeldAt(f, i) /\ Waiting(f)
  BY HereField
<1>2. MayWrite(f)
  BY <1>1 DEF MayWrite
<1>3. values[f] = "unset"
  BY <1>2 DEF FieldsInv, WritesOK
<1>4. CASE Running("block")
  <2>1. Adopted(b) \/ life[b] = "running"
    BY <1>1, <1>4, HereRuns
  <2> QED BY <1>1, <1>3, <2>1
<1>5. CASE Running("process")
  <2>1. entries[b] # <<>>
    <3>1. i \in 1 .. Len(entries[b])
      BY <1>1, <1>5 DEF HeldAt
    <3> QED BY <3>1
  <2> QED BY <1>1, <1>3, <2>1 DEF LivesInv, DoneEmpty
<1> QED BY <1>4, <1>5

\* A field is written once, and, unless its block has adopted a pending list,
\* never after the block has been resolved.
WrittenStays ==
  \A f \in Fields :
    values[f] # "unset" \/ (life[Home(f)] = "done" /\ ~Adopted(Home(f))) =>
      values'[f] = values[f]

\* A loop writes the field it is at, which is not written and of a block not
\* resolved.
LEMMA HereStays ==
  ASSUME TypesInv, CallsInv, FieldsInv, LivesInv, Running("block") \/ Running("process"),
         Within(Len(stack)), NEW f \in Fields, f = FieldOf(Len(stack)),
         \A g \in Fields : g # f => values'[g] = values[g]
  PROVE  WrittenStays
BY HereWrites DEF WrittenStays

\* No step writes a field that is written.
LEMMA StepWrites ==
  ASSUME TypesInv, CallsInv, FieldsInv, LivesInv, Next
  PROVE  WrittenStays
<1>1. ASSUME NEW b \in Blocks, ResolverReturnsValue(b) PROVE WrittenStays
  <2>1. /\ Running("block") /\ Within(Len(stack)) /\ FieldOf(Len(stack)) = CurrentField
        /\ CurrentField \in Fields
    BY <1>1, Here, HereBlock DEF ResolverReturnsValue, InOpLoop
  <2>2. PICK f \in Fields : f = CurrentField
    BY <2>1
  <2>3. \A g \in Fields : g # f => values'[g] = values[g]
    <3>1. CompleteField(b, f, answer[f])
      BY <1>1, <2>2 DEF ResolverReturnsValue
    <3> QED BY <3>1, ConsumeFacts DEF CompleteField, tree
  <2> QED BY <2>1, <2>2, <2>3, HereStays
<1>2. ASSUME NEW b \in Blocks, BlockTakesResult(b) PROVE WrittenStays
  <2>1. /\ Running("block") /\ Within(Len(stack)) /\ FieldOf(Len(stack)) = CurrentField
        /\ CurrentField \in Fields
    BY <1>2, Here, HereBlock DEF BlockTakesResult
  <2>2. PICK f \in Fields : f = CurrentField
    BY <2>1
  <2>3. \A g \in Fields : g # f => values'[g] = values[g]
    <3>1. values' = values \/ Consume(b, f, ret.null, TRUE, FALSE)
      BY <1>2, <2>2 DEF BlockTakesResult, tree
    <3> QED BY <3>1, ConsumeFacts
  <2> QED BY <2>1, <2>2, <2>3, HereStays
<1>3. ASSUME NEW b \in Blocks, ProcessConsumes(b) PROVE WrittenStays
  <2>1. /\ Running("process") /\ Within(Len(stack))
        /\ FieldOf(Len(stack)) = CurrentEntry.field /\ CurrentEntry.field \in Fields
    BY <1>3, HereProcess DEF ProcessConsumes, InProcessLoop
  <2>2. PICK f \in Fields : f = CurrentEntry.field
    BY <2>1
  <2>3. \A g \in Fields : g # f => values'[g] = values[g]
    <3>1. CASE CompleteField(b, f, answer[f])
      BY <3>1, ConsumeFacts DEF CompleteField, tree
    <3>2. CASE Consume(b, f, nulled[Children[f][1]], TRUE, FALSE)
      BY <3>2, ConsumeFacts
    <3>3. CASE values' = [values EXCEPT ![f] = IF ListNulls(f) THEN "null" ELSE "value"]
      BY <3>3 DEF TypesInv
    <3> QED BY <1>3, <2>2, <3>1, <3>2, <3>3 DEF ProcessConsumes
  <2> QED BY <2>1, <2>2, <2>3, HereStays
<1>4. ASSUME NEW b \in Blocks, ProcessTakesResult(b) PROVE WrittenStays
  <2>1. /\ Running("process") /\ Within(Len(stack))
        /\ FieldOf(Len(stack)) = CurrentEntry.field /\ CurrentEntry.field \in Fields
    BY <1>4, Here, HereProcess DEF ProcessTakesResult
  <2>2. PICK f \in Fields : f = CurrentEntry.field
    BY <2>1
  <2>3. \A g \in Fields : g # f => values'[g] = values[g]
    <3>1. values' = values \/ Consume(b, f, ret.null, TRUE, FALSE)
      BY <1>4, <2>2 DEF ProcessTakesResult, tree
    <3> QED BY <3>1, ConsumeFacts
  <2> QED BY <2>1, <2>2, <2>3, HereStays
<1>5. ASSUME values' = values PROVE WrittenStays
  BY <1>5 DEF WrittenStays
<1>6. ASSUME NEW b \in Blocks,
             \/ ResolverReturnsPromise(b) \/ FinalizeComplete(b) \/ FinalizeSuspends(b)
             \/ FinalizeReturns(b) \/ ProcessMoves(b) \/ ProcessEnds(b)
             \/ ResolveFrame(b) \/ SettleItem(b)
      PROVE  WrittenStays
  BY <1>5, <1>6 DEF ResolverReturnsPromise, FinalizeComplete, FinalizeSuspends,
    FinalizeReturns, ProcessMoves, ProcessEnds, ResolveFrame, SettleItem, tree
<1>7. ASSUME NEW f \in Fields,
             \/ ItemIsValue(f) \/ ItemIsPromise(f) \/ ListTakesResult(f)
             \/ ListComplete(f) \/ ListPends(f) \/ SettleEntry(f)
      PROVE  WrittenStays
  BY <1>5, <1>7 DEF ItemIsValue, ItemIsPromise, ListTakesResult, ListComplete, ListPends,
    SettleEntry, tree
<1>8. CASE DrainNext \/ SettleTakesResult \/ SettleReturns
  BY <1>5, <1>8 DEF DrainNext, SettleTakesResult, SettleReturns, tree
<1>9. CASE (\E p \in Promises : SettlePromise(p)) \/ Delivered
  BY <1>5, <1>9 DEF SettlePromise, Delivered, vars, tree
<1> QED BY <1>1, <1>2, <1>3, <1>4, <1>6, <1>7, <1>8, <1>9 DEF Next, EngineStep

\* Every field is written at most once, by the loop or the process_frame that
\* completes it, and not after its block was resolved unless that has adopted a
\* pending list (consume_current_result_now, process_frame, resolve_frame).
THEOREM WritesHold == Spec => [][WrittenStays]_vars
<1>1. ASSUME TypesInv, CallsInv, FieldsInv, LivesInv, [Next]_vars
      PROVE  [WrittenStays]_vars
  BY <1>1, StepWrites
<1> QED BY <1>1, LivesHold, PTL DEF Spec

\* Without list-typed fields no field is written after its block was resolved.
THEOREM ValuesHold ==
  ASSUME Lists = {}
  PROVE  Spec => ValuesAreFinal
<1>1. ASSUME TypesInv, CallsInv, FieldsInv, LivesInv, [Next]_vars
      PROVE  [\A f \in Fields : values[f] # "unset" \/ life[Home(f)] = "done" =>
                values'[f] = values[f]]_vars
  <2>1. owned = {}
    BY <1>1 DEF TypesInv
  <2>2. CASE Next
    <3>1. WrittenStays
      BY <1>1, <2>2, StepWrites
    <3> QED BY <2>1, <3>1 DEF WrittenStays, Adopted
  <2>3. CASE UNCHANGED vars
    BY <2>3
  <2> QED BY <1>1, <2>2, <2>3
<1> QED BY <1>1, LivesHold, PTL DEF Spec, ValuesAreFinal

-----------------------------------------------------------------------------
(* The types, the counts of list items included *)

LeftInv == left \in [Lists -> Nat \cup {None}]

\* A list that pends counts finitely many items (list_pending_handle_sv).
LEMMA PendingCountFacts ==
  ASSUME NEW f \in Lists
  PROVE  Cardinality({b \in ItemsOf(f) : item[b].value = "none"}) \in Nat
<1>1. /\ Children[f] \in Seq(Blocks) /\ Len(Children[f]) \in Nat
      /\ DOMAIN Children[f] = 1 .. Len(Children[f])
  BY TypesAssumption
<1>2. ItemsOf(f) = {Children[f][i] : i \in DOMAIN Children[f]}
  BY DEF ItemsOf, Range
<1>3. Children[f] \in Surjection(1 .. Len(Children[f]), ItemsOf(f))
  <2>1. Children[f] \in [1 .. Len(Children[f]) -> ItemsOf(f)]
    BY <1>1, <1>2
  <2>2. \A b \in ItemsOf(f) : \E i \in 1 .. Len(Children[f]) : Children[f][i] = b
    BY <1>1, <1>2
  <2> QED BY <2>1, <2>2 DEF Surjection
<1>4. IsFiniteSet(1 .. Len(Children[f]))
  BY <1>1, FS_Interval
<1>5. IsFiniteSet(ItemsOf(f))
  BY <1>3, <1>4, FS_Surjection
<1>6. IsFiniteSet({b \in ItemsOf(f) : item[b].value = "none"})
  BY <1>5, FS_Subset
<1> QED BY <1>6, FS_CardinalityType

\* A resolving item counts its list down, and never below zero
\* (xs_list_pending_callback).
LEMMA ItemResolvesLeft ==
  ASSUME LeftInv, NEW b, NEW null, NEW raised, NEW newStack,
         ItemResolves(b, null, raised, newStack)
  PROVE  LeftInv'
<1>1. PICK f : f = ListOf(b)
  OBVIOUS
<1>2. PICK count : count = IF left[f] # None /\ left[f] > 0 THEN left[f] - 1 ELSE 0
  OBVIOUS
<1>3. left' = left \/ left' = [left EXCEPT ![f] = count]
  BY <1>1, <1>2 DEF ItemResolves
<1>4. f \in Lists => count \in Nat
  BY <1>2 DEF LeftInv
<1>5. CASE f \in Lists
  BY <1>3, <1>4, <1>5 DEF LeftInv
<1>6. CASE f \notin Lists
  <2>1. left' = left
    BY <1>3, <1>6 DEF LeftInv
  <2> QED BY <2>1 DEF LeftInv
<1> QED BY <1>5, <1>6

\* The counts stay numbers: a list sets its count when it pends, its items
\* count it down, and nobody else writes it.
LEMMA StepLeft ==
  ASSUME TypesInv, CallsInv, LeftInv, [Next]_vars
  PROVE  LeftInv'
<1>1. CASE UNCHANGED left
  BY <1>1 DEF LeftInv
<1>2. ASSUME NEW f \in Fields, ListPends(f) PROVE LeftInv'
  <2>1. f \in Lists
    BY <1>2, Here, HereList DEF ListPends, InItemLoop
  <2>2. PICK n \in Nat : n = Cardinality({b \in ItemsOf(f) : item[b].value = "none"})
    BY <2>1, PendingCountFacts
  <2>3. left' = [left EXCEPT ![f] = n]
    BY <1>2, <2>2 DEF ListPends
  <2> QED BY <2>1, <2>2, <2>3 DEF LeftInv
<1>3. ASSUME NEW b \in Blocks, ResolveFrame(b) PROVE LeftInv'
  BY <1>1, <1>3, ItemResolvesLeft DEF ResolveFrame, lists
<1>4. ASSUME NEW b \in Blocks, SettleItem(b) PROVE LeftInv'
  BY <1>1, <1>4, ItemResolvesLeft DEF SettleItem, lists
<1>5. CASE SettleTakesResult
  BY <1>1, <1>5, ItemResolvesLeft DEF SettleTakesResult
<1>6. ASSUME NEW b \in Blocks,
             \/ ResolverReturnsValue(b) \/ ResolverReturnsPromise(b) \/ BlockTakesResult(b)
             \/ FinalizeComplete(b) \/ FinalizeSuspends(b) \/ FinalizeReturns(b)
             \/ ProcessMoves(b) \/ ProcessConsumes(b) \/ ProcessTakesResult(b)
             \/ ProcessEnds(b)
      PROVE  LeftInv'
  <2>1. UNCHANGED left
    BY <1>6 DEF ResolverReturnsValue, ResolverReturnsPromise, BlockTakesResult,
      FinalizeComplete, FinalizeSuspends, FinalizeReturns, ProcessMoves,
      ProcessConsumes, ProcessTakesResult, ProcessEnds, lists
  <2> QED BY <1>1, <2>1
<1>7. ASSUME NEW f \in Fields,
             \/ ItemIsValue(f) \/ ItemIsPromise(f) \/ ListTakesResult(f)
             \/ ListComplete(f) \/ SettleEntry(f)
      PROVE  LeftInv'
  <2>1. UNCHANGED left
    BY <1>7 DEF ItemIsValue, ItemIsPromise, ListTakesResult, ListComplete,
      SettleEntry, lists
  <2> QED BY <1>1, <2>1
<1>8. CASE DrainNext \/ SettleReturns \/ (\E p \in Promises : SettlePromise(p)) \/ Delivered
  <2>1. UNCHANGED left
    BY <1>8 DEF DrainNext, SettleReturns, SettlePromise, Delivered, vars, lists
  <2> QED BY <1>1, <2>1
<1>9. CASE UNCHANGED vars
  BY <1>1, <1>9 DEF vars, lists
<1> QED BY <1>2, <1>3, <1>4, <1>5, <1>6, <1>7, <1>8, <1>9 DEF Next, EngineStep

\* Frames, entries, slots, counts and the ready queue have their types in every
\* state of every selection (pending_unresolved, the unresolved_count of
\* list_pending_handle_sv and xs_list_pending_callback).
THEOREM TypesHold == Spec => []TypeOK
<1>1. Init => LeftInv
  BY DEF Init, LeftInv
<1>2. TypesInv /\ CallsInv /\ LeftInv /\ [Next]_vars => LeftInv'
  BY StepLeft
<1>3. TypesInv /\ LeftInv => TypeOK
  BY DEF TypesInv, LeftInv, TypeOK, ItemSet
<1> QED BY <1>1, <1>2, <1>3, LivesHold, PTL DEF Spec

===================================================================================
