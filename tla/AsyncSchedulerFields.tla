-------------------------- MODULE AsyncSchedulerFields --------------------------
(***************************************************************************)
(* What may still happen to a field and to a block in AsyncScheduler, for  *)
(* every selection: it may be entered in an array only while its loop has  *)
(* not passed it, written only while it was not, and its block executed    *)
(* only once.  No step gives such a permission back, and a step that uses  *)
(* one loses it.  The theorems of AsyncSchedulerProofs follow from         *)
(* FieldsHold.                                                             *)
(***************************************************************************)
EXTENDS AsyncSchedulerCalls

-----------------------------------------------------------------------------
(* What may still happen to a field                                       *)

\* Block call n has not come to field f.
Ahead(n, f) ==
  /\ At(n, "block")
  /\ \E i \in 1 .. Len(Ops[stack[n].block]) :
       /\ Ops[stack[n].block][i] = f /\ i > stack[n].index
       /\ ~(Calling(n) /\ i = stack[n].index + 1)

Untouched(f) == life[Home(f)] = "none" \/ \E n \in Depths : Ahead(n, f)

\* Block call n is completing field f.
AtField(n, f) == At(n, "block") /\ Calling(n) /\ FieldOf(n) = f

\* Entry i of its block holds f.
HeldAt(f, i) == i \in 1 .. Len(entries[Home(f)]) /\ entries[Home(f)][i].field = f
NotHeld(f) ==
  \A i \in 1 .. Len(entries[Home(f)]) : entries[Home(f)][i].field # f

\* Entry i of block b is handled, or being completed.
InHand(b, i) ==
  \/ Handled(b, i)
  \/ \E n \in Depths : At(n, "process") /\ stack[n].block = b
                       /\ Calling(n) /\ i = stack[n].index + 1

\* An entry holds f that is not handled; one that is a promise, and not in hand.
Waiting(f) ==
  \E i \in 1 .. Len(entries[Home(f)]) : HeldAt(f, i) /\ ~Handled(Home(f), i)
Asleep(f) ==
  \E i \in 1 .. Len(entries[Home(f)]) :
    HeldAt(f, i) /\ entries[Home(f)][i].kind = "promise" /\ ~InHand(Home(f), i)

\* A process call has moved an entry for f to the rebuilt array.
Moved(f, kind) ==
  \E n \in Depths :
    At(n, "process") /\ \E j \in 1 .. Len(stack[n].next) :
      stack[n].next[j].field = f /\ stack[n].next[j].kind = kind

\* An entry for f may be made.
MayHold(f) == Untouched(f) \/ \E n \in Depths : AtField(n, f)

\* f may be written.
MayWrite(f) == MayHold(f) \/ Waiting(f) \/ \E kind \in Kinds : Moved(f, kind)

\* f may be completed by executing what it selects.
MayComplete(f) == Untouched(f) \/ Asleep(f) \/ Moved(f, "promise")

\* List call n has not come to item c.
BeforeItem(n, c) ==
  /\ At(n, "list")
  /\ \E i \in 1 .. Len(Children[stack[n].field]) :
       /\ Children[stack[n].field][i] = c /\ i > stack[n].index
       /\ ~(Calling(n) /\ i = stack[n].index + 1)

ChildOf(c, f) == \E i \in 1 .. Len(Children[f]) : Children[f][i] = c

\* Block c may be executed, or subscribed to.
MayStart(c) ==
  \/ \E f \in Fields : MayComplete(f) /\ ChildOf(c, f)
  \/ \E n \in Depths : BeforeItem(n, c)

\* A callback is waiting to execute item c.
Subscribed(c) ==
  \/ \E p \in Promises : c \in subs[p]
  \/ \E n \in Depths : At(n, "settle") /\ c \in stack[n].waiting

HoldsKept == \A f \in Fields : MayHold(f) => NotHeld(f)
WritesOK == \A f \in Fields : MayWrite(f) => values[f] = "unset"
StartsOK ==
  \A c \in Blocks : /\ MayStart(c) => life[c] = "none" /\ ~Subscribed(c)
                    /\ Subscribed(c) => life[c] = "none"

EntryOK(e) ==
  /\ e.kind = "promise" => e.field \in DOMAIN PromiseOf
  /\ e.kind = "block" => e.field \notin Lists /\ Children[e.field] # <<>>
  /\ e.kind = "list" => e.field \in Lists
  /\ e.state = "unarmed" => e.kind = "promise"

\* The entries of an array are of different fields.
ArrayOK(es) ==
  /\ \A i, j \in 1 .. Len(es) : es[i].field = es[j].field => i = j
  /\ \A i \in 1 .. Len(es) : EntryOK(es[i])

ArraysOK ==
  /\ \A b \in Blocks : /\ ArrayOK(entries[b])
                       /\ \A i \in 1 .. Len(entries[b]) : Home(entries[b][i].field) = b
  /\ \A n \in Depths : At(n, "process") =>
       /\ ArrayOK(stack[n].next)
       /\ \A j \in 1 .. Len(stack[n].next) : \E i \in 1 .. stack[n].index :
            entries[stack[n].block][i].field = stack[n].next[j].field

\* A block has one operation loop, and is processed after it.
LoopsOnce ==
  /\ \A m, n \in Depths : At(m, "block") /\ At(n, "block") =>
       (stack[m].block = stack[n].block => m = n)
  /\ \A m, n \in Depths : At(m, "block") /\ (At(n, "process") \/ At(n, "resolve")) =>
       (stack[m].block = stack[n].block => m < n)

\* Only what has started is called, waits or is waited for.
CallsStarted ==
  \A n \in Depths : At(n, "block") \/ At(n, "process") \/ At(n, "resolve") =>
    life[stack[n].block] # "none"

StartedOK ==
  /\ CallsStarted
  /\ \A b \in Blocks : b \in Range(ready) => life[b] # "none"
  /\ ret # None /\ ret.kind = "frame" => life[ret.of] # "none"
  /\ \A f \in Fields : ctx[f] # 0 => life[Home(f)] # "none"
  /\ \A f \in owned : life[Home(f)] # "none"
  /\ \A f \in Fields : \A i \in 1 .. Len(Children[f]) :
       LET c == Children[f][i] IN
       life[c] # "none" \/ Subscribed(c) => life[Home(f)] # "none"

EnteredOK == LoopsOnce /\ StartedOK

\* A position waits for its own promise, once.
SubscribedOK ==
  /\ \A p \in Promises : \A x \in subs[p] :
       x \in DOMAIN PromiseOf /\ PromiseOf[x] = p /\ promise[p] = "pending"
  /\ \A n \in Depths : At(n, "settle") => \A x \in stack[n].waiting :
       x \in DOMAIN PromiseOf /\ promise[PromiseOf[x]] = "settled"
  /\ \A m, n \in Depths : At(m, "settle") /\ At(n, "settle") /\ m # n =>
       stack[m].waiting \cap stack[n].waiting = {}

FieldsInv ==
  HoldsKept /\ WritesOK /\ StartsOK /\ ArraysOK /\ EnteredOK /\ SubscribedOK

-----------------------------------------------------------------------------
(* What a step does to the calls                                           *)

\* Call n goes on as it was.
CallStays(n) ==
  n \in Depths' /\ stack'[n] = stack[n] /\ (Calling(n) => Calling(n)')

\* The innermost call may become one of T, or return; one of U may be made.
Moves(T, U) ==
  /\ \A n \in Depths :
       CallStays(n) \/ (n = Len(stack) /\ (n \notin Depths' \/ stack'[n] \in T))
  /\ \A n \in Depths' : n \in Depths \/ (n = Len(stack) + 1 /\ stack'[n] \in U)

\* t is the innermost call, further on.
Onward(t) ==
  /\ t.at \in {"block", "list"} => t.at = Innermost.at /\ t.index > Innermost.index
  /\ t.at = "block" => t.block = Innermost.block
  /\ t.at = "list" => t.field = Innermost.field
  /\ t.at \in {"process", "resolve"} =>
       Innermost.at = "process" /\ t.block = Innermost.block

\* Call u starts something that may be started.
Starts(u) ==
  /\ u.at # "resolve"
  /\ u.at = "block" => life[u.block] = "none" /\ life'[u.block] # "none"
  /\ u.at = "list" => MayComplete(u.field)
  /\ u.at = "process" => life[u.block] # "none" /\ u.next = <<>> /\ u.index = 0

\* Calls below the one that acts stay where they are.
LEMMA BelowStays ==
  ASSUME TypesInv, TypesInv', NEW k \in Nat, k <= Len(stack), k <= Len(stack'), SameBelow(k),
         k # 0 => (Calling(k) => Calling(k)')
  PROVE  \A n \in 1 .. k : n \in Depths /\ CallStays(n)
<1>1. Len(stack) \in Nat /\ Len(stack') \in Nat
  BY DEF TypesInv
<1>2. \A n \in 1 .. k : stack'[n] = stack[n] /\ n \in Depths /\ n \in Depths'
  BY <1>1 DEF SameBelow, Depths
<1>3. \A n \in 1 .. k : n < k => (Calling(n)' <=> Calling(n))
  <2>1. SUFFICES ASSUME NEW n \in 1 .. k, n < k PROVE Calling(n)' <=> Calling(n)
    OBVIOUS
  <2>2. n + 1 \in 1 .. k /\ n # Len(stack) /\ n # Len(stack')
    BY <1>1, <2>1
  <2>3. stack'[n + 1] = stack[n + 1]
    BY <2>2, <1>2
  <2> QED BY <2>2, <2>3 DEF Calling
<1>4. \A n \in 1 .. k : n < k \/ (k # 0 /\ n = k)
  OBVIOUS
<1> QED BY <1>2, <1>3, <1>4 DEF CallStays

\* Going on is a move of one call.
LEMMA BecomesMoves ==
  ASSUME TypesInv, TypesInv', NEW t \in Calls, Becomes(t), SameCall(t)
  PROVE  Moves({t}, {})
<1>1. PICK L \in Nat : L = Len(stack)
  BY DEF TypesInv
<1>2. PICK k \in Nat : k = L - 1
  BY <1>1, Shorter DEF Becomes
<1>3. /\ stack # <<>> /\ Len(stack') = L /\ L = k + 1 /\ SameBelow(k) /\ stack'[L] = t
      /\ L \in Depths /\ Innermost = stack[L] /\ Depths = 1 .. L /\ Depths' = 1 .. L
      /\ \A n \in 1 .. L : n = L \/ n \in 1 .. k
  BY <1>1, <1>2, InnermostFacts DEF Becomes, Depths
<1>4. k # 0 => (Calling(k) => Calling(k)')
  BY <1>1, <1>3 DEF Calling, SameCall
<1>5. \A n \in 1 .. k : CallStays(n)
  BY <1>1, <1>3, <1>4, BelowStays
<1> QED BY <1>1, <1>3, <1>5 DEF Moves

\* Making a call is a move that adds one.
LEMMA EntersMoves ==
  ASSUME TypesInv, TypesInv', NEW u \in Calls, Enters(u), ret = None
  PROVE  Moves({}, {u})
<1>1. PICK L \in Nat : L = Len(stack)
  BY DEF TypesInv
<1>2. /\ Len(stack') = L + 1 /\ SameBelow(L) /\ stack'[L + 1] = u
      /\ Depths = 1 .. L /\ Depths' = 1 .. L + 1
      /\ \A n \in 1 .. L + 1 : n = L + 1 \/ n \in 1 .. L
  BY <1>1 DEF Enters, Depths
<1>3. L # 0 => ~Calling(L)
  BY <1>1 DEF Calling
<1>4. \A n \in 1 .. L : CallStays(n)
  BY <1>1, <1>2, <1>3, BelowStays
<1> QED BY <1>1, <1>2, <1>4 DEF Moves

\* Returning is a move that removes one.
LEMMA LeavesMoves ==
  ASSUME TypesInv, TypesInv', Leaves,
         Innermost.at \in {"block", "list"} => ret' # None \/ Len(stack) = 1
  PROVE  Moves({}, {})
<1>1. PICK L \in Nat : L = Len(stack)
  BY DEF TypesInv
<1>2. PICK k \in Nat : k = L - 1
  BY <1>1, Shorter DEF Leaves
<1>3. /\ stack # <<>> /\ Len(stack') = k /\ L = k + 1 /\ SameBelow(k)
      /\ Innermost = stack[L] /\ Depths = 1 .. L /\ Depths' = 1 .. k
      /\ \A n \in 1 .. L : n = L \/ n \in 1 .. k
      /\ \A n \in 1 .. k : n \in 1 .. L
  BY <1>1, <1>2, InnermostFacts DEF Leaves, Depths
<1>4. k # 0 => (Calling(k) => Calling(k)')
  BY <1>1, <1>3 DEF Calling
<1>5. \A n \in 1 .. k : CallStays(n)
  BY <1>1, <1>3, <1>4, BelowStays
<1>6. L \notin Depths'
  BY <1>3
<1> QED BY <1>1, <1>3, <1>5, <1>6 DEF Moves

\* Going on and making a call is a move of one that adds one.
LEMMA BecomesAndEntersMoves ==
  ASSUME TypesInv, TypesInv', NEW t \in Calls, NEW u \in Calls,
         BecomesAndEnters(t, u), SameCall(t)
  PROVE  Moves({t}, {u})
<1>1. PICK L \in Nat : L = Len(stack)
  BY DEF TypesInv
<1>2. PICK k \in Nat : k = L - 1
  BY <1>1, Shorter DEF BecomesAndEnters
<1>3. /\ stack # <<>> /\ Len(stack') = L + 1 /\ L = k + 1 /\ SameBelow(k)
      /\ stack'[L] = t /\ stack'[L + 1] = u
      /\ L \in Depths /\ Innermost = stack[L] /\ Depths = 1 .. L /\ Depths' = 1 .. L + 1
      /\ \A n \in 1 .. L : n = L \/ n \in 1 .. k
      /\ \A n \in 1 .. L + 1 : n = L + 1 \/ n \in 1 .. L
  BY <1>1, <1>2, InnermostFacts DEF BecomesAndEnters, Depths
<1>4. k # 0 => (Calling(k) => Calling(k)')
  BY <1>1, <1>3 DEF Calling, SameCall
<1>5. \A n \in 1 .. k : CallStays(n)
  BY <1>1, <1>3, <1>4, BelowStays
<1> QED BY <1>1, <1>3, <1>5 DEF Moves

\* A step that leaves the stack alone moves nothing.
LEMMA StaysMoves ==
  ASSUME TypesInv, TypesInv', stack' = stack, ret' = ret
  PROVE  Moves({}, {})
<1>1. \A n \in Depths : CallStays(n)
  BY DEF CallStays, Depths, Calling
<1> QED BY <1>1 DEF Moves, Depths

\* Call n is call m, gone on.
GoesOn(m, n) ==
  \/ stack[m].index < stack'[n].index
  \/ stack[m].index = stack'[n].index /\ (Calling(m) => Calling(n)')

\* A loop over a block has gone on, or starts a block that may be started; a
\* loop over a list has gone on, or starts a list that may be completed.
LoopsKept ==
  \A n \in Depths' : At(n, "block")' =>
    \/ life[stack'[n].block] = "none"
    \/ \E m \in Depths : /\ At(m, "block") /\ stack[m].block = stack'[n].block
                         /\ GoesOn(m, n)
ListsKept ==
  \A n \in Depths' : At(n, "list")' =>
    \/ MayComplete(stack'[n].field)
    \/ \E m \in Depths : /\ At(m, "list") /\ stack[m].field = stack'[n].field
                         /\ GoesOn(m, n)

\* A call after the step is the same call, the innermost one further on, or new.
LEMMA MovedCall ==
  ASSUME TypesInv, TypesInv', NEW T, NEW U, Moves(T, U), NEW n \in Depths'
  PROVE  /\ stack'[n] \in Calls
         /\ \A at : At(n, at)' <=> stack'[n].at = at
         /\ \/ n \in Depths /\ stack'[n] = stack[n] /\ (Calling(n) => Calling(n)')
               /\ \A at : At(n, at) <=> At(n, at)'
            \/ n \in Depths /\ n = Len(stack) /\ stack'[n] \in T /\ Innermost = stack[n]
               /\ \A at : At(n, at) <=> Innermost.at = at
            \/ n \notin Depths /\ n = Len(stack) + 1 /\ stack'[n] \in U
<1>1. stack' \in Seq(Calls) /\ Depths' = 1 .. Len(stack')
  BY DEF TypesInv, Depths
<1>2. stack'[n] \in Calls
  BY <1>1
<1>3. \A at : At(n, at)' <=> stack'[n].at = at
  BY DEF At
<1>4. n \in Depths => (\A at : At(n, at) <=> stack[n].at = at)
  BY DEF At
<1>5. \/ n \in Depths /\ CallStays(n)
      \/ n \in Depths /\ n = Len(stack) /\ stack'[n] \in T
      \/ n \notin Depths /\ n = Len(stack) + 1 /\ stack'[n] \in U
  BY DEF Moves
<1> QED BY <1>2, <1>3, <1>4, <1>5 DEF CallStays, Innermost

\* Loops only go forward: what a loop has passed it does not come to again.
LEMMA MovesLoops ==
  ASSUME TypesInv, TypesInv', NEW T, NEW U, Moves(T, U),
         \A t \in T : Onward(t), \A u \in U : Starts(u)
  PROVE  LoopsKept /\ ListsKept
<1>1. ASSUME NEW n \in Depths', At(n, "block")'
      PROVE  \/ life[stack'[n].block] = "none"
             \/ \E m \in Depths : /\ At(m, "block") /\ stack[m].block = stack'[n].block
                                  /\ GoesOn(m, n)
  <2>1. stack'[n].at = "block"
    BY <1>1 DEF At
  <2>2. CASE n \in Depths /\ stack'[n] = stack[n] /\ (Calling(n) => Calling(n)')
             /\ \A at : At(n, at) <=> At(n, at)'
    BY <1>1, <2>2 DEF GoesOn
  <2>3. CASE n \in Depths /\ n = Len(stack) /\ stack'[n] \in T /\ Innermost = stack[n]
             /\ \A at : At(n, at) <=> Innermost.at = at
    BY <2>1, <2>3 DEF GoesOn, Onward
  <2>4. CASE n \notin Depths /\ n = Len(stack) + 1 /\ stack'[n] \in U
    BY <2>1, <2>4 DEF Starts
  <2> QED BY <2>2, <2>3, <2>4, MovedCall
<1>2. ASSUME NEW n \in Depths', At(n, "list")'
      PROVE  \/ MayComplete(stack'[n].field)
             \/ \E m \in Depths : /\ At(m, "list") /\ stack[m].field = stack'[n].field
                                  /\ GoesOn(m, n)
  <2>1. stack'[n].at = "list"
    BY <1>2 DEF At
  <2>2. CASE n \in Depths /\ stack'[n] = stack[n] /\ (Calling(n) => Calling(n)')
             /\ \A at : At(n, at) <=> At(n, at)'
    BY <1>2, <2>2 DEF GoesOn
  <2>3. CASE n \in Depths /\ n = Len(stack) /\ stack'[n] \in T /\ Innermost = stack[n]
             /\ \A at : At(n, at) <=> Innermost.at = at
    BY <2>1, <2>3 DEF GoesOn, Onward
  <2>4. CASE n \notin Depths /\ n = Len(stack) + 1 /\ stack'[n] \in U
    BY <2>1, <2>4 DEF Starts
  <2> QED BY <2>2, <2>3, <2>4, MovedCall
<1> QED BY <1>1, <1>2 DEF LoopsKept, ListsKept

\* A block that has started has not started again.
LivesKept == \A b \in Blocks : life'[b] = "none" => life[b] = "none"

\* A block has one operation loop, which belongs to a block that has started.
LEMMA MovesEntered ==
  ASSUME TypesInv, TypesInv', LoopsOnce, CallsStarted, NEW T, NEW U, Moves(T, U),
         \A t \in T : Onward(t), \A u \in U : Starts(u), LivesKept
  PROVE  LoopsOnce' /\ CallsStarted'
<1> DEFINE Old(n) == /\ n \in Depths
                     /\ At(n, "block")' =>
                          At(n, "block") /\ stack[n].block = stack'[n].block
                     /\ At(n, "process")' \/ At(n, "resolve")' =>
                          /\ At(n, "process") \/ At(n, "resolve")
                          /\ stack[n].block = stack'[n].block
           New(n) == n \notin Depths /\ n = Len(stack) + 1 /\ Starts(stack'[n])
<1>1. ASSUME NEW n \in Depths' PROVE Old(n) \/ New(n)
  <2>1. CASE n \in Depths /\ stack'[n] = stack[n] /\ (Calling(n) => Calling(n)')
             /\ \A at : At(n, at) <=> At(n, at)'
    BY <2>1
  <2>2. CASE n \in Depths /\ n = Len(stack) /\ stack'[n] \in T /\ Innermost = stack[n]
             /\ \A at : At(n, at) <=> Innermost.at = at
    BY <2>2, MovedCall DEF Onward
  <2>3. CASE n \notin Depths /\ n = Len(stack) + 1 /\ stack'[n] \in U
    BY <2>3
  <2> QED BY <2>1, <2>2, <2>3, MovedCall
<1>2. \A n \in Depths' : stack'[n] \in Calls /\ (\A at : At(n, at)' <=> stack'[n].at = at)
  BY MovedCall
<1>3. ASSUME NEW n \in Depths', Old(n), At(n, "block")' \/ At(n, "process")' \/ At(n, "resolve")'
      PROVE  life[stack'[n].block] # "none"
  BY <1>3 DEF CallsStarted
<1>4. ASSUME NEW n \in Depths', New(n), At(n, "block")' \/ At(n, "process")' \/ At(n, "resolve")'
      PROVE  /\ At(n, "block")' => life[stack'[n].block] = "none" /\ life'[stack'[n].block] # "none"
             /\ ~At(n, "block")' => life[stack'[n].block] # "none"
  BY <1>4, <1>2 DEF Starts
<1>5. \A n \in Depths' : At(n, "block")' \/ At(n, "process")' \/ At(n, "resolve")'
                         => stack'[n].block \in Blocks
  BY <1>2, CallTypes
<1>6. CallsStarted'
  <2>1. SUFFICES ASSUME NEW n \in Depths',
                        At(n, "block")' \/ At(n, "process")' \/ At(n, "resolve")'
                 PROVE  life'[stack'[n].block] # "none"
    BY DEF CallsStarted
  <2>2. CASE Old(n)
    BY <2>1, <2>2, <1>3, <1>5 DEF LivesKept
  <2>3. CASE New(n)
    BY <2>1, <2>3, <1>4, <1>5 DEF LivesKept
  <2> QED BY <2>2, <2>3, <1>1
<1>7. ASSUME NEW m \in Depths', NEW n \in Depths', At(m, "block")', At(n, "block")',
             stack'[m].block = stack'[n].block
      PROVE  m = n
  <2>1. CASE Old(m) /\ Old(n)
    BY <1>7, <2>1 DEF LoopsOnce
  <2>2. CASE New(m) /\ New(n)
    BY <2>2
  <2>3. CASE Old(m) /\ New(n)
    BY <1>7, <2>3, <1>3, <1>4
  <2>4. CASE New(m) /\ Old(n)
    BY <1>7, <2>4, <1>3, <1>4
  <2> QED BY <2>1, <2>2, <2>3, <2>4, <1>1
<1>8. ASSUME NEW m \in Depths', NEW n \in Depths', At(m, "block")',
             At(n, "process")' \/ At(n, "resolve")', stack'[m].block = stack'[n].block
      PROVE  m < n
  <2>1. CASE Old(m) /\ Old(n)
    BY <1>8, <2>1 DEF LoopsOnce
  <2>2. CASE New(m) /\ New(n)
    BY <1>8, <2>2, <1>2
  <2>3. CASE Old(m) /\ New(n)
    BY <2>3 DEF Depths, TypesInv
  <2>4. CASE New(m) /\ Old(n)
    BY <1>8, <2>4, <1>3, <1>4
  <2> QED BY <2>1, <2>2, <2>3, <2>4, <1>1
<1> HIDE DEF Old, New
<1> QED BY <1>6, <1>7, <1>8 DEF LoopsOnce

\* Permissions are given back by no step.
HandledKept ==
  \A b \in Blocks, i \in Nat : /\ Handled(b, i) => Handled(b, i)'
                               /\ InHand(b, i) => InHand(b, i)'
EntriesKept ==
  \A f \in Fields :
    /\ Waiting(f)' => Waiting(f) \/ MayHold(f) \/ \E kind \in Kinds : Moved(f, kind)
    /\ Asleep(f)' => MayComplete(f)
NextsKept ==
  \A f \in Fields, kind \in Kinds :
    Moved(f, kind)' =>
      Moved(f, kind) \/ (Waiting(f) /\ (kind = "promise" => Asleep(f)))

Shrunk ==
  /\ \A f \in Fields : /\ Untouched(f)' => Untouched(f)
                       /\ MayHold(f)' => MayHold(f)
                       /\ MayWrite(f)' => MayWrite(f)
                       /\ MayComplete(f)' => MayComplete(f)
  /\ \A c \in Blocks : MayStart(c)' => MayStart(c)

\* A step may lose permissions and gains none.
LEMMA Shrinks ==
  ASSUME TypesInv, TypesInv', CallsInv', LoopsKept, ListsKept, LivesKept, EntriesKept, NextsKept
  PROVE  Shrunk
<1>0. \A n \in Depths : stack[n] \in Calls
  BY DEF Depths, TypesInv
<1>9. \A n \in Depths' : stack'[n] \in Calls
  BY DEF Depths, TypesInv
<1>1. ASSUME NEW f \in Fields, NEW n \in Depths', Ahead(n, f)'
      PROVE  Untouched(f)
  <2>1. PICK i \in 1 .. Len(Ops[stack'[n].block]) :
          /\ Ops[stack'[n].block][i] = f /\ i > stack'[n].index
          /\ ~(Calling(n)' /\ i = stack'[n].index + 1)
    BY <1>1 DEF Ahead
  <2>2. At(n, "block")' /\ stack'[n].block \in Blocks /\ stack'[n].index \in Nat
    BY <1>1, <1>9, CallTypes DEF Ahead, At
  <2>3. Home(f) = stack'[n].block
    BY <2>1, <2>2, HomeFacts
  <2>4. CASE life[stack'[n].block] = "none"
    BY <2>3, <2>4 DEF Untouched
  <2>5. ASSUME NEW m \in Depths, At(m, "block"), stack[m].block = stack'[n].block, GoesOn(m, n)
        PROVE  Untouched(f)
    <3>1. stack[m].index \in Nat
      BY <2>5, <1>0, CallTypes DEF At
    <3>2. i > stack[m].index /\ ~(Calling(m) /\ i = stack[m].index + 1)
      BY <2>1, <2>2, <2>5, <3>1 DEF GoesOn
    <3>3. Ahead(m, f)
      BY <2>1, <2>5, <3>2 DEF Ahead
    <3> QED BY <3>3 DEF Untouched
  <2> QED BY <2>2, <2>4, <2>5 DEF LoopsKept
<1>2. ASSUME NEW f \in Fields, Untouched(f)'
      PROVE  Untouched(f)
  <2>1. CASE life'[Home(f)] = "none"
    BY <2>1, HomeFacts DEF Untouched, LivesKept
  <2>2. CASE \E n \in Depths' : Ahead(n, f)'
    BY <2>2, <1>1
  <2> QED BY <1>2, <2>1, <2>2 DEF Untouched
<1>3. ASSUME NEW f \in Fields, NEW n \in Depths', AtField(n, f)'
      PROVE  MayHold(f)
  <2>1. /\ At(n, "block")' /\ Calling(n)' /\ stack'[n].block \in Blocks /\ stack'[n].index \in Nat
        /\ Ops[stack'[n].block][stack'[n].index + 1] = f
    BY <1>3, <1>9, CallTypes DEF AtField, FieldOf, At
  <2>2. stack'[n].index < Len(Ops[stack'[n].block])
    BY <2>1 DEF CallsInv, IndexOK, Within
  <2>3. PICK i \in Nat : i = stack'[n].index + 1
    BY <2>1
  <2>4. i \in 1 .. Len(Ops[stack'[n].block]) /\ Ops[stack'[n].block][i] = f
    BY <2>1, <2>2, <2>3, TypesAssumption
  <2>5. Home(f) = stack'[n].block
    BY <2>1, <2>4, HomeFacts
  <2>6. CASE life[stack'[n].block] = "none"
    BY <2>5, <2>6 DEF MayHold, Untouched
  <2>7. ASSUME NEW m \in Depths, At(m, "block"), stack[m].block = stack'[n].block, GoesOn(m, n)
        PROVE  MayHold(f)
    <3>1. stack[m].index \in Nat /\ stack[m].at = "block"
      BY <2>7, <1>0, CallTypes DEF At
    <3>2. CASE i = stack[m].index + 1 /\ Calling(m)
      <4>1. AtField(m, f)
        BY <2>4, <2>7, <3>1, <3>2 DEF AtField, FieldOf
      <4> QED BY <4>1 DEF MayHold
    <3>3. CASE ~(i = stack[m].index + 1 /\ Calling(m))
      <4>1. i > stack[m].index
        BY <2>1, <2>3, <2>7, <3>1 DEF GoesOn
      <4>2. Ahead(m, f)
        BY <2>4, <2>7, <3>3, <4>1 DEF Ahead
      <4> QED BY <4>2 DEF MayHold, Untouched
    <3> QED BY <3>2, <3>3
  <2> QED BY <2>1, <2>6, <2>7 DEF LoopsKept
<1>4. ASSUME NEW f \in Fields, MayHold(f)'
      PROVE  MayHold(f)
  BY <1>2, <1>3, <1>4 DEF MayHold
<1>5. ASSUME NEW f \in Fields, MayWrite(f)'
      PROVE  MayWrite(f)
  <2>1. MayHold(f)' \/ Waiting(f)' \/ \E kind \in Kinds : Moved(f, kind)'
    BY <1>5 DEF MayWrite
  <2> QED BY <2>1, <1>4 DEF MayWrite, EntriesKept, NextsKept
<1>6. ASSUME NEW f \in Fields, MayComplete(f)'
      PROVE  MayComplete(f)
  <2>1. Untouched(f)' \/ Asleep(f)' \/ Moved(f, "promise")'
    BY <1>6 DEF MayComplete
  <2> QED BY <2>1, <1>2 DEF MayComplete, EntriesKept, NextsKept, Kinds
<1>7. ASSUME NEW c \in Blocks, NEW n \in Depths', BeforeItem(n, c)'
      PROVE  MayStart(c)
  <2>1. PICK i \in 1 .. Len(Children[stack'[n].field]) :
          /\ Children[stack'[n].field][i] = c /\ i > stack'[n].index
          /\ ~(Calling(n)' /\ i = stack'[n].index + 1)
    BY <1>7 DEF BeforeItem
  <2>2. /\ At(n, "list")' /\ stack'[n].field \in Fields /\ stack'[n].index \in Nat
    BY <1>7, <1>9, CallTypes, TypesAssumption DEF BeforeItem, At
  <2>3. CASE MayComplete(stack'[n].field)
    BY <2>1, <2>2, <2>3 DEF MayStart, ChildOf
  <2>4. ASSUME NEW m \in Depths, At(m, "list"), stack[m].field = stack'[n].field, GoesOn(m, n)
        PROVE  MayStart(c)
    <3>1. stack[m].index \in Nat
      BY <2>4, <1>0, CallTypes DEF At
    <3>2. i > stack[m].index /\ ~(Calling(m) /\ i = stack[m].index + 1)
      BY <2>1, <2>2, <2>4, <3>1, ChildFacts DEF GoesOn
    <3>3. BeforeItem(m, c)
      BY <2>1, <2>4, <3>2 DEF BeforeItem
    <3> QED BY <3>3 DEF MayStart
  <2> QED BY <2>2, <2>3, <2>4 DEF ListsKept
<1>8. ASSUME NEW c \in Blocks, MayStart(c)'
      PROVE  MayStart(c)
  <2>1. CASE \E f \in Fields : MayComplete(f)' /\ ChildOf(c, f)
    BY <2>1, <1>6 DEF MayStart
  <2>2. CASE \E n \in Depths' : BeforeItem(n, c)'
    BY <2>2, <1>7
  <2> QED BY <1>8, <2>1, <2>2 DEF MayStart, ChildOf
<1> QED BY <1>2, <1>4, <1>5, <1>6, <1>8 DEF Shrunk

\* The call that processes a frame is not left, or goes on.
ProcessGoes(T) ==
  Running("process") =>
    /\ Len(stack) \in Depths'
    /\ \A t \in T : /\ t.at = "process" /\ t.block = Innermost.block
                    /\ t.index > Innermost.index

\* Entries process_frame has handled stay handled.
LEMMA MovesHandled ==
  ASSUME TypesInv, TypesInv', NEW T, NEW U, Moves(T, U), ProcessGoes(T)
  PROVE  HandledKept
<1>1. ASSUME NEW n \in Depths, At(n, "process")
      PROVE  /\ At(n, "process")' /\ stack'[n].block = stack[n].block
             /\ stack[n].index \in Nat /\ stack'[n].index \in Nat /\ n \in Depths'
             /\ GoesOn(n, n)
  <2>0. stack[n] \in Calls /\ stack[n].index \in Nat /\ stack[n].at = "process"
    BY <1>1, CallTypes DEF Depths, TypesInv, At
  <2>1. CASE CallStays(n)
    BY <1>1, <2>0, <2>1 DEF CallStays, At, GoesOn
  <2>2. CASE n = Len(stack) /\ (n \notin Depths' \/ stack'[n] \in T)
    <3>1. Running("process") /\ Innermost = stack[n]
      BY <1>1, <2>2, <2>0, InnermostFacts DEF Depths, At
    <3>2. /\ n \in Depths' /\ stack'[n].at = "process" /\ stack'[n].block = stack[n].block
          /\ stack'[n].index > stack[n].index
      BY <2>2, <3>1 DEF ProcessGoes
    <3>3. stack'[n] \in Calls
      BY <3>2 DEF Depths, TypesInv
    <3> QED BY <2>0, <3>2, <3>3, CallTypes DEF At, GoesOn
  <2> QED BY <1>1, <2>1, <2>2 DEF Moves
<1>2. ASSUME NEW b \in Blocks, NEW i \in Nat, Handled(b, i)
      PROVE  Handled(b, i)'
  <2>1. PICK n \in Depths : stack[n].at = "process" /\ stack[n].block = b /\ i <= stack[n].index
    BY <1>2 DEF Handled, Depths
  <2>2. At(n, "process")
    BY <2>1 DEF At
  <2>3. /\ stack'[n].at = "process" /\ stack'[n].block = b /\ n \in 1 .. Len(stack')
        /\ i <= stack'[n].index
    BY <2>1, <2>2, <1>1 DEF At, Depths, GoesOn
  <2> QED BY <2>3 DEF Handled
<1>3. ASSUME NEW b \in Blocks, NEW i \in Nat, InHand(b, i)
      PROVE  InHand(b, i)'
  <2>1. CASE Handled(b, i)
    BY <2>1, <1>2 DEF InHand
  <2>2. ASSUME NEW n \in Depths, At(n, "process"), stack[n].block = b, Calling(n),
               i = stack[n].index + 1
        PROVE  InHand(b, i)'
    <3>1. /\ At(n, "process")' /\ stack'[n].block = b /\ n \in Depths'
          /\ stack[n].index \in Nat /\ stack'[n].index \in Nat
          /\ GoesOn(n, n)
      BY <2>2, <1>1
    <3>2. CASE stack'[n].index = stack[n].index
      <4>1. Calling(n)' /\ i = stack'[n].index + 1
        BY <2>2, <3>1, <3>2 DEF GoesOn
      <4> QED BY <3>1, <4>1 DEF InHand
    <3>3. CASE stack'[n].index > stack[n].index
      <4>1. Handled(b, i)'
        BY <2>2, <3>1, <3>3 DEF Handled, At, Depths
      <4> QED BY <4>1 DEF InHand
    <3> QED BY <3>1, <3>2, <3>3 DEF GoesOn
  <2> QED BY <1>3, <2>1, <2>2 DEF InHand
<1> QED BY <1>2, <1>3 DEF HandledKept

\* The rebuilt arrays are as they were.
NextsSame(T) == \A t \in T : t.at = "process" => t.next = Innermost.next \/ t.next = <<>>

\* What process_frame has not moved to the rebuilt array it may still move
\* once.
LEMMA MovesNexts ==
  ASSUME TypesInv, TypesInv', NEW T, NEW U, Moves(T, U), NextsSame(T),
         \A t \in T : Onward(t), \A u \in U : Starts(u)
  PROVE  /\ NextsKept
         /\ \A f \in Fields, kind \in Kinds : Moved(f, kind)' => Moved(f, kind)
<1>1. ASSUME NEW n \in Depths', At(n, "process")'
      PROVE  \/ n \in Depths /\ At(n, "process") /\ stack'[n].next = stack[n].next
             \/ stack'[n].next = <<>>
  <2>1. CASE n \in Depths /\ stack'[n] = stack[n] /\ (Calling(n) => Calling(n)')
             /\ \A at : At(n, at) <=> At(n, at)'
    BY <1>1, <2>1
  <2>2. CASE n \in Depths /\ n = Len(stack) /\ stack'[n] \in T /\ Innermost = stack[n]
             /\ \A at : At(n, at) <=> Innermost.at = at
    <3>1. stack'[n].at = "process"
      BY <1>1 DEF At
    <3> QED BY <2>2, <3>1 DEF Onward, NextsSame
  <2>3. CASE n \notin Depths /\ n = Len(stack) + 1 /\ stack'[n] \in U
    <3>1. stack'[n].at = "process"
      BY <1>1 DEF At
    <3> QED BY <2>3, <3>1 DEF Starts
  <2> QED BY <2>1, <2>2, <2>3, MovedCall
<1>2. ASSUME NEW f \in Fields, NEW kind \in Kinds, Moved(f, kind)'
      PROVE  Moved(f, kind)
  <2>1. PICK n \in Depths' : At(n, "process")' /\ \E j \in 1 .. Len(stack'[n].next) :
               stack'[n].next[j].field = f /\ stack'[n].next[j].kind = kind
    BY <1>2 DEF Moved
  <2>2. stack'[n].next # <<>>
    BY <2>1
  <2> QED BY <2>1, <2>2, <1>1 DEF Moved
<1> QED BY <1>2 DEF NextsKept

\* The arrays hold the same entries, in whatever state.
SameEntries ==
  \A b \in Blocks :
    /\ Len(entries'[b]) = Len(entries[b])
    /\ \A i \in 1 .. Len(entries[b]) :
         /\ entries'[b][i].field = entries[b][i].field
         /\ entries'[b][i].kind = entries[b][i].kind
         /\ entries'[b][i].state = "unarmed" => entries[b][i].state = "unarmed"

\* Arrays that keep their fields keep who is held in them.
LEMMA SameEntriesKept ==
  ASSUME TypesInv, SameEntries, HandledKept
  PROVE  EntriesKept /\ \A f \in Fields : NotHeld(f) => NotHeld(f)'
<1>1. \A f \in Fields : /\ Home(f) \in Blocks /\ Len(entries[Home(f)]) \in Nat
                        /\ Len(entries'[Home(f)]) = Len(entries[Home(f)])
  BY HomeFacts DEF TypesInv, SameEntries
<1>2. ASSUME NEW f \in Fields, Waiting(f)' PROVE Waiting(f)
  <2>1. PICK i \in 1 .. Len(entries'[Home(f)]) : HeldAt(f, i)' /\ ~Handled(Home(f), i)'
    BY <1>2 DEF Waiting
  <2>2. i \in 1 .. Len(entries[Home(f)]) /\ HeldAt(f, i)
    BY <2>1, <1>1 DEF HeldAt, SameEntries
  <2>3. ~Handled(Home(f), i)
    BY <2>1, <2>2, <1>1 DEF HandledKept
  <2> QED BY <2>2, <2>3 DEF Waiting
<1>3. ASSUME NEW f \in Fields, Asleep(f)' PROVE Asleep(f)
  <2>1. PICK i \in 1 .. Len(entries'[Home(f)]) :
          HeldAt(f, i)' /\ entries'[Home(f)][i].kind = "promise" /\ ~InHand(Home(f), i)'
    BY <1>3 DEF Asleep
  <2>2. i \in 1 .. Len(entries[Home(f)]) /\ HeldAt(f, i) /\ entries[Home(f)][i].kind = "promise"
    BY <2>1, <1>1 DEF HeldAt, SameEntries
  <2>3. ~InHand(Home(f), i)
    BY <2>1, <2>2, <1>1 DEF HandledKept
  <2> QED BY <2>2, <2>3 DEF Asleep
<1>4. \A f \in Fields : NotHeld(f) => NotHeld(f)'
  BY <1>1 DEF NotHeld, SameEntries
<1> QED BY <1>2, <1>3, <1>4 DEF EntriesKept, MayComplete

-----------------------------------------------------------------------------
(* Permissions that are gone                                               *)

\* The field at a position of a block is of that block, and at no other.
LEMMA PositionFacts ==
  ASSUME NEW b \in Blocks, NEW i \in 1 .. Len(Ops[b])
  PROVE  /\ Ops[b][i] \in Fields /\ Home(Ops[b][i]) = b
         /\ \A c \in Blocks : \A j \in 1 .. Len(Ops[c]) :
              Ops[c][j] = Ops[b][i] => c = b /\ j = i
BY HomeFacts, TreeAssumption

\* A loop that calls is at a position of its block.
LEMMA CallingBlock ==
  ASSUME TypesInv, CallsInv, NEW n \in Depths, At(n, "block"), Calling(n)
  PROVE  /\ stack[n].block \in Blocks /\ stack[n].index \in Nat
         /\ stack[n].index + 1 \in 1 .. Len(Ops[stack[n].block])
         /\ FieldOf(n) = Ops[stack[n].block][stack[n].index + 1]
         /\ FieldOf(n) \in Fields /\ Home(FieldOf(n)) = stack[n].block
<1>1. stack[n].block \in Blocks /\ stack[n].index \in Nat /\ stack[n].at = "block"
  BY CallTypes DEF Depths, TypesInv, At
<1>2. stack[n].index < Len(Ops[stack[n].block])
  BY DEF CallsInv, IndexOK, Within
<1>3. Len(Ops[stack[n].block]) \in Nat
  BY <1>1, TypesAssumption
<1>4. PICK i \in 1 .. Len(Ops[stack[n].block]) : i = stack[n].index + 1
  BY <1>1, <1>2, <1>3
<1>5. FieldOf(n) = Ops[stack[n].block][i]
  BY <1>1, <1>4 DEF FieldOf
<1> QED BY <1>1, <1>4, <1>5, PositionFacts

\* What process_frame knows of the entry it is at.
LEMMA CallingProcess ==
  ASSUME TypesInv, CallsInv, NEW n \in Depths, At(n, "process")
  PROVE  /\ stack[n].block \in Blocks /\ stack[n].index \in Nat
         /\ stack[n].next \in Seq(EntrySet)
         /\ entries[stack[n].block] \in Seq(EntrySet)
         /\ stack[n].index <= Len(entries[stack[n].block])
         /\ Calling(n) => /\ stack[n].index + 1 \in 1 .. Len(entries[stack[n].block])
                          /\ FieldOf(n) = entries[stack[n].block][stack[n].index + 1].field
                          /\ FieldOf(n) \in Fields
<1>1. /\ stack[n].block \in Blocks /\ stack[n].index \in Nat /\ stack[n].at = "process"
      /\ stack[n].next \in Seq(EntrySet)
  BY CallTypes DEF Depths, TypesInv, At
<1>2. entries[stack[n].block] \in Seq(EntrySet)
  BY <1>1 DEF TypesInv
<1>3. Calling(n) => stack[n].index < Len(entries[stack[n].block])
  BY DEF CallsInv, IndexOK, Within
<1>4. Calling(n) => stack[n].index + 1 \in 1 .. Len(entries[stack[n].block])
  BY <1>1, <1>2, <1>3
<1>5. FieldOf(n) = entries[stack[n].block][stack[n].index + 1].field
  BY <1>1 DEF FieldOf
<1>6. Calling(n) => entries[stack[n].block][stack[n].index + 1] \in EntrySet
  BY <1>2, <1>4
<1>7. Calling(n) => FieldOf(n) \in Fields
  BY <1>5, <1>6, EntryFacts
<1>8. stack[n].index <= Len(entries[stack[n].block])
  BY DEF CallsInv, IndexOK
<1> QED BY <1>1, <1>2, <1>4, <1>5, <1>7, <1>8

\* A field its block's loop has passed is not entered any more; one the loop is
\* at has been come to.
LEMMA PassedField ==
  ASSUME TypesInv, CallsInv, LoopsOnce, CallsStarted, NEW n \in Depths, At(n, "block"),
         NEW i \in 1 .. Len(Ops[stack[n].block])
  PROVE  /\ i <= stack[n].index => ~MayHold(Ops[stack[n].block][i])
         /\ Calling(n) /\ i = stack[n].index + 1 => ~Untouched(Ops[stack[n].block][i])
<1>1. PICK b \in Blocks : b = stack[n].block
  BY CallTypes DEF Depths, TypesInv, At
<1>2. PICK f \in Fields : f = Ops[b][i] /\ Home(f) = b
  BY <1>1, PositionFacts
<1>3. \A c \in Blocks : \A j \in 1 .. Len(Ops[c]) : Ops[c][j] = f => c = b /\ j = i
  BY <1>1, <1>2, PositionFacts
<1>4. life[Home(f)] # "none"
  BY <1>1, <1>2 DEF CallsStarted
<1>5. ASSUME NEW m \in Depths, Ahead(m, f)
      PROVE  m = n /\ i > stack[n].index /\ ~(Calling(n) /\ i = stack[n].index + 1)
  <2>1. stack[m].block \in Blocks /\ At(m, "block")
    BY <1>5, CallTypes DEF Depths, TypesInv, At, Ahead
  <2>2. PICK j \in 1 .. Len(Ops[stack[m].block]) :
          /\ Ops[stack[m].block][j] = f /\ j > stack[m].index
          /\ ~(Calling(m) /\ j = stack[m].index + 1)
    BY <1>5 DEF Ahead
  <2>3. stack[m].block = b /\ j = i
    BY <2>1, <2>2, <1>3
  <2>4. m = n
    BY <2>1, <2>3, <1>1 DEF LoopsOnce
  <2> QED BY <2>2, <2>3, <2>4
<1>6. ASSUME NEW m \in Depths, AtField(m, f)
      PROVE  m = n /\ i = stack[n].index + 1 /\ stack[n].index \in Nat
  <2>1. At(m, "block") /\ Calling(m) /\ FieldOf(m) = f
    BY <1>6 DEF AtField
  <2>2. /\ stack[m].block \in Blocks /\ stack[m].index + 1 \in 1 .. Len(Ops[stack[m].block])
        /\ Ops[stack[m].block][stack[m].index + 1] = f /\ stack[m].index \in Nat
    BY <2>1, CallingBlock
  <2>3. PICK j \in 1 .. Len(Ops[stack[m].block]) : j = stack[m].index + 1
    BY <2>2
  <2>4. stack[m].block = b /\ j = i
    BY <2>2, <2>3, <1>3
  <2>5. m = n
    BY <2>1, <2>4, <1>1 DEF LoopsOnce
  <2> QED BY <2>2, <2>3, <2>4, <2>5
<1>7. i <= stack[n].index => ~MayHold(f)
  <2>1. i <= stack[n].index => /\ \A m \in Depths : ~Ahead(m, f)
                               /\ \A m \in Depths : ~AtField(m, f)
    <3>1. stack[n].index \in Nat /\ i \in Nat
      BY CallTypes DEF Depths, TypesInv, At
    <3> QED BY <3>1, <1>5, <1>6
  <2> QED BY <2>1, <1>4 DEF MayHold, Untouched
<1>8. Calling(n) /\ i = stack[n].index + 1 => ~Untouched(f)
  BY <1>4, <1>5 DEF Untouched
<1> QED BY <1>1, <1>2, <1>7, <1>8

\* What was moved to a rebuilt array is held by an entry that is handled.
LEMMA MovedHeld ==
  ASSUME TypesInv, CallsInv, ArraysOK, NEW f \in Fields, NEW kind, Moved(f, kind)
  PROVE  \E n \in Depths : \E i \in 1 .. stack[n].index :
           /\ At(n, "process") /\ stack[n].block = Home(f) /\ HeldAt(f, i)
           /\ \E j \in 1 .. Len(stack[n].next) : stack[n].next[j].field = f
<1>1. PICK n \in Depths : At(n, "process") /\ \E j \in 1 .. Len(stack[n].next) :
               stack[n].next[j].field = f /\ stack[n].next[j].kind = kind
  BY DEF Moved
<1>2. PICK i \in 1 .. stack[n].index : entries[stack[n].block][i].field = f
  BY <1>1 DEF ArraysOK
<1>3. /\ stack[n].block \in Blocks /\ stack[n].index \in Nat
      /\ stack[n].index <= Len(entries[stack[n].block])
      /\ Len(entries[stack[n].block]) \in Nat
  BY <1>1, CallingProcess
<1>4. i \in 1 .. Len(entries[stack[n].block])
  BY <1>3
<1>5. Home(f) = stack[n].block
  BY <1>2, <1>3, <1>4 DEF ArraysOK
<1>6. HeldAt(f, i)
  BY <1>2, <1>4, <1>5 DEF HeldAt
<1> QED BY <1>1, <1>5, <1>6

\* An entry is the only one of its field.
LEMMA HeldOnce ==
  ASSUME TypesInv, ArraysOK, NEW f \in Fields, NEW i, HeldAt(f, i), NEW j, HeldAt(f, j)
  PROVE  i = j
BY HomeFacts DEF ArraysOK, ArrayOK, HeldAt

\* A field that is being completed is not completed again.
LEMMA CompletedOnce ==
  ASSUME TypesInv, CallsInv, LoopsOnce, CallsStarted, HoldsKept, ArraysOK,
         NEW n \in Depths, At(n, "block") \/ At(n, "process"), Calling(n)
  PROVE  FieldOf(n) \in Fields /\ ~MayComplete(FieldOf(n))
<1>1. CASE At(n, "block")
  <2>1. PICK f \in Fields : f = FieldOf(n)
    BY <1>1, CallingBlock
  <2>2. ~Untouched(f)
    <3>1. PICK i \in 1 .. Len(Ops[stack[n].block]) :
            i = stack[n].index + 1 /\ f = Ops[stack[n].block][i]
      BY <1>1, <2>1, CallingBlock
    <3> QED BY <1>1, <3>1, PassedField
  <2>3. NotHeld(f)
    <3>1. AtField(n, f)
      BY <1>1, <2>1 DEF AtField
    <3> QED BY <3>1 DEF HoldsKept, MayHold
  <2>4. ~Asleep(f)
    BY <2>3 DEF Asleep, HeldAt, NotHeld
  <2>5. ~Moved(f, "promise")
    BY <2>3, MovedHeld DEF NotHeld, HeldAt
  <2> QED BY <2>1, <2>2, <2>4, <2>5 DEF MayComplete
<1>2. CASE At(n, "process")
  <2>1. PICK f \in Fields : f = FieldOf(n)
    BY <1>2, CallingProcess
  <2>2. PICK b \in Blocks : b = stack[n].block
    BY <1>2, CallingProcess
  <2>3. PICK i \in 1 .. Len(entries[b]) :
          i = stack[n].index + 1 /\ f = entries[b][i].field /\ stack[n].index \in Nat
    BY <1>2, <2>1, <2>2, CallingProcess
  <2>4. Home(f) = b /\ HeldAt(f, i)
    BY <2>2, <2>3 DEF ArraysOK, HeldAt
  <2>5. ~Untouched(f)
    BY <2>3, <2>4 DEF HoldsKept, MayHold, NotHeld, HeldAt
  <2>6. ~Asleep(f)
    <3>1. SUFFICES ASSUME NEW j \in 1 .. Len(entries[Home(f)]), HeldAt(f, j),
                          ~InHand(Home(f), j)
                   PROVE  FALSE
      BY DEF Asleep
    <3>2. j = i
      BY <3>1, <2>4, HeldOnce
    <3> QED BY <1>2, <2>2, <2>3, <2>4, <3>1, <3>2 DEF InHand
  <2>7. ~Moved(f, "promise")
    <3>1. SUFFICES ASSUME Moved(f, "promise") PROVE FALSE
      OBVIOUS
    <3>2. PICK m \in Depths : \E j \in 1 .. stack[m].index :
                 At(m, "process") /\ HeldAt(f, j)
      BY <3>1, MovedHeld
    <3>3. PICK j \in 1 .. stack[m].index : At(m, "process") /\ HeldAt(f, j)
      BY <3>2
    <3>4. m = n
      BY <1>2, <3>3, OneProcess
    <3>5. j = i
      BY <3>3, <2>4, HeldOnce
    <3> QED BY <3>3, <3>4, <3>5, <2>3
  <2> QED BY <2>1, <2>5, <2>6, <2>7 DEF MayComplete
<1> QED BY <1>1, <1>2

\* A list that is being completed is on the stack once.
LEMMA ListCalled ==
  ASSUME TypesInv, CallsInv, NEW n \in Depths, At(n, "list")
  PROVE  /\ n - 1 \in Depths /\ Calling(n - 1) /\ FieldOf(n - 1) = stack[n].field
         /\ At(n - 1, "block") \/ At(n - 1, "process")
         /\ stack[n].field \in Lists /\ stack[n].field \in Fields
         /\ stack[n].index \in Nat
<1>1. Len(stack) \in Nat /\ Depths = 1 .. Len(stack)
  BY DEF TypesInv, Depths
<1>2. n > 1 /\ Completing(n - 1, stack[n].field)
  BY DEF CallsInv, CallerOK
<1>3. /\ stack[n].field \in Lists /\ stack[n].at = "list" /\ stack[n].field \in Fields
      /\ stack[n].index \in Nat
  BY <1>1, CallTypes, TypesAssumption DEF At, TypesInv
<1>4. n - 1 \in Depths /\ n - 1 # Len(stack) /\ n - 1 + 1 = n
  BY <1>1, <1>2
<1>5. Calling(n - 1)
  BY <1>3, <1>4 DEF Calling
<1> QED BY <1>2, <1>3, <1>4, <1>5 DEF Completing

\* A list has one item loop.
LEMMA OneList ==
  ASSUME TypesInv, CallsInv, LoopsOnce, HoldsKept, ArraysOK,
         NEW m \in Depths, NEW n \in Depths, At(m, "list"), At(n, "list"),
         stack[m].field = stack[n].field
  PROVE  m = n
<1>1. PICK k \in Depths : k = m - 1 /\ Calling(k) /\ FieldOf(k) = stack[n].field
                          /\ (At(k, "block") \/ At(k, "process"))
  BY ListCalled
<1>2. PICK l \in Depths : l = n - 1 /\ Calling(l) /\ FieldOf(l) = stack[n].field
                          /\ (At(l, "block") \/ At(l, "process"))
  BY ListCalled
<1>3. PICK f \in Fields : f = stack[n].field
  BY ListCalled
<1>4. ASSUME NEW p \in Depths, Calling(p), FieldOf(p) = f, At(p, "block")
      PROVE  stack[p].block = Home(f) /\ NotHeld(f)
  <2>1. AtField(p, f)
    BY <1>4 DEF AtField
  <2> QED BY <2>1, <1>4, CallingBlock DEF HoldsKept, MayHold
<1>5. ASSUME NEW p \in Depths, Calling(p), FieldOf(p) = f, At(p, "process")
      PROVE  ~NotHeld(f)
  <2>1. PICK i \in 1 .. Len(entries[stack[p].block]) :
             f = entries[stack[p].block][i].field /\ stack[p].block \in Blocks
    BY <1>5, CallingProcess
  <2>2. Home(f) = stack[p].block
    BY <2>1 DEF ArraysOK
  <2> QED BY <2>1, <2>2 DEF NotHeld
<1>6. k = l
  <2>1. CASE At(k, "block") /\ At(l, "block")
    BY <2>1, <1>1, <1>2, <1>3, <1>4 DEF LoopsOnce
  <2>2. CASE At(k, "process") /\ At(l, "process")
    BY <2>2, OneProcess
  <2>3. CASE At(k, "block") /\ At(l, "process")
    BY <2>3, <1>1, <1>2, <1>3, <1>4, <1>5
  <2>4. CASE At(k, "process") /\ At(l, "block")
    BY <2>4, <1>1, <1>2, <1>3, <1>4, <1>5
  <2> QED BY <2>1, <2>2, <2>3, <2>4, <1>1, <1>2
<1> QED BY <1>1, <1>2, <1>6 DEF Depths, TypesInv

\* An item its list's loop has come to is not started by it any more.
LEMMA PassedItem ==
  ASSUME TypesInv, CallsInv, LoopsOnce, CallsStarted, HoldsKept, ArraysOK,
         NEW n \in Depths, At(n, "list"), NEW i \in 1 .. Len(Children[stack[n].field]),
         i <= stack[n].index \/ (Calling(n) /\ i = stack[n].index + 1)
  PROVE  ~MayStart(Children[stack[n].field][i])
<1>1. PICK f \in Fields : f = stack[n].field
  BY ListCalled
<1>2. PICK c \in Blocks : c = Children[f][i]
  BY <1>1, ChildFacts
<1>3. \A g \in Fields : \A j \in 1 .. Len(Children[g]) : Children[g][j] = c => g = f /\ j = i
  BY <1>1, <1>2, TreeAssumption
<1>4. ~MayComplete(f)
  BY <1>1, ListCalled, CompletedOnce
<1>5. \A g \in Fields : ChildOf(c, g) => g = f
  BY <1>3 DEF ChildOf
<1>6. ASSUME NEW m \in Depths, BeforeItem(m, c)
      PROVE  FALSE
  <2>1. At(m, "list") /\ stack[m].field \in Fields
    BY <1>6, ListCalled DEF BeforeItem
  <2>2. PICK j \in 1 .. Len(Children[stack[m].field]) :
          /\ Children[stack[m].field][j] = c /\ j > stack[m].index
          /\ ~(Calling(m) /\ j = stack[m].index + 1)
    BY <1>6 DEF BeforeItem
  <2>3. stack[m].field = f /\ j = i
    BY <2>1, <2>2, <1>3
  <2>4. m = n
    BY <2>1, <2>3, <1>1, OneList
  <2>5. stack[n].index \in Nat /\ i \in Nat
    BY ListCalled
  <2> QED BY <2>2, <2>3, <2>4, <2>5
<1> QED BY <1>1, <1>2, <1>4, <1>5, <1>6 DEF MayStart

\* A block that a loop executes is not started any more.
LEMMA ExecutedOnce ==
  ASSUME TypesInv, CallsInv, LoopsOnce, CallsStarted, HoldsKept, ArraysOK,
         NEW n \in Depths, At(n, "block") \/ At(n, "process") \/ At(n, "list"), Calling(n),
         NEW c \in Blocks, Executes(n, c)
  PROVE  ~MayStart(c)
<1>1. CASE At(n, "list")
  <2>1. /\ stack[n].index < Len(Children[stack[n].field])
        /\ Children[stack[n].field][stack[n].index + 1] = c
    BY <1>1 DEF Executes, At
  <2>2. stack[n].index \in Nat /\ Len(Children[stack[n].field]) \in Nat
    BY <1>1, ListCalled, ChildFacts
  <2>3. PICK i \in 1 .. Len(Children[stack[n].field]) : i = stack[n].index + 1
    BY <2>1, <2>2
  <2> QED BY <1>1, <2>1, <2>3, PassedItem
<1>2. CASE At(n, "block") \/ At(n, "process")
  <2>1. PICK f \in Fields : f = FieldOf(n) /\ ~MayComplete(f)
    BY <1>2, CompletedOnce
  <2>2. IsChild(c, f)
    BY <1>2, <2>1 DEF Executes, At
  <2>3. \A g \in Fields : ChildOf(c, g) => g = f
    <3>1. 1 \in 1 .. Len(Children[f]) /\ Children[f][1] = c
      BY <2>2, ChildFacts DEF IsChild
    <3> QED BY <3>1, TreeAssumption DEF ChildOf
  <2>4. ASSUME NEW m \in Depths, BeforeItem(m, c)
        PROVE  FALSE
    <3>1. At(m, "list") /\ stack[m].field \in Fields /\ stack[m].field \in Lists
      BY <2>4, ListCalled DEF BeforeItem
    <3>2. ChildOf(c, stack[m].field)
      BY <2>4 DEF BeforeItem, ChildOf
    <3> QED BY <3>1, <3>2, <2>2, <2>3 DEF IsChild
  <2> QED BY <2>1, <2>3, <2>4 DEF MayStart
<1> QED BY <1>1, <1>2

\* A field that was passed without an entry, or whose entry is handled and was
\* not moved, is not written any more.
LEMMA WrittenOnce ==
  ASSUME TypesInv, CallsInv, ArraysOK, HoldsKept, NEW f \in Fields
  PROVE  /\ ~MayHold(f) /\ NotHeld(f) => ~MayWrite(f)
         /\ \A i \in 1 .. Len(entries[Home(f)]) :
              HeldAt(f, i) /\ Handled(Home(f), i) /\ (\A kind \in Kinds : ~Moved(f, kind))
                => ~MayWrite(f)
<1>1. NotHeld(f) => ~Waiting(f) /\ \A kind \in Kinds : ~Moved(f, kind)
  BY MovedHeld DEF Waiting, HeldAt, NotHeld
<1>2. ASSUME NEW i \in 1 .. Len(entries[Home(f)]), HeldAt(f, i), Handled(Home(f), i)
      PROVE  ~MayHold(f) /\ ~Waiting(f)
  <2>1. ~MayHold(f)
    BY <1>2 DEF HoldsKept, NotHeld, HeldAt
  <2>2. ~Waiting(f)
    BY <1>2, HeldOnce DEF Waiting
  <2> QED BY <2>1, <2>2
<1> QED BY <1>1, <1>2 DEF MayWrite

\* The same of every state, for the states after a step.
Once ==
  TypesInv /\ CallsInv /\ LoopsOnce /\ CallsStarted =>
    /\ \A n \in Depths : At(n, "block") =>
         \A i \in 1 .. Len(Ops[stack[n].block]) :
           i <= stack[n].index => ~MayHold(Ops[stack[n].block][i])
    /\ HoldsKept /\ ArraysOK =>
         /\ \A n \in Depths : At(n, "list") =>
              \A i \in 1 .. Len(Children[stack[n].field]) :
                i <= stack[n].index => ~MayStart(Children[stack[n].field][i])
         /\ \A n \in Depths : At(n, "block") \/ At(n, "process") \/ At(n, "list") =>
              \A c \in Blocks : Calling(n) /\ Executes(n, c) => ~MayStart(c)
         /\ \A f \in Fields : ~MayHold(f) /\ NotHeld(f) => ~MayWrite(f)
         /\ \A f \in Fields : \A i \in 1 .. Len(entries[Home(f)]) :
              HeldAt(f, i) /\ Handled(Home(f), i) /\ (\A kind \in Kinds : ~Moved(f, kind))
                => ~MayWrite(f)

\* No field is twice in an array after the step either.
LEMMA OnceNext == Once'
<1>1. Once
  <2>1. SUFFICES ASSUME TypesInv, CallsInv, LoopsOnce, CallsStarted PROVE Once
    BY DEF Once
  <2>2. \A n \in Depths : At(n, "block") =>
          \A i \in 1 .. Len(Ops[stack[n].block]) :
            i <= stack[n].index => ~MayHold(Ops[stack[n].block][i])
    BY <2>1, PassedField
  <2>3. ASSUME HoldsKept, ArraysOK
        PROVE  \A n \in Depths : At(n, "list") =>
                 \A i \in 1 .. Len(Children[stack[n].field]) :
                   i <= stack[n].index => ~MayStart(Children[stack[n].field][i])
    BY <2>1, <2>3, PassedItem
  <2>4. ASSUME HoldsKept, ArraysOK
        PROVE  \A n \in Depths : At(n, "block") \/ At(n, "process") \/ At(n, "list") =>
                 \A c \in Blocks : Calling(n) /\ Executes(n, c) => ~MayStart(c)
    BY <2>1, <2>4, ExecutedOnce
  <2>5. ASSUME HoldsKept, ArraysOK, NEW f \in Fields
        PROVE  /\ ~MayHold(f) /\ NotHeld(f) => ~MayWrite(f)
               /\ \A i \in 1 .. Len(entries[Home(f)]) :
                    HeldAt(f, i) /\ Handled(Home(f), i) /\ (\A kind \in Kinds : ~Moved(f, kind))
                      => ~MayWrite(f)
    BY <2>1, <2>5, WrittenOnce
  <2> QED BY <2>2, <2>3, <2>4, <2>5 DEF Once
<1> QED BY <1>1, PTL

-----------------------------------------------------------------------------
(* What a step has to respect                                              *)

\* What is entered, written, started or subscribed to may not be any more.
LEMMA PermissionsKeep ==
  ASSUME FieldsInv, Shrunk,
         \A f \in Fields : NotHeld(f) => NotHeld(f)' \/ ~MayHold(f)',
         \A f \in Fields : values'[f] = values[f] \/ ~MayWrite(f)',
         \A c \in Blocks : \/ life[c] = "none" => life'[c] = "none"
                           \/ ~MayStart(c)' /\ ~Subscribed(c)',
         \A c \in Blocks : Subscribed(c)' => \/ Subscribed(c)
                                             \/ ~MayStart(c)' /\ life'[c] = "none"
  PROVE  HoldsKept' /\ WritesOK' /\ StartsOK'
<1>1. HoldsKept'
  BY DEF HoldsKept, FieldsInv, Shrunk
<1>2. WritesOK'
  BY DEF WritesOK, FieldsInv, Shrunk
<1>3. ASSUME NEW c \in Blocks
      PROVE  /\ MayStart(c)' => life'[c] = "none" /\ ~Subscribed(c)'
             /\ Subscribed(c)' => life'[c] = "none"
  BY DEF StartsOK, FieldsInv, Shrunk
<1>4. StartsOK'
  BY <1>3 DEF StartsOK
<1> QED BY <1>1, <1>2, <1>4

\* What has started stays started; what is new is of something that has started.
LEMMA StartedKeeps ==
  ASSUME TypesInv, TypesInv', StartedOK, CallsStarted', LivesKept,
         \A b \in Blocks : b \in Range(ready') => b \in Range(ready) \/ life[b] # "none",
         ret' # None /\ ret'.kind = "frame" => life[ret'.of] # "none",
         \A f \in Fields : ctx'[f] # 0 => ctx[f] # 0 \/ life[Home(f)] # "none",
         \A f \in owned' : f \in owned \/ life[Home(f)] # "none",
         \A f \in Fields : \A i \in 1 .. Len(Children[f]) :
           \/ life[Home(f)] # "none"
           \/ /\ life'[Children[f][i]] # "none" => life[Children[f][i]] # "none"
              /\ Subscribed(Children[f][i])' => Subscribed(Children[f][i])
  PROVE  StartedOK'
<1>1. \A f \in Fields : Home(f) \in Blocks
  BY HomeFacts
<1>2. \A b \in Blocks : life[b] # "none" => life'[b] # "none"
  BY DEF LivesKept
<1>3. \A b \in Blocks : b \in Range(ready') => life'[b] # "none"
  BY <1>2 DEF StartedOK
<1>4. ret' # None /\ ret'.kind = "frame" => life'[ret'.of] # "none"
  <2>1. ret' # None /\ ret'.kind = "frame" => ret'.of \in Blocks
    BY ResultFacts DEF TypesInv
  <2> QED BY <2>1, <1>2
<1>5. \A f \in Fields : ctx'[f] # 0 => life'[Home(f)] # "none"
  BY <1>1, <1>2 DEF StartedOK
<1>6. \A f \in owned' : life'[Home(f)] # "none"
  <2>1. owned' \subseteq Fields
    BY TypesAssumption DEF TypesInv
  <2> QED BY <2>1, <1>1, <1>2 DEF StartedOK
<1>7. ASSUME NEW f \in Fields, NEW i \in 1 .. Len(Children[f]),
             life'[Children[f][i]] # "none" \/ Subscribed(Children[f][i])'
      PROVE  life'[Home(f)] # "none"
  <2>1. life[Home(f)] # "none"
    BY <1>7 DEF StartedOK
  <2> QED BY <2>1, <1>1, <1>2
<1> QED BY <1>3, <1>4, <1>5, <1>6, <1>7 DEF StartedOK

\* The process calls are as they were, further on, or new.
NextsGrow ==
  \A n \in Depths' : At(n, "process")' =>
    \/ stack'[n].next = <<>>
    \/ /\ n \in Depths /\ At(n, "process") /\ stack'[n].next = stack[n].next
       /\ stack'[n].block = stack[n].block /\ stack[n].index <= stack'[n].index

\* No field is twice in the arrays, the one process_frame rebuilds included.
LEMMA ArraysKeep ==
  ASSUME TypesInv, CallsInv, TypesInv', ArraysOK, SameEntries, NextsGrow
  PROVE  ArraysOK'
<1>1. \A b \in Blocks : /\ Len(entries[b]) \in Nat /\ Len(entries'[b]) = Len(entries[b])
                        /\ entries[b] \in Seq(EntrySet) /\ entries'[b] \in Seq(EntrySet)
  BY DEF TypesInv, SameEntries
<1>2. ASSUME NEW b \in Blocks
      PROVE  ArrayOK(entries'[b]) /\ \A i \in 1 .. Len(entries'[b]) : Home(entries'[b][i].field) = b
  <2>1. \A i \in 1 .. Len(entries'[b]) :
          /\ i \in 1 .. Len(entries[b])
          /\ entries'[b][i].field = entries[b][i].field
          /\ entries'[b][i].kind = entries[b][i].kind
          /\ entries'[b][i].state = "unarmed" => entries[b][i].state = "unarmed"
    BY <1>1 DEF SameEntries
  <2>2. \A i \in 1 .. Len(entries'[b]) : EntryOK(entries'[b][i])
    BY <2>1 DEF ArraysOK, ArrayOK, EntryOK
  <2>3. \A i, j \in 1 .. Len(entries'[b]) : entries'[b][i].field = entries'[b][j].field => i = j
    BY <2>1 DEF ArraysOK, ArrayOK
  <2> QED BY <2>1, <2>2, <2>3 DEF ArraysOK, ArrayOK
<1>3. ASSUME NEW n \in Depths', At(n, "process")'
      PROVE  /\ ArrayOK(stack'[n].next)
             /\ \A j \in 1 .. Len(stack'[n].next) : \E i \in 1 .. stack'[n].index :
                  entries'[stack'[n].block][i].field = stack'[n].next[j].field
  <2>1. CASE stack'[n].next = <<>>
    BY <2>1 DEF ArrayOK
  <2>2. CASE /\ n \in Depths /\ At(n, "process") /\ stack'[n].next = stack[n].next
             /\ stack'[n].block = stack[n].block /\ stack[n].index <= stack'[n].index
    <3>1. ArrayOK(stack[n].next)
      BY <2>2 DEF ArraysOK
    <3>2. /\ stack[n].index \in Nat /\ stack[n].block \in Blocks
          /\ stack'[n].index \in Nat /\ stack'[n].at = "process"
      BY <1>3, <2>2, CallTypes DEF Depths, TypesInv, At
    <3>3. ASSUME NEW j \in 1 .. Len(stack[n].next)
          PROVE  \E i \in 1 .. stack'[n].index :
                   entries'[stack[n].block][i].field = stack[n].next[j].field
      <4>1. PICK i \in 1 .. stack[n].index :
                 entries[stack[n].block][i].field = stack[n].next[j].field
        BY <2>2 DEF ArraysOK
      <4>2. i \in 1 .. stack'[n].index
        BY <2>2, <3>2
      <4>3. i \in 1 .. Len(entries[stack[n].block])
        <5>1. /\ stack[n].index <= Len(entries[stack[n].block])
              /\ Len(entries[stack[n].block]) \in Nat
          BY <2>2, CallingProcess
        <5> QED BY <5>1, <3>2
      <4> QED BY <4>1, <4>2, <4>3, <3>2 DEF SameEntries
    <3> QED BY <2>2, <3>1, <3>3
  <2> QED BY <1>3, <2>1, <2>2 DEF NextsGrow
<1> QED BY <1>2, <1>3 DEF ArraysOK

\* What a step may make of the calls, but for the frame that is processed.
StepsOK(T, U) ==
  /\ \A t \in T : Onward(t)
  /\ \A u \in U : Starts(u)
  /\ ProcessGoes(T)
  /\ NextsSame(T)

\* The array process_frame rebuilds grows at its end.
LEMMA StepNexts ==
  ASSUME TypesInv, CallsInv, TypesInv', NEW T, NEW U, Moves(T, U), StepsOK(T, U)
  PROVE  NextsGrow
<1>1. SUFFICES ASSUME NEW n \in Depths', At(n, "process")'
               PROVE  \/ stack'[n].next = <<>>
                      \/ /\ n \in Depths /\ At(n, "process") /\ stack'[n].next = stack[n].next
                         /\ stack'[n].block = stack[n].block
                         /\ stack[n].index <= stack'[n].index
  BY DEF NextsGrow
<1>2. stack'[n].at = "process" /\ stack'[n].index \in Nat
  BY <1>1, CallTypes DEF At, Depths, TypesInv
<1>3. CASE n \in Depths /\ stack'[n] = stack[n] /\ (Calling(n) => Calling(n)')
           /\ \A at : At(n, at) <=> At(n, at)'
  BY <1>1, <1>2, <1>3
<1>4. CASE n \in Depths /\ n = Len(stack) /\ stack'[n] \in T /\ Innermost = stack[n]
           /\ \A at : At(n, at) <=> Innermost.at = at
  <2>1. Innermost.at = "process" /\ At(n, "process")
    BY <1>2, <1>4 DEF StepsOK, Onward
  <2>2. Running("process") /\ Innermost.index \in Nat
    BY <1>4, <2>1, InnermostFacts, CallTypes DEF Depths
  <2> QED BY <1>2, <1>4, <2>1, <2>2 DEF StepsOK, ProcessGoes, NextsSame
<1>5. CASE n \notin Depths /\ n = Len(stack) + 1 /\ stack'[n] \in U
  BY <1>2, <1>5 DEF StepsOK, Starts
<1> QED BY <1>3, <1>4, <1>5, MovedCall

\* What every step that leaves the arrays alone keeps.
LEMMA StepKeeps ==
  ASSUME TypesInv, CallsInv, FieldsInv, TypesInv', CallsInv', NEW T, NEW U, Moves(T, U),
         StepsOK(T, U), LivesKept, SameEntries
  PROVE  /\ Shrunk /\ LoopsOnce' /\ CallsStarted' /\ HoldsKept' /\ ArraysOK' /\ HandledKept
         /\ \A f \in Fields : NotHeld(f) => NotHeld(f)'
         /\ \A f \in Fields, kind \in Kinds : Moved(f, kind)' => Moved(f, kind)
<1>1. LoopsKept /\ ListsKept
  BY MovesLoops DEF StepsOK
<1>2. LoopsOnce' /\ CallsStarted'
  BY MovesEntered DEF StepsOK, FieldsInv, EnteredOK, StartedOK
<1>3. HandledKept
  BY MovesHandled DEF StepsOK
<1>4. NextsKept /\ \A f \in Fields, kind \in Kinds : Moved(f, kind)' => Moved(f, kind)
  BY MovesNexts DEF StepsOK
<1>5. EntriesKept /\ \A f \in Fields : NotHeld(f) => NotHeld(f)'
  BY <1>3, SameEntriesKept
<1>6. Shrunk
  BY <1>1, <1>4, <1>5, Shrinks
<1>7. NextsGrow
  BY StepNexts
<1>8. ArraysOK'
  BY <1>7, ArraysKeep DEF FieldsInv
<1>9. HoldsKept'
  BY <1>5, <1>6 DEF HoldsKept, FieldsInv, Shrunk
<1> QED BY <1>2, <1>3, <1>4, <1>5, <1>6, <1>8, <1>9

\* The settle calls go on; promises settle when nobody waits for them; only
\* members of S start waiting.
SettlesGo(T, U, S) ==
  /\ \A t \in T : t.at = "settle" =>
       Innermost.at = "settle" /\ t.waiting \subseteq Innermost.waiting
  /\ \A u \in U : u.at # "settle"
  /\ \A p \in Promises : /\ promise[p] = "settled" => promise'[p] = "settled"
                         /\ promise'[p] = promise[p] \/ subs[p] = {}
  /\ \A p \in Promises : \A x \in subs'[p] :
       \/ x \in subs[p]
       \/ x \in S /\ x \in DOMAIN PromiseOf /\ PromiseOf[x] = p /\ promise'[p] = "pending"

\* A callback waits for one promise, and a settled one calls it once.
LEMMA SettlesKeep ==
  ASSUME TypesInv, TypesInv', SubscribedOK, NEW T, NEW U, Moves(T, U), NEW S,
         SettlesGo(T, U, S)
  PROVE  SubscribedOK' /\ \A c : c \notin S /\ Subscribed(c)' => Subscribed(c)
<1>1. ASSUME NEW n \in Depths', At(n, "settle")'
      PROVE  n \in Depths /\ At(n, "settle") /\ stack'[n].waiting \subseteq stack[n].waiting
  <2>1. stack'[n].at = "settle"
    BY <1>1 DEF At
  <2>2. CASE n \in Depths /\ stack'[n] = stack[n] /\ (Calling(n) => Calling(n)')
             /\ \A at : At(n, at) <=> At(n, at)'
    BY <1>1, <2>2
  <2>3. CASE n \in Depths /\ n = Len(stack) /\ stack'[n] \in T /\ Innermost = stack[n]
             /\ \A at : At(n, at) <=> Innermost.at = at
    BY <2>1, <2>3 DEF SettlesGo
  <2>4. CASE n \notin Depths /\ n = Len(stack) + 1 /\ stack'[n] \in U
    BY <2>1, <2>4 DEF SettlesGo
  <2> QED BY <2>2, <2>3, <2>4, MovedCall
<1>2. \A p \in Promises : \A x \in subs'[p] :
        x \in DOMAIN PromiseOf /\ PromiseOf[x] = p /\ promise'[p] = "pending"
  BY DEF SettlesGo, SubscribedOK
<1>3. \A n \in Depths' : At(n, "settle")' => \A x \in stack'[n].waiting :
        x \in DOMAIN PromiseOf /\ promise'[PromiseOf[x]] = "settled"
  BY <1>1, PromiseFacts DEF SettlesGo, SubscribedOK
<1>4. \A m, n \in Depths' : At(m, "settle")' /\ At(n, "settle")' /\ m # n =>
        stack'[m].waiting \cap stack'[n].waiting = {}
  <2>1. SUFFICES ASSUME NEW m \in Depths', NEW n \in Depths', At(m, "settle")',
                        At(n, "settle")', m # n
                 PROVE  stack'[m].waiting \cap stack'[n].waiting = {}
    OBVIOUS
  <2>2. stack[m].waiting \cap stack[n].waiting = {}
    BY <2>1, <1>1 DEF SubscribedOK
  <2> QED BY <2>1, <2>2, <1>1
<1>5. SubscribedOK'
  BY <1>2, <1>3, <1>4 DEF SubscribedOK
<1>6. ASSUME NEW c, c \notin S, Subscribed(c)'
      PROVE  Subscribed(c)
  <2>1. CASE \E p \in Promises : c \in subs'[p]
    BY <1>6, <2>1 DEF SettlesGo, Subscribed
  <2>2. CASE \E n \in Depths' : At(n, "settle")' /\ c \in stack'[n].waiting
    BY <2>2, <1>1 DEF Subscribed
  <2> QED BY <1>6, <2>1, <2>2 DEF Subscribed
<1> QED BY <1>5, <1>6

\* What is enqueued, returned, armed or owned has started.
WaitsStarted ==
  /\ \A b \in Blocks : b \in Range(ready') => b \in Range(ready) \/ life[b] # "none"
  /\ ret' # None /\ ret'.kind = "frame" => life[ret'.of] # "none"
  /\ \A f \in Fields : ctx'[f] # 0 => ctx[f] # 0 \/ life[Home(f)] # "none"
  /\ \A f \in owned' : f \in owned \/ life[Home(f)] # "none"

\* Nothing is written, started or, but for members of S, subscribed to.
Quiet ==
  /\ values' = values
  /\ \A b \in Blocks : life[b] = "none" <=> life'[b] = "none"

\* A step that writes no field and starts no block keeps all permissions as
\* they are.
LEMMA QuietKeeps ==
  ASSUME TypesInv, CallsInv, FieldsInv, TypesInv', CallsInv', NEW T, NEW U, Moves(T, U),
         StepsOK(T, U), SameEntries, NEW S, SettlesGo(T, U, S), S \cap Blocks = {},
         Quiet, WaitsStarted
  PROVE  FieldsInv' /\ Shrunk
<1>1. LivesKept
  BY DEF Quiet, LivesKept
<1>2. /\ Shrunk /\ LoopsOnce' /\ CallsStarted' /\ HoldsKept' /\ ArraysOK'
      /\ \A f \in Fields : NotHeld(f) => NotHeld(f)'
  BY <1>1, StepKeeps
<1>3. SubscribedOK' /\ \A c \in Blocks : Subscribed(c)' => Subscribed(c)
  BY SettlesKeep DEF FieldsInv
<1>4. WritesOK' /\ StartsOK'
  BY <1>2, <1>3, PermissionsKeep DEF Quiet
<1>5. StartedOK'
  <2>1. \A f \in Fields : \A i \in 1 .. Len(Children[f]) :
          /\ life'[Children[f][i]] # "none" => life[Children[f][i]] # "none"
          /\ Subscribed(Children[f][i])' => Subscribed(Children[f][i])
    BY <1>3, ChildFacts DEF Quiet
  <2> QED BY <1>1, <1>2, <2>1, StartedKeeps DEF FieldsInv, EnteredOK, WaitsStarted
<1> QED BY <1>2, <1>3, <1>4, <1>5 DEF FieldsInv, EnteredOK

-----------------------------------------------------------------------------
(* The steps that enter, write and start nothing                           *)

\* A quiet step that subscribes to nothing.
LEMMA CalmKeeps ==
  ASSUME TypesInv, CallsInv, FieldsInv, TypesInv', CallsInv', NEW T, NEW U, Moves(T, U),
         StepsOK(T, U), SameEntries, promise' = promise, subs' = subs,
         \A t \in T : t.at = "settle" =>
           Innermost.at = "settle" /\ t.waiting \subseteq Innermost.waiting,
         \A u \in U : u.at # "settle",
         Quiet, WaitsStarted
  PROVE  FieldsInv' /\ Shrunk
<1>1. SettlesGo(T, U, {})
  BY DEF SettlesGo
<1> QED BY <1>1, QuietKeeps

\* Arrays that do not change keep their fields.
LEMMA EntriesStay ==
  ASSUME entries' = entries
  PROVE  SameEntries
BY DEF SameEntries

\* A step that writes no field and starts no block is quiet.
LEMMA LivesStay ==
  ASSUME values' = values, life' = life
  PROVE  Quiet
BY DEF Quiet

\* A block's call is of a block that has started; a root's is the first.
LEMMA HereStarted ==
  ASSUME TypesInv, CallsInv, FieldsInv
  PROVE  /\ \A at \in {"block", "process", "resolve"} :
              Running(at) => life[Innermost.block] # "none"
         /\ Running("block") /\ Innermost.block \in Roots => Len(stack) = 1
<1>1. ASSUME NEW at \in {"block", "process", "resolve"}, Running(at)
      PROVE  life[Innermost.block] # "none"
  BY <1>1, Here DEF FieldsInv, EnteredOK, StartedOK, CallsStarted
<1>2. ASSUME Running("block"), Innermost.block \in Roots, Len(stack) # 1
      PROVE  FALSE
  <2>1. PICK n \in Nat : n = Len(stack) /\ n \in Depths /\ At(n, "block")
                         /\ stack[n] = Innermost /\ CallerOK(n)
    BY <1>2, Here
  <2>2. PICK m \in Nat : m = n - 1 /\ m \in Depths /\ m + 1 = n /\ m # Len(stack)
    BY <1>2, <2>1 DEF Depths
  <2>3. PICK b \in Blocks : b = Innermost.block /\ b \in Roots
    BY <1>2, HereBlock
  <2>4. Executes(m, b)
    BY <1>2, <2>1, <2>2, <2>3 DEF CallerOK
  <2>5. Calling(m)
    BY <2>1, <2>2 DEF Calling, At
  <2>6. CASE At(m, "block") \/ At(m, "process")
    <3>1. FieldOf(m) \in Fields
      BY <2>2, <2>5, <2>6, CallingBlock, CallingProcess
    <3>2. IsChild(b, FieldOf(m))
      BY <2>4, <2>6 DEF Executes, At
    <3>3. 1 \in 1 .. Len(Children[FieldOf(m)]) /\ Children[FieldOf(m)][1] = b
      BY <3>1, <3>2, ChildFacts DEF IsChild
    <3> QED BY <2>3, <3>1, <3>3, TreeAssumption
  <2>7. CASE At(m, "list")
    <3>1. PICK f \in Fields : f = stack[m].field /\ stack[m].index \in Nat
      BY <2>2, <2>7, ListCalled
    <3>2. stack[m].index < Len(Children[f]) /\ Children[f][stack[m].index + 1] = b
      BY <2>4, <2>7, <3>1 DEF Executes, At
    <3>3. PICK i \in 1 .. Len(Children[f]) : i = stack[m].index + 1
      BY <3>1, <3>2, ChildFacts
    <3> QED BY <2>3, <3>1, <3>2, <3>3, TreeAssumption
  <2>8. CASE At(m, "settle")
    <3>1. stack[m].current = b /\ stack[m].current \in Items \cup {None}
      BY <2>2, <2>4, <2>8, CallTypes DEF Executes, At, Depths, TypesInv
    <3>2. b # None
      BY <2>3, TypesAssumption
    <3> QED BY <2>3, <3>1, <3>2, ChildFacts
  <2> QED BY <2>4, <2>6, <2>7, <2>8 DEF Executes
<1> QED BY <1>1, <1>2

\* Permissions are lost and never gained by finalize_block of a block nothing
\* of which is pending.
LEMMA FinalizeCompleteFields ==
  ASSUME TypesInv, CallsInv, FieldsInv, TypesInv', CallsInv', NEW b \in Blocks,
         FinalizeComplete(b)
  PROVE  FieldsInv' /\ Shrunk
<1>1. /\ ret = None /\ Running("block") /\ Innermost.block = b
      /\ life' = [life EXCEPT ![b] = "done"]
      /\ entries' = entries /\ promise' = promise /\ subs' = subs /\ values' = values
      /\ ready' = ready /\ ctx' = ctx /\ owned' = owned /\ stack' = Pop
      /\ b \in Roots => ret' = ret
      /\ b \notin Roots => ret' = Outcome(nulled[b])
  BY DEF FinalizeComplete, Finalizing, Returns, promiseVars, tree, lists
<1>2. stack # <<>> /\ ~Running("process") /\ ~Running("drain")
  BY <1>1, Here
<1>3. Leaves
  BY <1>1, <1>2, PopFacts
<1>4. life[b] # "none" /\ (b \in Roots => Len(stack) = 1)
  BY <1>1, HereStarted
<1>5. ret' # None => ret'.kind # "frame"
  <2>1. nulled[b] \in BOOLEAN
    BY DEF TypesInv
  <2> QED BY <1>1, <2>1, ResultFacts
<1>6. ret' # None \/ Len(stack) = 1
  <2>1. nulled[b] \in BOOLEAN
    BY DEF TypesInv
  <2> QED BY <1>1, <1>4, <2>1, ResultFacts
<1>7. Moves({}, {})
  BY <1>3, <1>6, LeavesMoves
<1>8. StepsOK({}, {})
  BY <1>2 DEF StepsOK, ProcessGoes, NextsSame
<1>9. Quiet
  BY <1>1, <1>4 DEF Quiet, TypesInv
<1>10. WaitsStarted
  BY <1>1, <1>5 DEF WaitsStarted
<1> QED BY <1>1, <1>7, <1>8, <1>9, <1>10, EntriesStay, CalmKeeps

\* The stack goes on at a call that is no process call, and may start a drain.
LEMMA GoesOnQuietly ==
  ASSUME TypesInv, CallsInv, TypesInv', NEW t \in Calls, SameCall(t),
         Running("block") \/ Running("list") \/ Running("settle"),
         t.at \in {"block", "list"} => t.index = Innermost.index + 1,
         Becomes(t) \/ BecomesAndEnters(t, DrainLoop)
  PROVE  \E U \in {{}, {DrainLoop}} : Moves({t}, U) /\ StepsOK({t}, U)
<1>1. ~Running("process") /\ Innermost.at \in {"block", "list", "settle"}
  BY Here
<1>2. Innermost.at \in {"block", "list"} => Innermost.index \in Nat
  BY <1>1, Here, HereBlock, HereList
<1>3. Onward(t) /\ t.at # "process"
  BY <1>1, <1>2 DEF Onward, SameCall
<1>4. \A U \in {{}, {DrainLoop}} : StepsOK({t}, U)
  BY <1>1, <1>3, MadeOthers DEF StepsOK, ProcessGoes, NextsSame, Starts
<1>5. Moves({t}, {}) \/ Moves({t}, {DrainLoop})
  BY BecomesMoves, BecomesAndEntersMoves, MadeCalls
<1> QED BY <1>4, <1>5

\* A call that is no process call returns.
LEMMA ReturnsQuietly ==
  ASSUME TypesInv, CallsInv, TypesInv', Leaves, ~Running("process"),
         Innermost.at \in {"block", "list"} => ret' # None \/ Len(stack) = 1
  PROVE  Moves({}, {}) /\ StepsOK({}, {})
<1>1. Moves({}, {})
  BY LeavesMoves
<1>2. StepsOK({}, {})
  BY DEF StepsOK, ProcessGoes, NextsSame
<1> QED BY <1>1, <1>2

\* Permissions are lost and never gained by the end of finalize_block after
\* the drain it entered.
LEMMA FinalizeReturnsFields ==
  ASSUME TypesInv, CallsInv, FieldsInv, TypesInv', CallsInv', NEW b \in Blocks,
         FinalizeReturns(b)
  PROVE  FieldsInv' /\ Shrunk
<1>1. /\ ret = None /\ Running("block") /\ Innermost.block = b /\ stack # <<>>
      /\ entries' = entries /\ promise' = promise /\ subs' = subs /\ values' = values
      /\ life' = life /\ ctx' = ctx /\ owned' = owned
      /\ Innermost.at = "block" /\ ~Running("process")
  BY Here DEF FinalizeReturns, Finalizing, promiseVars, tree, lists, frames
<1>2. life[b] # "none" /\ (b \in Roots => Len(stack) = 1)
  BY <1>1, HereStarted
<1>3. SameEntries /\ Quiet
  BY <1>1, EntriesStay, LivesStay
<1>4. CASE b \in Roots /\ Finalizing(b, 1) /\ response = None /\ unresolved[b] = 0
  <2>1. EnqueueAndDrain(TRUE, b, ready, Advance) /\ ret' = ret
    BY <1>4 DEF FinalizeReturns
  <2>2. PICK t \in Calls : t = Advanced(Innermost)
        /\ t = OpLoop(b, Innermost.index + 1)
    BY <1>1, HereBlock, MadeCalls DEF Advanced
  <2>3. t.at = "block" /\ t.block = b /\ t.index = Innermost.index + 1
    BY <2>2, MadeBlock
  <2>4. SameCall(t)
    BY <2>3, <1>1 DEF SameCall
  <2>5. EnqueueAndDrain(TRUE, b, ready, Top(t)) /\ ready \in Seq(Blocks \cup {None})
    BY <2>1, <2>2 DEF Advance, TypesInv
  <2>6. /\ Becomes(t) \/ BecomesAndEnters(t, DrainLoop)
        /\ \A c : c \in Range(ready') => c \in Range(ready) \/ c = b
    BY <1>1, <2>5, EnqueueAndDrainFacts
  <2>7. PICK U \in {{}, {DrainLoop}} : Moves({t}, U) /\ StepsOK({t}, U)
    BY <1>1, <2>3, <2>4, <2>6, GoesOnQuietly
  <2>8. \A u \in U : u.at # "settle"
    BY <2>7, MadeOthers
  <2>9. WaitsStarted
    BY <1>1, <1>2, <2>1, <2>6 DEF WaitsStarted
  <2> QED BY <1>1, <1>3, <2>3, <2>7, <2>8, <2>9, CalmKeeps
<1>5. CASE ~(b \in Roots /\ Finalizing(b, 1) /\ response = None /\ unresolved[b] = 0)
  <2>1. /\ stack' = Pop /\ ready' = ready
        /\ ret' = IF b \in Roots THEN None ELSE Frame(b)
    BY <1>5 DEF FinalizeReturns
  <2>2. Leaves
    BY <1>1, <2>1, PopFacts
  <2>3. ret' # None \/ Len(stack) = 1
    BY <1>2, <2>1, ResultFacts
  <2>4. Moves({}, {}) /\ StepsOK({}, {})
    BY <1>1, <2>2, <2>3, ReturnsQuietly
  <2>5. WaitsStarted
    BY <1>1, <1>2, <2>1, ResultFacts DEF WaitsStarted
  <2> QED BY <1>1, <1>3, <2>4, <2>5, CalmKeeps
<1> QED BY <1>4, <1>5

\* Arming a frame changes the states of entries, and subscribes to promises
\* that have not settled.
LEMMA ArmKeeps ==
  ASSUME TypesInv, NEW b \in Blocks, NEW es \in Seq(EntrySet), ArmFrame(b, es),
         ArrayOK(es), \A i \in 1 .. Len(es) : Home(es[i].field) = b
  PROVE  /\ \A i \in 1 .. Len(es) : entries'[b][i].state # "unarmed"
         /\ \A f \in Fields : ctx'[f] # 0 => ctx[f] # 0 \/ Home(f) = b
         /\ \A p \in Promises : \A x \in subs'[p] :
              \/ x \in subs[p]
              \/ /\ x \in Fields /\ x \in DOMAIN PromiseOf /\ PromiseOf[x] = p
                 /\ promise[p] = "pending"
<1>1. \A i \in 1 .. Len(es) : entries'[b][i] = ArmedEntry(es[i])
  BY ArmFacts
<1>2. \A i \in 1 .. Len(es) : ArmedEntry(es[i]).state # "unarmed"
  <2>1. SUFFICES ASSUME NEW i \in 1 .. Len(es) PROVE ArmedEntry(es[i]).state # "unarmed"
    OBVIOUS
  <2>2. CASE es[i].state # "unarmed"
    BY <2>2 DEF ArmedEntry
  <2>3. CASE es[i].state = "unarmed"
    <3>1. PICK s \in {"ready", "armed"} : s = IF SettledAtOnce(es[i]) THEN "ready" ELSE "armed"
      OBVIOUS
    <3>2. ArmedEntry(es[i]) = Entry(es[i].field, es[i].kind, s)
      BY <2>3, <3>1 DEF ArmedEntry
    <3> QED BY <3>1, <3>2, MadeEntry
  <2> QED BY <2>2, <2>3
<1>3. ASSUME NEW f, ArmsAt(es, f) # {}
      PROVE  f \in Fields /\ Home(f) = b /\ promise[PromiseOf[f]] # "settled"
  <2>1. PICK i \in 1 .. Len(es) : es[i].field = f /\ es[i].state = "unarmed" /\ Waits(es[i])
    BY <1>3 DEF ArmsAt
  <2>2. es[i] \in EntrySet
    BY <2>1
  <2>3. es[i].field \in Fields /\ Home(es[i].field) = b
    BY <2>2, EntryFacts
  <2> QED BY <2>1, <2>3 DEF Waits, SettledAtOnce
<1>4. \A f \in Fields : ctx'[f] # 0 => ctx[f] # 0 \/ Home(f) = b
  <2>1. SUFFICES ASSUME NEW f \in Fields, ctx'[f] # 0, ctx[f] = 0 PROVE Home(f) = b
    OBVIOUS
  <2>2. ArmsAt(es, f) # {}
    BY <2>1 DEF ArmFrame
  <2> QED BY <2>2, <1>3
<1>5. ASSUME NEW p \in Promises, NEW x \in subs'[p], x \notin subs[p]
      PROVE  /\ x \in Fields /\ x \in DOMAIN PromiseOf /\ PromiseOf[x] = p
             /\ promise[p] = "pending"
  <2>1. subs'[p] = subs[p] \cup {f \in DOMAIN PromiseOf :
                                   PromiseOf[f] = p /\ ArmsAt(es, f) # {}}
    BY DEF ArmFrame
  <2>2. x \in DOMAIN PromiseOf /\ PromiseOf[x] = p /\ ArmsAt(es, x) # {}
    BY <2>1, <1>5
  <2>3. promise[p] \in {"pending", "settled"}
    BY DEF TypesInv
  <2> QED BY <2>2, <2>3, <1>3
<1> QED BY <1>1, <1>2, <1>4, <1>5

\* Permissions are lost and never gained by finalize_block of a block that
\* waits, armed and queued if something is ready.
LEMMA FinalizeSuspendsFields ==
  ASSUME TypesInv, CallsInv, FieldsInv, TypesInv', CallsInv', NEW b \in Blocks,
         FinalizeSuspends(b)
  PROVE  FieldsInv' /\ Shrunk
<1>1. /\ ret = None /\ Running("block") /\ Innermost.block = b /\ stack # <<>>
      /\ Innermost.at = "block" /\ ~Running("process")
      /\ promise' = promise /\ values' = values /\ owned' = owned
      /\ life' = [life EXCEPT ![b] = "suspended"]
  BY Here DEF FinalizeSuspends, Finalizing, tree, lists
<1>2. PICK es \in Seq(EntrySet) : es = entries[b] /\ ArmFrame(b, es)
  BY DEF FinalizeSuspends, TypesInv
<1>3. ArrayOK(es) /\ \A i \in 1 .. Len(es) : Home(es[i].field) = b
  BY <1>2 DEF FieldsInv, ArraysOK
<1>4. /\ \A i \in 1 .. Len(es) : entries'[b][i].state # "unarmed"
      /\ \A f \in Fields : ctx'[f] # 0 => ctx[f] # 0 \/ Home(f) = b
      /\ \A p \in Promises : \A x \in subs'[p] :
           \/ x \in subs[p]
           \/ /\ x \in Fields /\ x \in DOMAIN PromiseOf /\ PromiseOf[x] = p
              /\ promise[p] = "pending"
  BY <1>2, <1>3, ArmKeeps
<1>5. SameEntries
  <2>1. /\ Len(entries'[b]) = Len(entries[b])
        /\ \A i \in 1 .. Len(entries[b]) :
             /\ entries'[b][i].field = entries[b][i].field
             /\ entries'[b][i].kind = entries[b][i].kind
             /\ entries'[b][i].state # "unarmed"
        /\ \A c \in Blocks : c # b => entries'[c] = entries[c]
    BY <1>2, <1>4, ArmFacts
  <2> QED BY <2>1 DEF SameEntries
<1>6. life[b] # "none" /\ (b \in Roots => Len(stack) = 1)
  BY <1>1, HereStarted
<1>7. Quiet
  BY <1>1, <1>6 DEF Quiet, TypesInv
<1>8. Fields \cap Blocks = {}
  BY TypesAssumption
<1>9. \A c \in Blocks : c \in Range(ready') => c \in Range(ready) \/ c = b
  <2>1. ready' = Enqueued(b, ready) \/ ready' = ready
    BY DEF FinalizeSuspends
  <2> QED BY <2>1, QueueFacts DEF TypesInv
<1>10. ASSUME NEW T, NEW U, \A t \in T : t.at # "settle", \A u \in U : u.at # "settle"
       PROVE  SettlesGo(T, U, Fields)
  BY <1>1, <1>4, <1>10 DEF SettlesGo
<1>11. PICK settled \in BOOLEAN : settled = (WaitingCount(entries[b]) = 0)
  OBVIOUS
<1>12. draining \in BOOLEAN
  BY DEF TypesInv
<1>13. CASE b \in Roots \cup Items /\ settled /\ ~draining
  <2>1. stack' = Append(Advance, DrainLoop) /\ ret' = ret
    BY <1>11, <1>13 DEF FinalizeSuspends
  <2>2. PICK t \in Calls : t = Advanced(Innermost)
        /\ t = OpLoop(b, Innermost.index + 1)
    BY <1>1, HereBlock, MadeCalls DEF Advanced
  <2>3. t.at = "block" /\ t.block = b /\ t.index = Innermost.index + 1
    BY <2>2, MadeBlock
  <2>4. SameCall(t)
    BY <2>3, <1>1 DEF SameCall
  <2>5. BecomesAndEnters(t, DrainLoop)
    BY <1>1, <2>1, <2>2, TopPushFacts, MadeCalls DEF Advance
  <2>6. PICK U \in {{}, {DrainLoop}} : Moves({t}, U) /\ StepsOK({t}, U)
    BY <1>1, <2>3, <2>4, <2>5, GoesOnQuietly
  <2>7. SettlesGo({t}, U, Fields)
    <3>1. \A u \in U : u.at # "settle"
      BY <2>6, MadeOthers
    <3> QED BY <3>1, <2>3, <1>10
  <2>8. WaitsStarted
    BY <1>1, <1>4, <1>6, <1>9, <2>1 DEF WaitsStarted
  <2> QED BY <1>5, <1>7, <1>8, <2>6, <2>7, <2>8, QuietKeeps
<1>14. CASE ~(b \in Roots \cup Items /\ settled /\ ~draining)
  <2>1. stack' = Pop /\ ret' = IF b \in Roots THEN None ELSE Frame(b)
    <3>1. CASE b \in Roots \cup Items
      BY <1>11, <1>12, <1>14, <3>1 DEF FinalizeSuspends
    <3>2. CASE b \notin Roots \cup Items
      BY <3>2 DEF FinalizeSuspends, Returns
    <3> QED BY <3>1, <3>2
  <2>2. Leaves
    BY <1>1, <2>1, PopFacts
  <2>3. ret' # None \/ Len(stack) = 1
    BY <1>6, <2>1, ResultFacts
  <2>4. Moves({}, {}) /\ StepsOK({}, {})
    BY <1>1, <2>2, <2>3, ReturnsQuietly
  <2>5. SettlesGo({}, {}, Fields)
    BY <1>10
  <2>6. WaitsStarted
    BY <1>1, <1>4, <1>6, <1>9, <2>1, ResultFacts DEF WaitsStarted
  <2> QED BY <1>5, <1>7, <1>8, <2>4, <2>5, <2>6, QuietKeeps
<1> QED BY <1>13, <1>14

\* Permissions are lost and never gained by the item loop that takes the
\* frame or the outcome of an item's block.
LEMMA ListTakesResultFields ==
  ASSUME TypesInv, CallsInv, FieldsInv, TypesInv', CallsInv', NEW f \in Fields,
         ListTakesResult(f)
  PROVE  FieldsInv' /\ Shrunk
<1>1. /\ ret # None /\ ret' = None /\ Running("list") /\ stack # <<>>
      /\ Innermost.at = "list" /\ Within(Len(stack)) /\ ~Running("process")
      /\ stack' = Advance
      /\ entries' = entries /\ promise' = promise /\ subs' = subs /\ values' = values
      /\ life' = life /\ ctx' = ctx /\ owned' = owned /\ ready' = ready
  BY Here DEF ListTakesResult, promiseVars, tree, frames
<1>2. PICK t \in Calls : /\ t = Advanced(Innermost) /\ SameCall(t) /\ t.at = "list"
                         /\ t.index = Innermost.index + 1
  BY <1>1, AdvancedFacts
<1>3. Becomes(t)
  BY <1>1, <1>2, TopFacts DEF Advance
<1>4. PICK U \in {{}, {DrainLoop}} : Moves({t}, U) /\ StepsOK({t}, U)
  BY <1>1, <1>2, <1>3, GoesOnQuietly
<1>5. \A u \in U : u.at # "settle"
  BY <1>4, MadeOthers
<1>6. WaitsStarted
  BY <1>1 DEF WaitsStarted
<1> QED BY <1>1, <1>2, <1>4, <1>5, <1>6, EntriesStay, LivesStay, CalmKeeps

\* Permissions are lost and never gained by the return of a list to its
\* caller.
LEMMA ListReturnsFields ==
  ASSUME TypesInv, CallsInv, FieldsInv, TypesInv', CallsInv', NEW f \in Fields,
         ListComplete(f) \/ ListPends(f)
  PROVE  FieldsInv' /\ Shrunk
<1>1. /\ ret = None /\ Running("list") /\ stack # <<>> /\ Innermost.at = "list"
      /\ ~Running("process") /\ stack' = Pop
      /\ entries' = entries /\ promise' = promise /\ subs' = subs /\ values' = values
      /\ life' = life /\ ctx' = ctx /\ owned' = owned /\ ready' = ready
  BY Here DEF ListComplete, ListPends, InItemLoop, Returns, promiseVars, lists, frames
<1>2. ret' # None /\ ret'.kind # "frame"
  <2>1. CASE ListComplete(f)
    <3>1. PICK n \in BOOLEAN : ret' = Outcome(n)
      BY <2>1 DEF ListComplete, Returns, ListNulls
    <3> QED BY <3>1, ResultFacts
  <2>2. CASE ListPends(f)
    <3>1. ret' = [kind |-> "list", of |-> f, null |-> FALSE] /\ f \in Lists
      BY <1>1, <2>2, HereList DEF ListPends, InItemLoop, Returns
    <3>2. ret' \in Results /\ ret'.kind = "list"
      BY <3>1 DEF Results
    <3> QED BY <3>2, ResultFacts
  <2> QED BY <2>1, <2>2
<1>3. Leaves
  BY <1>1, PopFacts
<1>4. Moves({}, {}) /\ StepsOK({}, {})
  BY <1>1, <1>2, <1>3, ReturnsQuietly
<1>5. WaitsStarted
  BY <1>1, <1>2 DEF WaitsStarted
<1> QED BY <1>1, <1>4, <1>5, EntriesStay, LivesStay, CalmKeeps

\* Permissions are lost and never gained by the return of a settled promise
\* when its callbacks have run.
LEMMA SettleReturnsFields ==
  ASSUME TypesInv, CallsInv, FieldsInv, TypesInv', CallsInv', SettleReturns
  PROVE  FieldsInv' /\ Shrunk
<1>1. /\ ret = None /\ Running("settle") /\ stack # <<>> /\ Innermost.at = "settle"
      /\ ~Running("process") /\ stack' = Pop /\ ret' = ret
      /\ entries' = entries /\ promise' = promise /\ subs' = subs /\ values' = values
      /\ life' = life /\ ctx' = ctx /\ owned' = owned /\ ready' = ready
  BY Here DEF SettleReturns, InSettleLoop, promiseVars, tree, lists, frames
<1>2. Moves({}, {}) /\ StepsOK({}, {})
  BY <1>1, PopFacts, ReturnsQuietly
<1>3. WaitsStarted
  BY <1>1 DEF WaitsStarted
<1> QED BY <1>1, <1>2, <1>3, EntriesStay, LivesStay, CalmKeeps

\* Permissions are lost and never gained by drain_scheduler that takes the
\* last frame of the queue, or finds it empty.
LEMMA DrainNextFields ==
  ASSUME TypesInv, CallsInv, FieldsInv, TypesInv', CallsInv', DrainNext
  PROVE  FieldsInv' /\ Shrunk
<1>1. /\ ret = None /\ Running("drain") /\ stack # <<>> /\ Innermost.at = "drain"
      /\ ~Running("process") /\ ret' = ret /\ ready \in Seq(Blocks \cup {None})
      /\ entries' = entries /\ promise' = promise /\ subs' = subs /\ values' = values
      /\ life' = life /\ ctx' = ctx /\ owned' = owned
  BY Here, OneProcess DEF DrainNext, promiseVars, tree, lists, frames, TypesInv
<1>2. CASE ready = <<>>
  <2>1. stack' = Pop /\ ready' = ready
    BY <1>2 DEF DrainNext
  <2>2. Moves({}, {}) /\ StepsOK({}, {})
    BY <1>1, <2>1, PopFacts, ReturnsQuietly
  <2>3. WaitsStarted
    BY <1>1, <2>1 DEF WaitsStarted
  <2> QED BY <1>1, <2>2, <2>3, EntriesStay, LivesStay, CalmKeeps
<1>3. CASE ready # <<>>
  <2>1. PICK n \in Nat : n = Len(ready) /\ n # 0
    BY <1>1, <1>3
  <2>2. /\ ready' = SubSeq(ready, 1, n - 1)
        /\ stack' = IF ready[n] = None THEN stack ELSE Push(ProcessLoop(ready[n], 0, <<>>))
    BY <1>3, <2>1 DEF DrainNext
  <2>3. \A c : c \in Range(ready') => c \in Range(ready)
    <3>1. /\ 1 \in Int /\ n - 1 \in 0 .. Len(ready)
          /\ \A i \in 1 .. n - 1 : i \in 1 .. Len(ready)
      BY <2>1
    <3>2. /\ ready' \in Seq(Blocks \cup {None}) /\ Len(ready') = n - 1
          /\ \A i \in 1 .. n - 1 : ready'[i] = ready[i]
      BY <1>1, <2>1, <2>2, <3>1
    <3>3. SUFFICES ASSUME NEW c, c \in Range(ready') PROVE c \in Range(ready)
      OBVIOUS
    <3>4. PICK i \in 1 .. n - 1 : c = ready'[i]
      BY <3>2, <3>3 DEF Range
    <3>5. i \in 1 .. Len(ready) /\ c = ready[i]
      BY <3>1, <3>2, <3>4
    <3> QED BY <1>1, <3>5 DEF Range
  <2>4. WaitsStarted
    BY <1>1, <2>3 DEF WaitsStarted
  <2>5. CASE ready[n] = None
    <3>1. stack' = stack
      BY <2>2, <2>5
    <3>2. Moves({}, {})
      BY <1>1, <3>1, StaysMoves
    <3>3. StepsOK({}, {})
      BY <1>1 DEF StepsOK, ProcessGoes, NextsSame
    <3> QED BY <1>1, <2>4, <3>2, <3>3, EntriesStay, LivesStay, CalmKeeps
  <2>6. CASE ready[n] # None
    <3>1. PICK b \in Blocks : b = ready[n] /\ b \in Range(ready)
      <4>1. n \in 1 .. Len(ready)
        BY <2>1
      <4>2. ready[n] \in Blocks \cup {None} /\ ready[n] \in Range(ready)
        BY <1>1, <4>1 DEF Range
      <4> QED BY <4>2, <2>6
    <3>2. PICK u \in Calls : u = ProcessLoop(b, 0, <<>>)
      BY StartedProcess
    <3>3. u.at = "process" /\ u.block = b /\ u.index = 0 /\ u.next = <<>>
      BY <3>2, MadeProcess
    <3>4. Enters(u)
      BY <2>2, <2>6, <3>1, <3>2, PushFacts
    <3>5. Moves({}, {u})
      BY <1>1, <3>4, EntersMoves
    <3>6. life[b] # "none"
      BY <3>1 DEF FieldsInv, EnteredOK, StartedOK
    <3>7. StepsOK({}, {u})
      BY <1>1, <3>3, <3>6 DEF StepsOK, ProcessGoes, NextsSame, Starts
    <3> QED BY <1>1, <2>4, <3>3, <3>5, <3>7, EntriesStay, LivesStay, CalmKeeps
  <2> QED BY <2>5, <2>6
<1> QED BY <1>2, <1>3

\* What settles an entry leaves the entries as they are but for a state.
LEMMA StoredKeeps ==
  ASSUME TypesInv, NEW b \in Blocks, NEW i,
         entries' = IF i \in 1 .. Len(entries[b])
                    THEN [entries EXCEPT ![b] = Stored(entries[b], i)] ELSE entries
  PROVE  SameEntries
<1>1. CASE i \in 1 .. Len(entries[b])
  <2>1. entries' = [entries EXCEPT ![b] = Stored(entries[b], i)]
    BY <1>1
  <2>2. /\ Len(entries'[b]) = Len(entries[b])
        /\ \A j \in 1 .. Len(entries[b]) :
             /\ entries'[b][j].field = entries[b][j].field
             /\ entries'[b][j].kind = entries[b][j].kind
             /\ j # i => entries'[b][j] = entries[b][j]
        /\ entries'[b][i].state = "ready"
        /\ \A c \in Blocks : c # b => entries'[c] = entries[c]
    BY <1>1, <2>1, StoredInFacts
  <2>3. \A j \in 1 .. Len(entries[b]) :
          entries'[b][j].state = "unarmed" => entries[b][j].state = "unarmed"
    BY <2>2
  <2> QED BY <2>2, <2>3 DEF SameEntries
<1>2. CASE i \notin 1 .. Len(entries[b])
  BY <1>2, EntriesStay
<1> QED BY <1>1, <1>2

\* Permissions are lost and never gained by resolve_frame that stores a
\* block's outcome in its parent and enqueues it.
LEMMA ResolveFrameFields ==
  ASSUME TypesInv, CallsInv, FieldsInv, TypesInv', CallsInv', NEW b \in Blocks,
         ResolveFrame(b)
  PROVE  FieldsInv' /\ Shrunk
<1>1. /\ Running("resolve") /\ Innermost.block = b /\ Innermost.at = "resolve"
      /\ stack # <<>> /\ ret = None /\ draining /\ ~Running("process")
      /\ life' = [life EXCEPT ![b] = "done"]
      /\ promise' = promise /\ subs' = subs /\ ctx' = ctx /\ values' = values /\ ret' = ret
  BY Here, OneProcess DEF ResolveFrame, promiseVars
<1>2. life[b] # "none"
  BY <1>1, HereStarted
<1>3. Quiet
  BY <1>1, <1>2 DEF Quiet, TypesInv
<1>4. \A c \in Blocks : c \in Range(Dequeued(b)) => c \in Range(ready)
  BY DequeuedFacts, TypesAssumption
<1>5. ASSUME stack' = Pop, owned' = owned, SameEntries,
             \A c \in Blocks : c \in Range(ready') => c \in Range(ready) \/ life[c] # "none"
      PROVE  FieldsInv' /\ Shrunk
  <2>1. Moves({}, {}) /\ StepsOK({}, {})
    BY <1>1, <1>5, PopFacts, ReturnsQuietly
  <2>2. WaitsStarted
    BY <1>1, <1>5 DEF WaitsStarted
  <2> QED BY <1>1, <1>3, <1>5, <2>1, <2>2, CalmKeeps
<1>6. CASE \E f \in Fields \ Lists :
             /\ b \in Range(Children[f])
             /\ ResolveIntoParent(b, CHOOSE g \in Fields : b \in Range(Children[g]))
             /\ UNCHANGED <<lists, errors, draining, response>>
  <2>1. PICK f \in Fields :
          f = (CHOOSE g \in Fields : b \in Range(Children[g])) /\ b \in Range(Children[f])
    BY <1>6
  <2>2. PICK p \in Blocks : p = Home(f)
    BY HomeFacts
  <2>3. ResolveIntoParent(b, f) /\ owned' = owned
    BY <1>6, <2>1 DEF lists
  <2>4. life[p] # "none"
    <3>1. Children[f] \in Seq(Blocks)
      BY ChildFacts
    <3>2. PICK i \in 1 .. Len(Children[f]) : Children[f][i] = b
      BY <2>1, <3>1 DEF Range
    <3> QED BY <1>2, <2>2, <3>2 DEF FieldsInv, EnteredOK, StartedOK
  <2>5. stack' = Pop
    BY <2>3 DEF ResolveIntoParent
  <2>6. SameEntries
    BY <2>2, <2>3, StoredKeeps DEF ResolveIntoParent
  <2>7. \A c \in Blocks : c \in Range(ready') => c \in Range(ready) \/ c = p
    <3>1. ready' = Enqueued(p, Dequeued(b)) \/ ready' = Dequeued(b)
      BY <2>2, <2>3 DEF ResolveIntoParent
    <3> QED BY <1>4, <3>1, DequeuedFacts, QueueFacts
  <2> QED BY <1>5, <2>3, <2>4, <2>5, <2>6, <2>7
<1>7. CASE /\ b \in Items
           /\ ItemResolves(b, nulled[b], FALSE, Pop)
           /\ UNCHANGED <<entries, unresolved, owned, response>>
  <2>1. PICK p \in Blocks : p = Home(ListOf(b))
    BY <1>7, ItemResolvesFacts
  <2>2. PICK wanted \in BOOLEAN :
          /\ EnqueueAndDrain(wanted, p, Dequeued(b), Pop)
          /\ wanted => ListOf(b) \in owned
    BY <1>7, <2>1, ItemResolvesFacts
  <2>3. stack' = Pop
    BY <1>1, <2>2 DEF EnqueueAndDrain
  <2>4. wanted => life[p] # "none"
    BY <2>1, <2>2 DEF FieldsInv, EnteredOK, StartedOK
  <2>5. \A c \in Blocks : c \in Range(ready') => c \in Range(ready) \/ (wanted /\ c = p)
    <3>1. CASE wanted
      <4>1. ready' = Enqueued(p, Dequeued(b))
        BY <2>2, <3>1 DEF EnqueueAndDrain
      <4> QED BY <1>4, <3>1, <4>1, DequeuedFacts, QueueFacts
    <3>2. CASE ~wanted
      <4>1. ready' = Dequeued(b)
        BY <2>2, <3>2 DEF EnqueueAndDrain
      <4> QED BY <1>4, <4>1
    <3> QED BY <3>1, <3>2
  <2> QED BY <1>5, <1>7, <2>3, <2>4, <2>5, EntriesStay
<1>8. CASE /\ b \in Roots
           /\ response' = IF nulled[b] THEN "null" ELSE "data"
           /\ stack' = Pop
           /\ ready' = Dequeued(b)
           /\ UNCHANGED <<entries, unresolved, lists, errors, draining>>
  <2>1. owned' = owned
    BY <1>8 DEF lists
  <2> QED BY <1>4, <1>5, <1>8, <2>1, EntriesStay
<1> QED BY <1>6, <1>7, <1>8 DEF ResolveFrame

\* Permissions are lost and never gained by the callback of an entry, which
\* stores the value and enqueues its frame.
LEMMA SettleEntryFields ==
  ASSUME TypesInv, CallsInv, FieldsInv, TypesInv', CallsInv', NEW f \in Fields,
         SettleEntry(f)
  PROVE  FieldsInv' /\ Shrunk
<1>1. /\ ret = None /\ Running("settle") /\ stack # <<>> /\ Innermost.at = "settle"
      /\ ret' = ret /\ promise' = promise /\ subs' = subs /\ values' = values
      /\ life' = life /\ owned' = owned
  BY Here DEF SettleEntry, InSettleLoop, promiseVars, tree, lists
<1>2. PICK b \in Blocks : b = Home(f)
  BY HomeFacts
<1>3. PICK t \in Calls : /\ AfterSubscriber(f, None) = Top(t) /\ SameCall(t)
                         /\ t.at = "settle" /\ t.waiting = Innermost.waiting \ {f}
  BY <1>1, AfterSubscriberFacts
<1>4. ASSUME Becomes(t) \/ BecomesAndEnters(t, DrainLoop), SameEntries,
             \A c \in Blocks : c \in Range(ready') => c \in Range(ready) \/ life[c] # "none",
             \A g \in Fields : ctx'[g] # 0 => ctx[g] # 0
      PROVE  FieldsInv' /\ Shrunk
  <2>1. PICK U \in {{}, {DrainLoop}} : Moves({t}, U) /\ StepsOK({t}, U)
    BY <1>1, <1>3, <1>4, GoesOnQuietly
  <2>2. \A u \in U : u.at # "settle"
    BY <2>1, MadeOthers
  <2>3. WaitsStarted
    BY <1>1, <1>4 DEF WaitsStarted
  <2> QED BY <1>1, <1>3, <1>4, <2>1, <2>2, <2>3, LivesStay, CalmKeeps
<1>5. CASE ctx[f] \in 1 .. Len(entries[b])
  <2>1. /\ entries' = [entries EXCEPT ![b] = Stored(entries[b], ctx[f])]
        /\ ctx' = [ctx EXCEPT ![f] = 0]
        /\ \E wanted \in BOOLEAN : EnqueueAndDrain(wanted, b, ready, Top(t))
    BY <1>2, <1>3, <1>5 DEF SettleEntry
  <2>2. PICK wanted \in BOOLEAN : EnqueueAndDrain(wanted, b, ready, Top(t))
    BY <2>1
  <2>3. ready \in Seq(Blocks \cup {None})
    BY DEF TypesInv
  <2>4. /\ \A c : c \in Range(ready') => c \in Range(ready) \/ c = b
        /\ Becomes(t) \/ BecomesAndEnters(t, DrainLoop)
    BY <1>1, <2>2, <2>3, EnqueueAndDrainFacts
  <2>5. SameEntries
    BY <1>5, <2>1, StoredKeeps
  <2>6. life[b] # "none"
    <3>1. ctx[f] # 0
      BY <1>5
    <3> QED BY <1>2, <3>1 DEF FieldsInv, EnteredOK, StartedOK
  <2>7. \A g \in Fields : ctx'[g] # 0 => ctx[g] # 0
    BY <2>1 DEF TypesInv
  <2> QED BY <1>4, <2>4, <2>5, <2>6, <2>7
<1>6. CASE ctx[f] \notin 1 .. Len(entries[b])
  <2>1. stack' = Top(t) /\ entries' = entries /\ ctx' = ctx /\ ready' = ready
    BY <1>2, <1>3, <1>6 DEF SettleEntry
  <2>2. Becomes(t)
    BY <1>1, <2>1, TopFacts
  <2> QED BY <1>4, <2>1, <2>2, EntriesStay
<1> QED BY <1>5, <1>6

\* The promise of an item resolves from the callback that runs.
LEMMA SettledItemFields ==
  ASSUME TypesInv, CallsInv, FieldsInv, TypesInv', CallsInv', Running("settle"),
         NEW b \in Items, NEW null, NEW raised \in BOOLEAN, NEW x,
         ItemResolves(b, null, raised, AfterSubscriber(x, None)), ret' = None,
         UNCHANGED <<promise, subs, entries, ctx, life, values, owned>>
  PROVE  FieldsInv' /\ Shrunk
<1>1. stack # <<>> /\ Innermost.at = "settle"
  BY Here
<1>2. PICK t \in Calls : /\ AfterSubscriber(x, None) = Top(t) /\ SameCall(t)
                         /\ t.at = "settle" /\ t.waiting = Innermost.waiting \ {x}
  BY AfterSubscriberFacts
<1>3. PICK p \in Blocks : p = Home(ListOf(b)) /\ Dequeued(b) \in Seq(Blocks \cup {None})
  BY ItemResolvesFacts
<1>4. PICK wanted \in BOOLEAN :
        /\ EnqueueAndDrain(wanted, p, Dequeued(b), Top(t))
        /\ wanted => ListOf(b) \in owned
  BY <1>2, <1>3, ItemResolvesFacts
<1>5. Becomes(t) \/ BecomesAndEnters(t, DrainLoop)
  BY <1>1, <1>3, <1>4, EnqueueAndDrainFacts
<1>6. \A c \in Blocks : c \in Range(ready') => c \in Range(ready) \/ (wanted /\ c = p)
  <2>1. \A c \in Blocks : c \in Range(Dequeued(b)) => c \in Range(ready)
    BY RootOrItem, DequeuedFacts, TypesAssumption
  <2>2. CASE wanted
    <3>1. ready' = Enqueued(p, Dequeued(b))
      BY <1>4, <2>2 DEF EnqueueAndDrain
    <3> QED BY <1>3, <2>1, <2>2, <3>1, QueueFacts
  <2>3. CASE ~wanted
    <3>1. ready' = Dequeued(b)
      BY <1>4, <2>3 DEF EnqueueAndDrain
    <3> QED BY <2>1, <3>1
  <2> QED BY <2>2, <2>3
<1>7. wanted => life[p] # "none"
  BY <1>3, <1>4, ChildFacts DEF FieldsInv, EnteredOK, StartedOK
<1>8. PICK U \in {{}, {DrainLoop}} : Moves({t}, U) /\ StepsOK({t}, U)
  BY <1>1, <1>2, <1>5, GoesOnQuietly
<1>9. \A u \in U : u.at # "settle"
  BY <1>8, MadeOthers
<1>10. WaitsStarted
  BY <1>6, <1>7 DEF WaitsStarted
<1> QED BY <1>1, <1>2, <1>8, <1>9, <1>10, EntriesStay, LivesStay, CalmKeeps

\* Permissions are lost and never gained by the item callback that takes the
\* frame or outcome of the item's block.
LEMMA SettleTakesResultFields ==
  ASSUME TypesInv, CallsInv, FieldsInv, TypesInv', CallsInv', SettleTakesResult
  PROVE  FieldsInv' /\ Shrunk
<1>1. /\ ret # None /\ ret' = None /\ Running("settle") /\ stack # <<>>
      /\ Innermost.at = "settle" /\ Innermost.current \in Items
      /\ entries' = entries /\ promise' = promise /\ subs' = subs /\ values' = values
      /\ life' = life /\ ctx' = ctx /\ owned' = owned
  BY Here, HereSettle DEF SettleTakesResult, promiseVars, frames
<1>2. CASE ret.kind = "outcome"
  <2>1. PICK b \in Items : b = Innermost.current
    BY <1>1
  <2>2. ItemResolves(b, ret.null, FALSE, AfterSubscriber(None, None))
    BY <1>2, <2>1 DEF SettleTakesResult
  <2> QED BY <1>1, <2>2, SettledItemFields
<1>3. CASE ret.kind # "outcome"
  <2>1. PICK t \in Calls : /\ AfterSubscriber(None, None) = Top(t) /\ SameCall(t)
                           /\ t.at = "settle" /\ t.waiting = Innermost.waiting \ {None}
    BY <1>1, AfterSubscriberFacts
  <2>2. stack' = Top(t) /\ ready' = ready
    BY <1>3, <2>1 DEF SettleTakesResult
  <2>3. Becomes(t)
    BY <1>1, <2>2, TopFacts
  <2>4. PICK U \in {{}, {DrainLoop}} : Moves({t}, U) /\ StepsOK({t}, U)
    BY <1>1, <2>1, <2>3, GoesOnQuietly
  <2>5. \A u \in U : u.at # "settle"
    BY <2>4, MadeOthers
  <2>6. WaitsStarted
    BY <1>1, <2>2 DEF WaitsStarted
  <2> QED BY <1>1, <2>1, <2>4, <2>5, <2>6, EntriesStay, LivesStay, CalmKeeps
<1> QED BY <1>2, <1>3

-----------------------------------------------------------------------------
(* The steps that settle, write or start something                         *)

\* Whoever uses a permission in a step has lost it after the step; the
\* invariant follows.
LEMMA FieldsKeep ==
  ASSUME TypesInv, FieldsInv, TypesInv', Shrunk, LoopsOnce', CallsStarted', ArraysOK',
         SubscribedOK', LivesKept, WaitsStarted,
         \A f \in Fields : NotHeld(f) => NotHeld(f)' \/ ~MayHold(f)',
         \A f \in Fields : values'[f] = values[f] \/ ~MayWrite(f)',
         \A c \in Blocks : \/ life[c] = "none" => life'[c] = "none"
                           \/ ~MayStart(c)' /\ ~Subscribed(c)',
         \A c \in Blocks : Subscribed(c)' => \/ Subscribed(c)
                                             \/ ~MayStart(c)' /\ life'[c] = "none",
         \A f \in Fields : \A i \in 1 .. Len(Children[f]) :
           \/ life[Home(f)] # "none"
           \/ /\ life'[Children[f][i]] # "none" => life[Children[f][i]] # "none"
              /\ Subscribed(Children[f][i])' => Subscribed(Children[f][i])
  PROVE  FieldsInv' /\ Shrunk
<1>1. HoldsKept' /\ WritesOK' /\ StartsOK'
  BY PermissionsKeep
<1>2. StartedOK
  BY DEF FieldsInv, EnteredOK
<1>3. StartedOK'
  BY <1>2, StartedKeeps DEF WaitsStarted
<1> QED BY <1>1, <1>3 DEF FieldsInv, EnteredOK

\* Permissions are lost and never gained by a promise that settles while user
\* code runs.
LEMMA SettlePromiseFields ==
  ASSUME TypesInv, CallsInv, FieldsInv, TypesInv', CallsInv', NEW p \in Promises,
         SettlePromise(p)
  PROVE  FieldsInv' /\ Shrunk
<1>1. /\ stack = <<>> \/ (ret = None /\ Running("block"))
      /\ promise[p] = "pending"
      /\ promise' = [promise EXCEPT ![p] = "settled"]
      /\ subs' = [subs EXCEPT ![p] = {}]
      /\ entries' = entries /\ values' = values /\ life' = life /\ ctx' = ctx
      /\ owned' = owned /\ ready' = ready /\ ret' = ret
  BY DEF SettlePromise, InOpLoop, frames, tree, lists
<1>2. ret = None
  BY <1>1, OneProcess
<1>3. PICK w \in SUBSET Positions : w = subs[p]
  BY DEF TypesInv
<1>4. PICK u \in Calls : u = SettleLoop(w, None) /\ u.at = "settle" /\ u.waiting = w
  BY MadeCalls, MadeSettle
<1>5. Enters(u)
  BY <1>3, <1>4, PushFacts DEF SettlePromise
<1>6. Moves({}, {u})
  BY <1>2, <1>5, EntersMoves
<1>7. ~Running("process")
  <2>1. CASE stack = <<>>
    BY <2>1 DEF Running
  <2>2. CASE Running("block")
    BY <2>2, Here
  <2> QED BY <1>1, <2>1, <2>2
<1>8. StepsOK({}, {u})
  BY <1>4, <1>7 DEF StepsOK, ProcessGoes, NextsSame, Starts
<1>9. LivesKept /\ SameEntries
  BY <1>1, EntriesStay DEF LivesKept
<1>10. /\ Shrunk /\ LoopsOnce' /\ CallsStarted' /\ ArraysOK'
       /\ \A f \in Fields : NotHeld(f) => NotHeld(f)'
  BY <1>6, <1>8, <1>9, StepKeeps
<1>11. \A q \in Promises : /\ q # p => promise'[q] = promise[q] /\ subs'[q] = subs[q]
                           /\ promise'[p] = "settled" /\ subs'[p] = {}
  BY <1>1 DEF TypesInv
<1>12. \A x \in w : x \in DOMAIN PromiseOf /\ PromiseOf[x] = p /\ promise[p] = "pending"
  BY <1>3 DEF FieldsInv, SubscribedOK
<1>13. ASSUME NEW n \in Depths', At(n, "settle")'
       PROVE  \/ n \in Depths /\ At(n, "settle") /\ stack'[n].waiting = stack[n].waiting
              \/ n \notin Depths /\ n = Len(stack) + 1 /\ stack'[n].waiting = w
  BY <1>4, <1>6, <1>13, MovedCall
<1>14. \A n \in Depths' : At(n, "settle")' => \A x \in stack'[n].waiting :
         x \in DOMAIN PromiseOf /\ promise'[PromiseOf[x]] = "settled"
  <2>1. SUFFICES ASSUME NEW n \in Depths', At(n, "settle")', NEW x \in stack'[n].waiting
                 PROVE  x \in DOMAIN PromiseOf /\ promise'[PromiseOf[x]] = "settled"
    OBVIOUS
  <2>2. CASE n \in Depths /\ At(n, "settle") /\ stack'[n].waiting = stack[n].waiting
    <3>1. x \in DOMAIN PromiseOf /\ promise[PromiseOf[x]] = "settled"
      BY <2>1, <2>2 DEF FieldsInv, SubscribedOK
    <3> QED BY <3>1, <1>11, PromiseFacts
  <2>3. CASE stack'[n].waiting = w
    BY <2>1, <2>3, <1>11, <1>12
  <2> QED BY <2>1, <2>2, <2>3, <1>13
<1>15. \A m, n \in Depths' : At(m, "settle")' /\ At(n, "settle")' /\ m # n =>
         stack'[m].waiting \cap stack'[n].waiting = {}
  <2>1. SUFFICES ASSUME NEW m \in Depths', NEW n \in Depths', At(m, "settle")',
                        At(n, "settle")', m # n,
                        NEW x \in stack'[m].waiting, x \in stack'[n].waiting
                 PROVE  FALSE
    OBVIOUS
  <2>2. ASSUME NEW k \in Depths, At(k, "settle"), x \in stack[k].waiting, x \in w
        PROVE  FALSE
    BY <2>2, <1>12 DEF FieldsInv, SubscribedOK
  <2>3. CASE /\ m \in Depths /\ At(m, "settle") /\ stack'[m].waiting = stack[m].waiting
             /\ n \in Depths /\ At(n, "settle") /\ stack'[n].waiting = stack[n].waiting
    BY <2>1, <2>3 DEF FieldsInv, SubscribedOK
  <2> QED BY <2>1, <2>2, <2>3, <1>13
<1>16. SubscribedOK'
  <2>1. \A q \in Promises : \A x \in subs'[q] :
          x \in DOMAIN PromiseOf /\ PromiseOf[x] = q /\ promise'[q] = "pending"
    BY <1>11 DEF FieldsInv, SubscribedOK
  <2> QED BY <2>1, <1>14, <1>15 DEF SubscribedOK
<1>17. ASSUME NEW c \in Blocks, Subscribed(c)'
       PROVE  Subscribed(c)
  <2>1. CASE \E q \in Promises : c \in subs'[q]
    BY <2>1, <1>11 DEF Subscribed
  <2>2. CASE \E n \in Depths' : At(n, "settle")' /\ c \in stack'[n].waiting
    BY <2>2, <1>3, <1>13 DEF Subscribed
  <2> QED BY <1>17, <2>1, <2>2 DEF Subscribed
<1>18. WaitsStarted
  BY <1>1, <1>2 DEF WaitsStarted
<1>19. \A f \in Fields : \A i \in 1 .. Len(Children[f]) : Children[f][i] \in Blocks
  BY ChildFacts
<1> QED BY <1>1, <1>9, <1>10, <1>16, <1>17, <1>18, <1>19, FieldsKeep

\* A loop that is no settle loop goes on to its next operation, item or entry.
LEMMA AdvanceSteps ==
  ASSUME TypesInv, CallsInv, TypesInv',
         Running("block") \/ Running("list") \/ Running("process"), Within(Len(stack)),
         NEW L \in Nat, L = Len(stack),
         NEW U, U \in {{}, {DrainLoop}}, U = {DrainLoop} => ~Running("process"),
         IF U = {} THEN Becomes(Advanced(Innermost))
         ELSE BecomesAndEnters(Advanced(Innermost), DrainLoop)
  PROVE  \E t \in Calls :
           /\ Moves({t}, U) /\ StepsOK({t}, U) /\ t.at = Innermost.at
           /\ t.index = Innermost.index + 1 /\ Innermost.index \in Nat
           /\ t.at # "settle" /\ \A u \in U : u.at # "settle"
           /\ t.at \in {"block", "process"} => t.block = Innermost.block
           /\ t.at = "process" => t.next = Innermost.next
           /\ L \in Depths' /\ L \in Depths /\ stack'[L] = t
           /\ \A at : At(L, at)' <=> At(L, at)
<1>1. /\ Innermost.at \in {"block", "list", "process"} /\ Innermost \in Calls
      /\ Len(stack) \in Nat /\ stack # <<>>
      /\ \A x : At(Len(stack), x) <=> x = Innermost.at
  BY Here
<1>2. Innermost.index \in Nat
  BY <1>1, CallTypes
<1>3. \A at \in {"block", "list", "process"} : Running(at) <=> Innermost.at = at
  BY <1>1 DEF Running
<1>4. PICK t \in Calls : /\ t = Advanced(Innermost) /\ SameCall(t) /\ t.at = Innermost.at
                         /\ t.index = Innermost.index + 1
                         /\ Running("process") => t.next = Innermost.next
  <2>1. Running("process") => Len(entries[Innermost.block]) \in Nat
    BY HereProcess
  <2> QED BY <2>1, AdvancedFacts
<1>5. t.at \in {"block", "process"} => t.block = Innermost.block
  BY <1>1, <1>4, MadeProcess DEF SameCall, Advanced
<1>6. Moves({t}, U) /\ Len(stack) \in Depths' /\ stack'[Len(stack)] = t
  <2>1. CASE U = {}
    <3>1. Becomes(t)
      BY <1>4, <2>1
    <3>2. Len(stack) \in Depths' /\ stack'[Len(stack)] = t
      BY <1>1, <3>1, InnermostFacts DEF Becomes, Depths
    <3> QED BY <1>4, <2>1, <3>1, <3>2, BecomesMoves
  <2>2. CASE U = {DrainLoop} /\ U # {}
    <3>1. BecomesAndEnters(t, DrainLoop)
      BY <1>4, <2>2
    <3>2. Len(stack) \in Depths' /\ stack'[Len(stack)] = t
      BY <1>1, <3>1, InnermostFacts DEF BecomesAndEnters, Depths
    <3> QED BY <1>4, <2>2, <3>1, <3>2, BecomesAndEntersMoves, MadeCalls
  <2> QED BY <2>1, <2>2
<1>7. \A u \in U : u.at = "drain"
  BY MadeOthers
<1>8. Onward(t)
  BY <1>1, <1>2, <1>4, <1>5 DEF Onward, SameCall
<1>9. ProcessGoes({t})
  BY <1>2, <1>3, <1>4, <1>5, <1>6 DEF ProcessGoes
<1>10. NextsSame({t})
  BY <1>3, <1>4 DEF NextsSame
<1>11. StepsOK({t}, U)
  BY <1>7, <1>8, <1>9, <1>10 DEF StepsOK, Starts
<1>12. \A at : At(L, at)' <=> At(L, at)
  <2>1. L \in Depths' /\ stack'[L] = t
    BY <1>6
  <2>2. \A at : At(L, at)' <=> stack'[L].at = at
    BY <2>1 DEF At
  <2> QED BY <2>1, <2>2, <1>1, <1>4
<1>13. Len(stack) \in Depths
  BY Here
<1> QED BY <1>1, <1>2, <1>3, <1>4, <1>5, <1>6, <1>7, <1>11, <1>12, <1>13

\* What may happen to the field that the innermost loop is at.
LEMMA HereField ==
  ASSUME TypesInv, CallsInv, FieldsInv, Running("block") \/ Running("process"),
         Within(Len(stack))
  PROVE  \E f \in Fields : \E b \in Blocks : \E i \in Nat \ {0} :
           /\ f = FieldOf(Len(stack)) /\ b = Innermost.block /\ i = Innermost.index + 1
           /\ Home(f) = b /\ life[b] # "none" /\ Innermost.index \in Nat
           /\ Running("block") => /\ i \in 1 .. Len(Ops[b]) /\ Ops[b][i] = f
                                  /\ MayHold(f) /\ (ret = None => Untouched(f))
           /\ Running("process") =>
                /\ HeldAt(f, i) /\ ~Handled(b, i) /\ Waiting(f)
                /\ \A kind : ~Moved(f, kind)
                /\ ret = None /\ CurrentEntry.kind = "promise" => Asleep(f)
<1>1. PICK L \in Nat : L = Len(stack) /\ L \in Depths /\ stack[L] = Innermost
                       /\ \A at : Running(at) => \A x : At(L, x) <=> x = at
  BY Here
<1>2. ret # None <=> Calling(L)
  BY <1>1, Here
<1>3. CASE Running("block")
  <2>1. /\ Innermost.block \in Blocks /\ Innermost.index \in Nat
        /\ Len(Ops[Innermost.block]) \in Nat
        /\ Innermost.index < Len(Ops[Innermost.block])
        /\ FieldOf(L) = Ops[Innermost.block][Innermost.index + 1]
        /\ life[Innermost.block] # "none"
    BY <1>1, <1>3, HereBlock, HereStarted DEF CurrentField
  <2>2. PICK b \in Blocks : b = Innermost.block
    BY <2>1
  <2>3. PICK i \in 1 .. Len(Ops[b]) : i = Innermost.index + 1
    BY <2>1, <2>2
  <2>4. PICK f \in Fields : f = Ops[b][i] /\ Home(f) = b /\ f = FieldOf(L)
    BY <2>1, <2>2, <2>3, PositionFacts
  <2>5. At(L, "block") /\ stack[L].block = b /\ stack[L].index = Innermost.index
    BY <1>1, <1>3, <2>2
  <2>6. ret = None => Untouched(f)
    <3>1. ret = None => Ahead(L, f)
      BY <1>2, <2>1, <2>2, <2>3, <2>4, <2>5 DEF Ahead
    <3> QED BY <1>1, <3>1 DEF Untouched
  <2>7. ret # None => AtField(L, f)
    BY <1>2, <2>4, <2>5 DEF AtField
  <2>8. MayHold(f)
    BY <1>1, <2>6, <2>7 DEF MayHold
  <2>9. ~Running("process")
    BY <1>3, Here
  <2> QED BY <1>1, <2>1, <2>2, <2>3, <2>4, <2>6, <2>8, <2>9
<1>4. CASE Running("process")
  <2>1. /\ Innermost.block \in Blocks /\ Innermost.index \in Nat
        /\ Innermost.index + 1 \in 1 .. Len(entries[Innermost.block])
        /\ FieldOf(L) = CurrentEntry.field /\ CurrentEntry.field \in Fields
        /\ life[Innermost.block] # "none"
    BY <1>1, <1>4, HereProcess, HereStarted
  <2>2. PICK b \in Blocks : b = Innermost.block
    BY <2>1
  <2>3. PICK i \in 1 .. Len(entries[b]) : i = Innermost.index + 1
    BY <2>1, <2>2
  <2>4. PICK f \in Fields : f = FieldOf(L) /\ f = entries[b][i].field
                            /\ CurrentEntry = entries[b][i]
    BY <2>1, <2>2, <2>3 DEF CurrentEntry
  <2>5. Home(f) = b /\ HeldAt(f, i)
    BY <2>4 DEF FieldsInv, ArraysOK, HeldAt
  <2>6. At(L, "process") /\ stack[L].block = b /\ stack[L].index = Innermost.index
    BY <1>1, <1>4, <2>2
  <2>7. ~Handled(b, i)
    <3>1. SUFFICES ASSUME NEW n \in Depths, stack[n].at = "process", i <= stack[n].index
                   PROVE  FALSE
      BY DEF Handled, Depths
    <3>2. n = L
      BY <1>1, <2>6, <3>1, OneProcess DEF At
    <3> QED BY <2>1, <2>3, <2>6, <3>1, <3>2
  <2>8. Waiting(f)
    BY <2>5, <2>7 DEF Waiting
  <2>9. ASSUME NEW kind, Moved(f, kind) PROVE FALSE
    <3>1. PICK n \in Depths : \E j \in 1 .. stack[n].index : At(n, "process") /\ HeldAt(f, j)
      BY <2>9, MovedHeld DEF FieldsInv
    <3>2. PICK j \in 1 .. stack[n].index : At(n, "process") /\ HeldAt(f, j)
      BY <3>1
    <3>3. n = L
      BY <1>1, <2>6, <3>2, OneProcess
    <3>4. j = i
      BY <2>5, <3>2, HeldOnce DEF FieldsInv
    <3> QED BY <2>1, <2>3, <2>6, <3>2, <3>3, <3>4
  <2>10. ASSUME ret = None, CurrentEntry.kind = "promise" PROVE Asleep(f)
    <3>1. ~InHand(b, i)
      <4>1. SUFFICES ASSUME NEW n \in Depths, At(n, "process"), Calling(n) PROVE FALSE
        BY <2>7 DEF InHand
      <4>2. n = L
        BY <1>1, <2>6, <4>1, OneProcess
      <4> QED BY <1>2, <2>10, <4>1, <4>2
    <3> QED BY <2>4, <2>5, <2>10, <3>1 DEF Asleep
  <2>11. ~Running("block")
    BY <1>4, Here
  <2> QED BY <1>1, <2>1, <2>2, <2>3, <2>4, <2>5, <2>7, <2>8, <2>9, <2>10, <2>11
<1> QED BY <1>3, <1>4

\* The loop writes the field that it is at, and goes on.
LEMMA WritesKeep ==
  ASSUME TypesInv, CallsInv, FieldsInv, TypesInv', CallsInv',
         Running("block") \/ Running("process"), Within(Len(stack)),
         stack' = Advance, ret' = None,
         \A g \in Fields : g # FieldOf(Len(stack)) => values'[g] = values[g],
         UNCHANGED <<promise, subs, entries, ctx, life, owned, ready>>
  PROVE  FieldsInv' /\ Shrunk
<1>1. PICK L \in Nat : L = Len(stack)
  BY DEF TypesInv
<1>2. PICK f \in Fields : \E b \in Blocks : \E i \in Nat \ {0} :
           /\ f = FieldOf(Len(stack)) /\ b = Innermost.block /\ i = Innermost.index + 1
           /\ Home(f) = b /\ Innermost.index \in Nat
           /\ Running("block") => /\ i \in 1 .. Len(Ops[b]) /\ Ops[b][i] = f /\ MayHold(f)
           /\ Running("process") => HeldAt(f, i) /\ \A kind : ~Moved(f, kind)
  BY HereField
<1>3. PICK b \in Blocks : \E i \in Nat \ {0} :
           /\ b = Innermost.block /\ i = Innermost.index + 1
           /\ Home(f) = b
           /\ Running("block") => /\ i \in 1 .. Len(Ops[b]) /\ Ops[b][i] = f /\ MayHold(f)
           /\ Running("process") => HeldAt(f, i) /\ \A kind : ~Moved(f, kind)
  BY <1>2
<1>4. PICK i \in Nat \ {0} :
           /\ i = Innermost.index + 1
           /\ Running("block") => /\ i \in 1 .. Len(Ops[b]) /\ Ops[b][i] = f /\ MayHold(f)
           /\ Running("process") => HeldAt(f, i) /\ \A kind : ~Moved(f, kind)
  BY <1>3
<1>5. Becomes(Advanced(Innermost))
  <2>1. PICK t \in Calls : t = Advanced(Innermost)
    <3>1. Running("process") => Len(entries[Innermost.block]) \in Nat
      BY HereProcess
    <3> QED BY <3>1, AdvancedFacts
  <2> QED BY <2>1, Here, TopFacts DEF Advance
<1>6. PICK t \in Calls :
           /\ Moves({t}, {}) /\ StepsOK({t}, {}) /\ t.at = Innermost.at
           /\ t.index = i /\ t.at # "settle"
           /\ t.at \in {"block", "process"} => t.block = b
           /\ L \in Depths' /\ L \in Depths /\ stack'[L] = t
           /\ \A at : At(L, at)' <=> At(L, at)
  <2>1. \E s \in Calls :
           /\ Moves({s}, {}) /\ StepsOK({s}, {}) /\ s.at = Innermost.at
           /\ s.index = Innermost.index + 1 /\ s.at # "settle"
           /\ s.at \in {"block", "process"} => s.block = Innermost.block
           /\ L \in Depths' /\ L \in Depths /\ stack'[L] = s
           /\ \A at : At(L, at)' <=> At(L, at)
    BY <1>1, <1>5, AdvanceSteps
  <2> QED BY <2>1, <1>3, <1>4
<1>7. LivesKept /\ SameEntries
  BY EntriesStay DEF LivesKept
<1>8. /\ Shrunk /\ LoopsOnce' /\ CallsStarted' /\ HoldsKept' /\ ArraysOK'
      /\ \A g \in Fields : NotHeld(g) => NotHeld(g)'
      /\ \A g \in Fields, kind \in Kinds : Moved(g, kind)' => Moved(g, kind)
  BY <1>6, <1>7, StepKeeps
<1>9. ~MayWrite(f)'
  <2>1. CASE Running("block")
    <3>1. At(L, "block")' /\ stack'[L].block = b /\ stack'[L].index = i
      BY <1>1, <1>6, <2>1, Here
    <3>2. ~MayHold(f)'
      <4>1. i \in 1 .. Len(Ops[stack'[L].block]) /\ Ops[stack'[L].block][i] = f
        BY <1>4, <2>1, <3>1
      <4>2. i <= stack'[L].index
        BY <3>1
      <4> QED BY <4>1, <4>2, <1>6, <1>8, <3>1, OnceNext DEF Once
    <3>3. NotHeld(f)'
      BY <1>4, <1>8, <2>1 DEF FieldsInv, HoldsKept
    <3> QED BY <1>8, <3>2, <3>3, OnceNext DEF Once
  <2>2. CASE Running("process")
    <3>1. stack'[L].at = "process" /\ stack'[L].block = b /\ stack'[L].index = i
      BY <1>6, <2>2, Here
    <3>2. Handled(b, i)'
      <4>1. L \in 1 .. Len(stack') /\ i <= i
        BY <1>6 DEF Depths
      <4> QED BY <3>1, <4>1 DEF Handled
    <3>3. HeldAt(f, i)' /\ i \in 1 .. Len(entries'[Home(f)])
      BY <1>4, <2>2 DEF HeldAt
    <3>4. \A kind \in Kinds : ~Moved(f, kind)'
      BY <1>4, <1>8, <2>2
    <3> QED BY <1>3, <1>8, <3>2, <3>3, <3>4, OnceNext DEF Once
  <2> QED BY <2>1, <2>2
<1>10. SettlesGo({t}, {}, {})
  BY <1>6 DEF SettlesGo
<1>11. SubscribedOK' /\ \A c \in Blocks : Subscribed(c)' => Subscribed(c)
  BY <1>6, <1>10, SettlesKeep DEF FieldsInv
<1>12. WaitsStarted
  BY DEF WaitsStarted
<1>13. \A g \in Fields : values'[g] = values[g] \/ ~MayWrite(g)'
  BY <1>2, <1>9
<1>14. \A g \in Fields : \A j \in 1 .. Len(Children[g]) : Children[g][j] \in Blocks
  BY ChildFacts
<1> QED BY <1>7, <1>8, <1>11, <1>12, <1>13, <1>14, FieldsKeep

\* Block c, a child of field f, starts; it may not be started again.
LEMMA StartsKeep ==
  ASSUME TypesInv, CallsInv, FieldsInv, TypesInv', CallsInv', NEW T, NEW U, Moves(T, U),
         StepsOK(T, U), SettlesGo(T, U, {}), SameEntries, values' = values, WaitsStarted,
         NEW c \in Blocks, life' = [life EXCEPT ![c] = "running"],
         \/ ~MayStart(c)
         \/ \E n \in Depths' : /\ At(n, "block")' \/ At(n, "process")' \/ At(n, "list")'
                               /\ Calling(n)' /\ Executes(n, c)',
         ~Subscribed(c)',
         NEW f \in Fields, ChildOf(c, f), life[Home(f)] # "none"
  PROVE  FieldsInv' /\ Shrunk
<1>1. /\ life'[c] = "running"
      /\ \A b \in Blocks : b # c => life'[b] = life[b]
  BY DEF TypesInv
<1>2. LivesKept
  BY <1>1 DEF LivesKept
<1>3. /\ Shrunk /\ LoopsOnce' /\ CallsStarted' /\ HoldsKept' /\ ArraysOK'
      /\ \A g \in Fields : NotHeld(g) => NotHeld(g)'
  BY <1>2, StepKeeps
<1>4. ~MayStart(c)'
  <2>1. CASE ~MayStart(c)
    BY <2>1, <1>3 DEF Shrunk
  <2>2. ASSUME NEW n \in Depths', At(n, "block")' \/ At(n, "process")' \/ At(n, "list")',
               Calling(n)', Executes(n, c)'
        PROVE  ~MayStart(c)'
    BY <2>2, <1>3, OnceNext DEF Once
  <2> QED BY <2>1, <2>2
<1>5. SubscribedOK' /\ \A b \in Blocks : Subscribed(b)' => Subscribed(b)
  BY SettlesKeep DEF FieldsInv
<1>6. ASSUME NEW g \in Fields, NEW i \in 1 .. Len(Children[g])
      PROVE  \/ life[Home(g)] # "none"
             \/ /\ life'[Children[g][i]] # "none" => life[Children[g][i]] # "none"
                /\ Subscribed(Children[g][i])' => Subscribed(Children[g][i])
  <2>1. Children[g][i] \in Blocks
    BY ChildFacts
  <2>2. CASE Children[g][i] = c
    BY <2>2, TreeAssumption DEF ChildOf
  <2>3. CASE Children[g][i] # c
    BY <2>1, <2>3, <1>1, <1>5
  <2> QED BY <2>2, <2>3
<1>7. \A b \in Blocks : \/ life[b] = "none" => life'[b] = "none"
                        \/ ~MayStart(b)' /\ ~Subscribed(b)'
  BY <1>1, <1>4
<1> QED BY <1>2, <1>3, <1>5, <1>6, <1>7, FieldsKeep

\* The loop completes the field that it is at by executing what it selects.
LEMMA CompletionKeeps ==
  ASSUME TypesInv, CallsInv, FieldsInv, TypesInv', CallsInv', NEW b \in Blocks,
         NEW f \in Fields, NEW result, CompleteField(b, f, result), ret = None, ret' = None,
         Running("block") \/ Running("process"), Within(Len(stack)),
         f = FieldOf(Len(stack)), Running("process") => CurrentEntry.kind = "promise",
         UNCHANGED <<promise, subs, entries, ctx, owned, ready>>
  PROVE  FieldsInv' /\ Shrunk
<1>1. CASE ~(result = "value" /\ (f \in Lists \/ Children[f] # <<>>))
  <2>1. /\ Consume(b, f, result # "value", result = "error", result = "error")
        /\ stack' = Advance /\ life' = life
    BY <1>1 DEF CompleteField
  <2>2. \A g \in Fields : g # f => values'[g] = values[g]
    BY <2>1, ConsumeFacts
  <2> QED BY <2>1, <2>2, WritesKeep
<1>2. CASE result = "value" /\ (f \in Lists \/ Children[f] # <<>>)
  <2>1. PICK L \in Nat : L = Len(stack) /\ L \in Depths /\ stack[L] = Innermost
                         /\ (At(L, "block") \/ At(L, "process")) /\ ~Calling(L)
    BY Here
  <2>2. Home(f) \in Blocks /\ life[Home(f)] # "none" /\ MayComplete(f)
    <3>1. \E c \in Blocks : /\ Home(f) = c /\ life[c] # "none"
                            /\ Running("block") => Untouched(f)
                            /\ Running("process") => Asleep(f)
      BY HereField
    <3> QED BY <3>1 DEF MayComplete
  <2>3. WaitsStarted
    BY DEF WaitsStarted
  <2>4. ASSUME NEW u \in Calls, stack' = Push(u), u.at \in {"list", "block"}, Starts(u)
        PROVE  /\ Moves({}, {u}) /\ StepsOK({}, {u}) /\ SettlesGo({}, {u}, {})
               /\ L \in Depths' /\ stack'[L] = stack[L] /\ stack'[L + 1] = u /\ Len(stack') = L + 1
    <3>1. Enters(u)
      BY <2>4, PushFacts
    <3>2. Moves({}, {u})
      BY <3>1, EntersMoves
    <3>3. /\ L \in Depths' /\ stack'[L] = stack[L] /\ stack'[L + 1] = u
          /\ Len(stack') = L + 1
      BY <2>1, <3>1 DEF Enters, SameBelow, Depths
    <3>4. StepsOK({}, {u})
      BY <2>1, <2>4, <3>3 DEF StepsOK, ProcessGoes, NextsSame
    <3>5. SettlesGo({}, {u}, {})
      BY <2>4 DEF SettlesGo
    <3> QED BY <3>2, <3>3, <3>4, <3>5
  <2>5. CASE f \in Lists
    <3>1. PICK u \in Calls : u = ItemLoop(f, 0) /\ u.at = "list" /\ u.field = f
      BY <2>5, MadeCalls, MadeList
    <3>2. stack' = Push(u) /\ life' = life /\ values' = values
      BY <1>2, <2>5, <3>1 DEF CompleteField, tree
    <3>3. Starts(u)
      BY <2>2, <3>1 DEF Starts
    <3>4. Moves({}, {u}) /\ StepsOK({}, {u})
      BY <2>4, <3>1, <3>2, <3>3
    <3> QED BY <2>3, <3>1, <3>2, <3>4, EntriesStay, LivesStay, CalmKeeps
  <2>6. CASE f \notin Lists
    <3>1. PICK c \in Blocks : c = Children[f][1] /\ 1 \in 1 .. Len(Children[f])
      BY <1>2, <2>6, ChildFacts
    <3>2. PICK u \in Calls : u = OpLoop(c, 0) /\ u.at = "block" /\ u.block = c
      BY MadeCalls, MadeBlock
    <3>3. /\ stack' = Push(u) /\ values' = values
          /\ life' = [life EXCEPT ![c] = "running"]
      BY <1>2, <2>6, <3>1, <3>2 DEF CompleteField, tree
    <3>4. ChildOf(c, f)
      BY <3>1 DEF ChildOf
    <3>5. life[c] = "none" /\ ~Subscribed(c)
      BY <2>2, <3>4 DEF MayStart, FieldsInv, StartsOK
    <3>6. Starts(u)
      BY <3>2, <3>3, <3>5 DEF Starts, TypesInv
    <3>7. /\ Moves({}, {u}) /\ StepsOK({}, {u}) /\ SettlesGo({}, {u}, {})
          /\ L \in Depths' /\ stack'[L] = stack[L] /\ stack'[L + 1] = u /\ Len(stack') = L + 1
      BY <2>4, <3>2, <3>3, <3>6
    <3>8. ~Subscribed(c)'
      <4>1. \A d : d \notin {} /\ Subscribed(d)' => Subscribed(d)
        BY <3>7, SettlesKeep DEF FieldsInv
      <4> QED BY <4>1, <3>5
    <3>9. Calling(L)'
      BY <2>1, <3>2, <3>7 DEF Calling
    <3>10. At(L, "block")' \/ At(L, "process")'
      BY <2>1, <3>7 DEF At
    <3>11. Executes(L, c)'
      <4>1. IsChild(c, FieldOf(L))
        BY <1>2, <2>1, <2>6, <3>1 DEF IsChild
      <4>2. FieldOf(L)' = FieldOf(L)
        BY <3>7 DEF FieldOf
      <4> QED BY <4>1, <4>2, <3>10 DEF Executes, IsChild
    <3> QED BY <2>2, <2>3, <3>3, <3>4, <3>7, <3>8, <3>9, <3>10, <3>11, EntriesStay, StartsKeep
  <2> QED BY <2>5, <2>6
<1> QED BY <1>1, <1>2

\* Permissions are lost and never gained by a resolver that returns a value,
\* a null or dies.
LEMMA ResolverReturnsValueFields ==
  ASSUME TypesInv, CallsInv, FieldsInv, TypesInv', CallsInv', NEW b \in Blocks,
         ResolverReturnsValue(b)
  PROVE  FieldsInv' /\ Shrunk
<1>1. /\ ret = None /\ ret' = None /\ Running("block") /\ ~Running("process")
      /\ Within(Len(stack)) /\ FieldOf(Len(stack)) = CurrentField /\ CurrentField \in Fields
  BY Here, HereBlock DEF ResolverReturnsValue, InOpLoop
<1>2. PICK f \in Fields : f = CurrentField
  BY <1>1
<1>3. CompleteField(b, f, answer[f])
  BY <1>2 DEF ResolverReturnsValue
<1>4. UNCHANGED <<promise, subs, entries, ctx, owned, ready>>
  BY DEF ResolverReturnsValue, promiseVars, lists
<1> QED BY <1>1, <1>2, <1>3, <1>4, CompletionKeeps

\* Permissions are lost and never gained by process_frame that completes a
\* ready entry with a value.
LEMMA ProcessConsumesFields ==
  ASSUME TypesInv, CallsInv, FieldsInv, TypesInv', CallsInv', NEW b \in Blocks,
         ProcessConsumes(b)
  PROVE  FieldsInv' /\ Shrunk
<1>1. /\ ret = None /\ ret' = None /\ Running("process") /\ Within(Len(stack))
      /\ FieldOf(Len(stack)) = CurrentEntry.field /\ CurrentEntry.field \in Fields
      /\ UNCHANGED <<promise, subs, entries, ctx, owned, ready>>
  BY HereProcess DEF ProcessConsumes, InProcessLoop, promiseVars, lists
<1>2. PICK f \in Fields : f = CurrentEntry.field
  BY <1>1
<1>3. CASE /\ CurrentEntry.kind = "promise" /\ CurrentEntry.state = "ready"
           /\ CompleteField(b, f, answer[f])
  BY <1>1, <1>2, <1>3, CompletionKeeps
<1>4. CASE /\ CurrentEntry.kind = "block" /\ CurrentEntry.state = "ready"
           /\ Consume(b, f, nulled[Children[f][1]], TRUE, FALSE)
           /\ stack' = Advance
           /\ UNCHANGED life
  <2>1. \A g \in Fields : g # f => values'[g] = values[g]
    BY <1>4, ConsumeFacts
  <2> QED BY <1>1, <1>2, <1>4, <2>1, WritesKeep
<1>5. CASE /\ values' = [values EXCEPT ![f] = IF ListNulls(f) THEN "null" ELSE "value"]
           /\ stack' = Advance
           /\ UNCHANGED life
  <2>1. \A g \in Fields : g # f => values'[g] = values[g]
    BY <1>5 DEF TypesInv
  <2> QED BY <1>1, <1>2, <1>5, <2>1, WritesKeep
<1>6. \/ /\ CurrentEntry.kind = "promise" /\ CurrentEntry.state = "ready"
         /\ CompleteField(b, f, answer[f])
      \/ /\ CurrentEntry.kind = "block" /\ CurrentEntry.state = "ready"
         /\ Consume(b, f, nulled[Children[f][1]], TRUE, FALSE)
         /\ stack' = Advance
         /\ UNCHANGED life
      \/ /\ values' = [values EXCEPT ![f] = IF ListNulls(f) THEN "null" ELSE "value"]
         /\ stack' = Advance
         /\ UNCHANGED life
  BY <1>2 DEF ProcessConsumes
<1> QED BY <1>3, <1>4, <1>5, <1>6

\* The block whose list is completed has started.
LEMMA ListStarted ==
  ASSUME TypesInv, CallsInv, FieldsInv, Running("list")
  PROVE  life[Home(Innermost.field)] # "none"
<1>1. PICK L \in Nat : L = Len(stack) /\ L \in Depths /\ stack[L] = Innermost /\ At(L, "list")
  BY Here
<1>2. PICK n \in Depths : n = L - 1 /\ Calling(n) /\ FieldOf(n) = Innermost.field
                          /\ (At(n, "block") \/ At(n, "process"))
  BY <1>1, ListCalled
<1>3. life[stack[n].block] # "none"
  BY <1>2 DEF FieldsInv, EnteredOK, StartedOK, CallsStarted
<1>4. CASE At(n, "block")
  BY <1>2, <1>3, <1>4, CallingBlock
<1>5. CASE At(n, "process")
  <2>1. /\ stack[n].block \in Blocks
        /\ stack[n].index + 1 \in 1 .. Len(entries[stack[n].block])
        /\ FieldOf(n) = entries[stack[n].block][stack[n].index + 1].field
    BY <1>2, <1>5, CallingProcess
  <2>2. Home(FieldOf(n)) = stack[n].block
    BY <2>1 DEF FieldsInv, ArraysOK
  <2> QED BY <1>2, <1>3, <2>2
<1> QED BY <1>2, <1>4, <1>5

\* The item a list is at has not been started, and nobody waits for it.
LEMMA HereItem ==
  ASSUME TypesInv, CallsInv, FieldsInv, Running("list"), ret = None, Within(Len(stack))
  PROVE  \E b \in Blocks : \E f \in Fields :
           /\ b = CurrentItem /\ b \in Items /\ f = Innermost.field
           /\ Innermost.index + 1 \in 1 .. Len(Children[f])
           /\ b = Children[f][Innermost.index + 1]
           /\ ChildOf(b, f) /\ life[Home(f)] # "none"
           /\ life[b] = "none" /\ ~Subscribed(b)
<1>1. PICK L \in Nat : L = Len(stack) /\ L \in Depths /\ stack[L] = Innermost
                       /\ At(L, "list") /\ ~Calling(L)
  BY Here
<1>2. /\ CurrentItem \in Items /\ CurrentItem \in Blocks /\ Innermost.field \in Fields
      /\ Innermost.index \in Nat
      /\ Innermost.index + 1 \in 1 .. Len(Children[Innermost.field])
  BY HereList
<1>3. PICK b \in Blocks : b = CurrentItem
  BY <1>2
<1>4. PICK f \in Fields : f = Innermost.field
  BY <1>2
<1>5. PICK i \in 1 .. Len(Children[f]) : i = Innermost.index + 1 /\ Children[f][i] = b
  BY <1>2, <1>3, <1>4 DEF CurrentItem
<1>6. BeforeItem(L, b)
  BY <1>1, <1>2, <1>4, <1>5 DEF BeforeItem
<1>7. life[b] = "none" /\ ~Subscribed(b)
  BY <1>1, <1>6 DEF MayStart, FieldsInv, StartsOK
<1>8. ChildOf(b, f) /\ life[Home(f)] # "none"
  BY <1>4, <1>5, ListStarted DEF ChildOf
<1> QED BY <1>2, <1>3, <1>4, <1>5, <1>7, <1>8

\* Permissions are lost and never gained by an item that is completed in the
\* loop.
LEMMA CompleteItemFields ==
  ASSUME TypesInv, CallsInv, FieldsInv, TypesInv', CallsInv', NEW p \in BOOLEAN,
         CompleteItem(CurrentItem, p), ret = None, ret' = None, Running("list"),
         Within(Len(stack)),
         \A q \in Promises : /\ promise[q] = "settled" => promise'[q] = "settled"
                             /\ promise'[q] = promise[q] \/ subs[q] = {},
         UNCHANGED <<subs, entries, ctx, owned, values, ready>>
  PROVE  FieldsInv' /\ Shrunk
<1>1. PICK L \in Nat : L = Len(stack) /\ L \in Depths /\ stack[L] = Innermost
                       /\ At(L, "list") /\ ~Running("process") /\ stack # <<>>
  BY Here
<1>2. PICK b \in Blocks : \E f \in Fields :
           /\ b = CurrentItem /\ f = Innermost.field
           /\ ChildOf(b, f) /\ life[Home(f)] # "none"
           /\ life[b] = "none" /\ ~Subscribed(b)
  BY HereItem
<1>3. PICK f \in Fields : f = Innermost.field /\ ChildOf(b, f) /\ life[Home(f)] # "none"
  BY <1>2
<1>4. WaitsStarted
  BY DEF WaitsStarted
<1>5. CASE answer[b] = "value"
  <2>1. stack' = Push(OpLoop(b, 0)) /\ life' = [life EXCEPT ![b] = "running"]
    BY <1>2, <1>5 DEF CompleteItem
  <2>2. PICK u \in Calls : u = OpLoop(b, 0) /\ u.at = "block" /\ u.block = b
    BY MadeCalls, MadeBlock
  <2>3. Enters(u)
    BY <2>1, <2>2, PushFacts
  <2>4. Moves({}, {u})
    BY <2>3, EntersMoves
  <2>5. Starts(u)
    BY <1>2, <2>1, <2>2 DEF Starts, TypesInv
  <2>6. StepsOK({}, {u})
    BY <1>1, <2>5 DEF StepsOK, ProcessGoes, NextsSame
  <2>7. SettlesGo({}, {u}, {})
    BY <2>2 DEF SettlesGo
  <2>8. ~Subscribed(b)'
    <3>1. \A c : c \notin {} /\ Subscribed(c)' => Subscribed(c)
      BY <2>4, <2>7, SettlesKeep DEF FieldsInv
    <3> QED BY <1>2, <3>1
  <2>9. /\ L \in Depths' /\ stack'[L] = stack[L] /\ stack'[L + 1] = u /\ Len(stack') = L + 1
    BY <1>1, <2>3 DEF Enters, SameBelow, Depths
  <2>10. Calling(L)' /\ At(L, "list")'
    BY <1>1, <2>2, <2>9 DEF Calling, At
  <2>11. Executes(L, b)'
    <3>1. /\ Innermost.index < Len(Children[Innermost.field])
          /\ Children[Innermost.field][Innermost.index + 1] = b
      BY <1>2, HereList DEF CurrentItem
    <3> QED BY <1>1, <2>9, <2>10, <3>1 DEF Executes
  <2> QED BY <1>3, <1>4, <2>1, <2>4, <2>6, <2>7, <2>8, <2>9, <2>10, <2>11, EntriesStay, StartsKeep
<1>6. CASE answer[b] # "value"
  <2>1. stack' = Advance /\ life' = life
    BY <1>2, <1>6 DEF CompleteItem
  <2>2. PICK t \in Calls : /\ t = Advanced(Innermost) /\ SameCall(t) /\ t.at = "list"
                           /\ t.index = Innermost.index + 1
    BY <1>1, Here, AdvancedFacts
  <2>3. Becomes(t)
    BY <1>1, <2>1, <2>2, TopFacts DEF Advance
  <2>4. PICK U \in {{}, {DrainLoop}} : Moves({t}, U) /\ StepsOK({t}, U)
    BY <1>1, <2>2, <2>3, GoesOnQuietly
  <2>5. SettlesGo({t}, U, {})
    BY <2>2, <2>4, MadeOthers DEF SettlesGo
  <2>6. Quiet /\ SameEntries
    BY <2>1, LivesStay, EntriesStay
  <2>7. {} \cap Blocks = {}
    OBVIOUS
  <2> QED BY <1>4, <2>4, <2>5, <2>6, <2>7, QuietKeeps
<1> QED BY <1>5, <1>6

\* Permissions are lost and never gained by an item that is a value.
LEMMA ItemIsValueFields ==
  ASSUME TypesInv, CallsInv, FieldsInv, TypesInv', CallsInv', NEW f \in Fields,
         ItemIsValue(f)
  PROVE  FieldsInv' /\ Shrunk
<1>1. /\ ret = None /\ ret' = None /\ Running("list") /\ Within(Len(stack))
      /\ CompleteItem(CurrentItem, FALSE)
      /\ UNCHANGED <<subs, entries, ctx, owned, values, ready>> /\ promise' = promise
  BY HereList DEF ItemIsValue, InItemLoop, promiseVars, tree
<1> QED BY <1>1, CompleteItemFields

\* Permissions are lost and never gained by an item that is a promise,
\* settled or not.
LEMMA ItemIsPromiseFields ==
  ASSUME TypesInv, CallsInv, FieldsInv, TypesInv', CallsInv', NEW f \in Fields,
         ItemIsPromise(f)
  PROVE  FieldsInv' /\ Shrunk
<1>1. /\ ret = None /\ ret' = None /\ Running("list") /\ Within(Len(stack))
      /\ CurrentItem \in DOMAIN PromiseOf
      /\ UNCHANGED <<entries, ctx, owned, values, ready>>
  BY HereList DEF ItemIsPromise, InItemLoop, tree
<1>2. PICK p \in Promises : p = PromiseOf[CurrentItem] /\ ReturnsPromise(p)
  BY <1>1, PromiseFacts DEF ItemIsPromise
<1>3. /\ promise' \in [Promises -> {"pending", "settled"}]
      /\ \A q \in Promises : /\ promise[q] = "settled" => promise'[q] = "settled"
                             /\ promise'[q] = promise[q] \/ subs[q] = {}
  BY <1>2, ReturnsPromiseFacts
<1>4. CASE promise'[p] = "settled"
  <2>1. CompleteItem(CurrentItem, TRUE) /\ subs' = subs
    BY <1>2, <1>4 DEF ItemIsPromise
  <2> QED BY <1>1, <1>3, <2>1, CompleteItemFields
<1>5. CASE promise'[p] # "settled"
  <2>1. PICK b \in Blocks : \E g \in Fields :
             /\ b = CurrentItem /\ g = Innermost.field
             /\ Innermost.index + 1 \in 1 .. Len(Children[g])
             /\ b = Children[g][Innermost.index + 1]
             /\ life[Home(g)] # "none" /\ life[b] = "none"
    BY <1>1, HereItem
  <2>2. PICK g \in Fields :
             /\ g = Innermost.field /\ Innermost.index + 1 \in 1 .. Len(Children[g])
             /\ b = Children[g][Innermost.index + 1] /\ life[Home(g)] # "none"
    BY <2>1
  <2>3. PICK i \in 1 .. Len(Children[g]) : i = Innermost.index + 1 /\ Children[g][i] = b
    BY <2>2
  <2>4. /\ subs' = [subs EXCEPT ![p] = @ \cup {b}] /\ stack' = Advance /\ life' = life
    BY <1>2, <1>5, <2>1 DEF ItemIsPromise
  <2>5. PICK L \in Nat : L = Len(stack) /\ stack # <<>> /\ At(L, "list")
                         /\ \A x : At(L, x) <=> x = "list"
    BY <1>1, Here
  <2>6. Becomes(Advanced(Innermost))
    <3>1. PICK t \in Calls : t = Advanced(Innermost)
      BY <1>1, Here, AdvancedFacts
    <3> QED BY <2>4, <2>5, <3>1, TopFacts DEF Advance
  <2>7. PICK t \in Calls :
             /\ Moves({t}, {}) /\ StepsOK({t}, {}) /\ t.at = Innermost.at
             /\ t.index = i /\ t.at # "settle"
             /\ L \in Depths' /\ L \in Depths /\ stack'[L] = t
             /\ \A at : At(L, at)' <=> At(L, at)
    <3>1. \E s \in Calls :
             /\ Moves({s}, {}) /\ StepsOK({s}, {}) /\ s.at = Innermost.at
             /\ s.index = Innermost.index + 1 /\ s.at # "settle"
             /\ L \in Depths' /\ L \in Depths /\ stack'[L] = s
             /\ \A at : At(L, at)' <=> At(L, at)
      BY <1>1, <2>5, <2>6, AdvanceSteps
    <3> QED BY <2>3, <3>1
  <2>8. t.field = g
    BY <1>1, <2>2, <2>7, Here DEF StepsOK, Onward
  <2>9. LivesKept /\ SameEntries
    BY <1>1, <2>4, EntriesStay DEF LivesKept
  <2>10. /\ Shrunk /\ LoopsOnce' /\ CallsStarted' /\ HoldsKept' /\ ArraysOK'
         /\ \A h \in Fields : NotHeld(h) => NotHeld(h)'
    BY <2>7, <2>9, StepKeeps
  <2>11. ~MayStart(b)'
    <3>1. At(L, "list")'
      BY <2>5, <2>7
    <3>2. i \in 1 .. Len(Children[stack'[L].field]) /\ Children[stack'[L].field][i] = b
          /\ i <= stack'[L].index
      BY <2>3, <2>7, <2>8
    <3> QED BY <2>7, <2>10, <3>1, <3>2, OnceNext DEF Once
  <2>12. SettlesGo({t}, {}, {b})
    <3>1. \A q \in Promises : \A x \in subs'[q] :
            \/ x \in subs[q]
            \/ x = b /\ x \in DOMAIN PromiseOf /\ PromiseOf[x] = q /\ promise'[q] = "pending"
      <4>1. promise'[p] = "pending"
        BY <1>3, <1>5
      <4>2. /\ subs'[p] = subs[p] \cup {b}
            /\ \A q \in Promises : q # p => subs'[q] = subs[q]
        BY <2>4 DEF TypesInv
      <4>3. b \in DOMAIN PromiseOf /\ PromiseOf[b] = p
        BY <1>1, <1>2, <2>1
      <4> QED BY <4>1, <4>2, <4>3
    <3> QED BY <1>3, <2>7, <3>1 DEF SettlesGo
  <2>13. SubscribedOK' /\ \A c \in Blocks : c # b /\ Subscribed(c)' => Subscribed(c)
    <3>1. SubscribedOK' /\ \A c : c \notin {b} /\ Subscribed(c)' => Subscribed(c)
      BY <2>7, <2>12, SettlesKeep DEF FieldsInv
    <3> QED BY <3>1
  <2>14. WaitsStarted
    BY <1>1 DEF WaitsStarted
  <2>15. ASSUME NEW h \in Fields, NEW j \in 1 .. Len(Children[h])
         PROVE  \/ life[Home(h)] # "none"
                \/ /\ life'[Children[h][j]] # "none" => life[Children[h][j]] # "none"
                   /\ Subscribed(Children[h][j])' => Subscribed(Children[h][j])
    <3>1. Children[h][j] \in Blocks
      BY ChildFacts
    <3>2. CASE Children[h][j] = b
      <4>1. ChildOf(b, g)
        BY <2>3 DEF ChildOf
      <4>2. h = g
        BY <3>2, <4>1, TreeAssumption DEF ChildOf
      <4> QED BY <2>2, <4>2
    <3>3. CASE Children[h][j] # b
      BY <2>4, <2>13, <3>1, <3>3
    <3> QED BY <3>2, <3>3
  <2>16. \A c \in Blocks : Subscribed(c)' => \/ Subscribed(c)
                                             \/ ~MayStart(c)' /\ life'[c] = "none"
    BY <2>1, <2>4, <2>11, <2>13
  <2> QED BY <1>1, <2>4, <2>9, <2>10, <2>13, <2>14, <2>15, <2>16, FieldsKeep
<1> QED BY <1>4, <1>5

\* Permissions are lost and never gained by the callback of a list item.
LEMMA SettleItemFields ==
  ASSUME TypesInv, CallsInv, FieldsInv, TypesInv', CallsInv', NEW b \in Blocks,
         SettleItem(b)
  PROVE  FieldsInv' /\ Shrunk
<1>1. /\ ret = None /\ ret' = None /\ Running("settle") /\ stack # <<>>
      /\ Innermost.at = "settle" /\ ~Running("process")
      /\ b \in Innermost.waiting /\ b \in Items
      /\ UNCHANGED <<promise, subs, entries, ctx, values>>
  BY Here DEF SettleItem, InSettleLoop, promiseVars
<1>2. CASE answer[b] = "value"
  <2>1. /\ stack' = Append(AfterSubscriber(b, b), OpLoop(b, 0))
        /\ life' = [life EXCEPT ![b] = "running"] /\ ready' = ready /\ owned' = owned
    BY <1>2 DEF SettleItem, lists
  <2>2. PICK t \in Calls : /\ AfterSubscriber(b, b) = Top(t) /\ SameCall(t)
                           /\ t.at = "settle" /\ t.waiting = Innermost.waiting \ {b}
    <3>1. b \in Items \cup {None}
      BY <1>1
    <3>2. PICK t \in Calls : /\ t = SettleLoop(Innermost.waiting \ {b}, b)
                            /\ AfterSubscriber(b, b) = Top(t) /\ SameCall(t)
      BY <1>1, <3>1, AfterSubscriberFacts
    <3> QED BY <3>2, MadeSettle
  <2>3. PICK u \in Calls : u = OpLoop(b, 0) /\ u.at = "block" /\ u.block = b
    BY MadeCalls, MadeBlock
  <2>4. BecomesAndEnters(t, u)
    BY <1>1, <2>1, <2>2, <2>3, TopPushFacts
  <2>5. Moves({t}, {u})
    BY <2>2, <2>4, BecomesAndEntersMoves
  <2>6. PICK L \in Nat : L = Len(stack) /\ L \in Depths /\ stack[L] = Innermost
                         /\ At(L, "settle")
    BY <1>1, Here
  <2>7. stack'[L] = t
    BY <2>4, <2>6 DEF BecomesAndEnters
  <2>8. Subscribed(b)
    BY <1>1, <2>6 DEF Subscribed
  <2>9. life[b] = "none" /\ ~MayStart(b)
    BY <2>8 DEF FieldsInv, StartsOK
  <2>10. Starts(u)
    BY <2>1, <2>3, <2>9 DEF Starts, TypesInv
  <2>11. StepsOK({t}, {u})
    BY <1>1, <2>2, <2>10 DEF StepsOK, Onward, ProcessGoes, NextsSame
  <2>12. SettlesGo({t}, {u}, {})
    BY <1>1, <2>2, <2>3 DEF SettlesGo
  <2>13. b \in DOMAIN PromiseOf /\ promise[PromiseOf[b]] = "settled"
    BY <1>1, <2>6 DEF FieldsInv, SubscribedOK
  <2>14. ~Subscribed(b)'
    <3>1. ASSUME NEW p \in Promises, b \in subs'[p] PROVE FALSE
      BY <1>1, <2>13, <3>1 DEF FieldsInv, SubscribedOK
    <3>2. ASSUME NEW n \in Depths', At(n, "settle")', b \in stack'[n].waiting PROVE FALSE
      <4>1. n # L
        BY <2>2, <2>7, <3>2
      <4>2. n \in Depths /\ At(n, "settle") /\ stack'[n] = stack[n]
        BY <2>3, <2>5, <2>6, <3>2, <4>1, MovedCall
      <4>3. stack[n].waiting \cap stack[L].waiting = {}
        BY <2>6, <4>1, <4>2 DEF FieldsInv, SubscribedOK
      <4> QED BY <1>1, <2>6, <3>2, <4>2, <4>3
    <3> QED BY <3>1, <3>2 DEF Subscribed
  <2>15. PICK f \in Fields : ChildOf(b, f) /\ life[Home(f)] # "none"
    <3>1. PICK f \in Fields : ChildOf(b, f)
      BY <1>1, ChildFacts DEF ChildOf
    <3>2. life[Home(f)] # "none"
      BY <2>8, <3>1 DEF ChildOf, FieldsInv, EnteredOK, StartedOK
    <3> QED BY <3>1, <3>2
  <2>16. WaitsStarted
    BY <1>1, <2>1 DEF WaitsStarted
  <2> QED BY <1>1, <2>1, <2>5, <2>9, <2>11, <2>12, <2>14, <2>15, <2>16, EntriesStay, StartsKeep
<1>3. CASE answer[b] # "value"
  <2>1. PICK raised \in BOOLEAN : raised = (answer[b] = "error")
    OBVIOUS
  <2>2. /\ ItemResolves(b, TRUE, raised, AfterSubscriber(b, None))
        /\ owned' = owned /\ life' = life
    BY <1>3, <2>1 DEF SettleItem
  <2> QED BY <1>1, <2>1, <2>2, SettledItemFields
<1> QED BY <1>2, <1>3

\* The loop of block b makes an entry of the field that it is at, and goes on.
LEMMA AppendsKeep ==
  ASSUME TypesInv, CallsInv, FieldsInv, TypesInv', CallsInv', Running("block"),
         Within(Len(stack)), NEW b \in Blocks, b = Innermost.block,
         NEW f \in Fields, f = FieldOf(Len(stack)),
         NEW e \in EntrySet, e.field = f, EntryOK(e), e.kind = "promise" => ret = None,
         entries' = [entries EXCEPT ![b] = Append(entries[b], e)],
         \/ Becomes(Advanced(Innermost))
         \/ BecomesAndEnters(Advanced(Innermost), DrainLoop),
         \A q \in Promises : /\ promise[q] = "settled" => promise'[q] = "settled"
                             /\ promise'[q] = promise[q] \/ subs[q] = {},
         UNCHANGED <<values, life, subs>>, WaitsStarted
  PROVE  FieldsInv' /\ Shrunk
<1>1. PICK L \in Nat : L = Len(stack) /\ At(L, "block")
                       /\ \A x : At(L, x) <=> x = "block"
  BY Here
<1>2. PICK i \in Nat \ {0} :
           /\ i = Innermost.index + 1 /\ Home(f) = b
           /\ i \in 1 .. Len(Ops[b]) /\ Ops[b][i] = f
           /\ MayHold(f) /\ (ret = None => Untouched(f))
  <2>1. \E g \in Fields : \E c \in Blocks : \E i \in Nat \ {0} :
           /\ g = FieldOf(Len(stack)) /\ c = Innermost.block /\ i = Innermost.index + 1
           /\ Home(g) = c /\ i \in 1 .. Len(Ops[c]) /\ Ops[c][i] = g
           /\ MayHold(g) /\ (ret = None => Untouched(g))
    BY HereField
  <2> QED BY <2>1
<1>3. PICK U \in {{}, {DrainLoop}} :
           IF U = {} THEN Becomes(Advanced(Innermost))
           ELSE BecomesAndEnters(Advanced(Innermost), DrainLoop)
  <2>1. {DrainLoop} # {}
    OBVIOUS
  <2> QED BY <2>1
<1>4. PICK t \in Calls :
           /\ Moves({t}, U) /\ StepsOK({t}, U) /\ t.at = "block"
           /\ t.index = i /\ t.block = b /\ \A u \in U : u.at # "settle"
           /\ L \in Depths' /\ L \in Depths /\ stack'[L] = t
           /\ \A at : At(L, at)' <=> At(L, at)
  <2>1. ~Running("process") /\ Innermost.at = "block"
    BY Here
  <2>2. \E s \in Calls :
           /\ Moves({s}, U) /\ StepsOK({s}, U) /\ s.at = Innermost.at
           /\ s.index = Innermost.index + 1 /\ \A u \in U : u.at # "settle"
           /\ s.at \in {"block", "process"} => s.block = Innermost.block
           /\ L \in Depths' /\ L \in Depths /\ stack'[L] = s
           /\ \A at : At(L, at)' <=> At(L, at)
    <3>1. CASE U = {}
      BY <1>1, <1>3, <2>1, <3>1, AdvanceSteps
    <3>2. CASE U = {DrainLoop} /\ U # {}
      <4>1. BecomesAndEnters(Advanced(Innermost), DrainLoop)
        BY <1>3, <3>2
      <4>2. {DrainLoop} \in {{}, {DrainLoop}} /\ {DrainLoop} # {}
        OBVIOUS
      <4> QED BY <1>1, <2>1, <3>2, <4>1, <4>2, AdvanceSteps
    <3> QED BY <3>1, <3>2
  <2> QED BY <1>2, <2>1, <2>2
<1>5. LivesKept
  BY DEF LivesKept
<1>6. LoopsKept /\ ListsKept
  BY <1>4, MovesLoops DEF StepsOK
<1>7. LoopsOnce' /\ CallsStarted'
  BY <1>4, <1>5, MovesEntered DEF StepsOK, FieldsInv, EnteredOK, StartedOK
<1>8. HandledKept
  BY <1>4, MovesHandled DEF StepsOK
<1>9. NextsKept
  BY <1>4, MovesNexts DEF StepsOK
<1>10. PICK m \in Nat :
          /\ m = Len(entries[b]) /\ Len(entries'[b]) = m + 1
          /\ \A j \in 1 .. m : entries'[b][j] = entries[b][j]
          /\ entries'[b][m + 1] = e
          /\ \A c \in Blocks : c # b => entries'[c] = entries[c]
  <2>1. /\ \A c \in Blocks : c # b => entries'[c] = entries[c]
        /\ Len(entries[b]) \in Nat /\ Len(entries'[b]) = Len(entries[b]) + 1
        /\ \A j \in 1 .. Len(entries[b]) : entries'[b][j] = entries[b][j]
        /\ entries'[b][Len(entries[b]) + 1] = e
    BY AppendedFacts
  <2> QED BY <2>1
<1>11. ASSUME NEW g \in Fields, NEW j, HeldAt(g, j)'
       PROVE  \/ j \in 1 .. Len(entries[Home(g)]) /\ HeldAt(g, j)
                 /\ entries'[Home(g)][j] = entries[Home(g)][j]
              \/ g = f /\ entries'[Home(g)][j] = e
  <2>1. Home(g) \in Blocks /\ j \in 1 .. Len(entries'[Home(g)])
        /\ entries'[Home(g)][j].field = g
    BY <1>11, HomeFacts DEF HeldAt
  <2>2. CASE Home(g) # b
    BY <2>1, <2>2, <1>10 DEF HeldAt
  <2>3. CASE Home(g) = b /\ j \in 1 .. m
    BY <2>1, <2>3, <1>10 DEF HeldAt
  <2>4. CASE Home(g) = b /\ j = m + 1
    BY <2>1, <2>4, <1>10
  <2>5. Home(g) = b => j \in 1 .. m \/ j = m + 1
    BY <2>1, <1>10
  <2> QED BY <2>2, <2>3, <2>4, <2>5
<1>12. EntriesKept
  <2>1. ASSUME NEW g \in Fields, Waiting(g)'
        PROVE  Waiting(g) \/ MayHold(g)
    <3>1. PICK j \in 1 .. Len(entries'[Home(g)]) : HeldAt(g, j)' /\ ~Handled(Home(g), j)'
      BY <2>1 DEF Waiting
    <3>2. CASE j \in 1 .. Len(entries[Home(g)]) /\ HeldAt(g, j)
      <4>1. ~Handled(Home(g), j)
        BY <3>1, <3>2, <1>8, HomeFacts DEF HandledKept
      <4> QED BY <3>2, <4>1 DEF Waiting
    <3>3. CASE g = f
      BY <3>3, <1>2
    <3> QED BY <3>1, <3>2, <3>3, <1>11
  <2>2. ASSUME NEW g \in Fields, Asleep(g)'
        PROVE  MayComplete(g)
    <3>1. PICK j \in 1 .. Len(entries'[Home(g)]) :
            HeldAt(g, j)' /\ entries'[Home(g)][j].kind = "promise" /\ ~InHand(Home(g), j)'
      BY <2>2 DEF Asleep
    <3>2. CASE j \in 1 .. Len(entries[Home(g)]) /\ HeldAt(g, j)
               /\ entries'[Home(g)][j] = entries[Home(g)][j]
      <4>1. ~InHand(Home(g), j)
        BY <3>1, <3>2, <1>8, HomeFacts DEF HandledKept
      <4> QED BY <3>1, <3>2, <4>1 DEF Asleep, MayComplete
    <3>3. CASE g = f /\ entries'[Home(g)][j] = e
      BY <3>1, <3>3, <1>2 DEF MayComplete
    <3> QED BY <3>1, <3>2, <3>3, <1>11
  <2> QED BY <2>1, <2>2 DEF EntriesKept
<1>13. Shrunk
  BY <1>5, <1>6, <1>9, <1>12, Shrinks
<1>14. ~MayHold(f)'
  <2>1. i \in 1 .. Len(Ops[stack'[L].block]) /\ Ops[stack'[L].block][i] = f
        /\ i <= stack'[L].index /\ At(L, "block")'
    BY <1>1, <1>2, <1>4
  <2> QED BY <2>1, <1>4, <1>7, OnceNext DEF Once
<1>15. ASSUME NEW g \in Fields, NotHeld(g)
       PROVE  NotHeld(g)' \/ ~MayHold(g)'
  <2>1. CASE g = f
    BY <2>1, <1>14
  <2>2. CASE g # f
    <3>1. SUFFICES ASSUME NEW j \in 1 .. Len(entries'[Home(g)]),
                          entries'[Home(g)][j].field = g
                   PROVE  FALSE
      BY DEF NotHeld
    <3>2. HeldAt(g, j)'
      BY <3>1 DEF HeldAt
    <3> QED BY <1>11, <1>15, <2>2, <3>2 DEF NotHeld, HeldAt
  <2> QED BY <2>1, <2>2
<1>16. ArraysOK'
  <2>1. ASSUME NEW c \in Blocks
        PROVE  /\ ArrayOK(entries'[c])
               /\ \A j \in 1 .. Len(entries'[c]) : Home(entries'[c][j].field) = c
    <3>1. CASE c # b
      BY <3>1, <1>10 DEF FieldsInv, ArraysOK
    <3>2. CASE c = b
      <4>1. \A j \in 1 .. m : entries[b][j].field # f
        BY <1>2, <1>10 DEF FieldsInv, HoldsKept, NotHeld
      <4>2. \A j \in 1 .. Len(entries'[b]) : j \in 1 .. m \/ j = m + 1
        BY <1>10
      <4>3. ArrayOK(entries[b]) /\ \A j \in 1 .. m : Home(entries[b][j].field) = b
        BY <1>10 DEF FieldsInv, ArraysOK
      <4>4. \A j \in 1 .. Len(entries'[b]) : /\ EntryOK(entries'[b][j])
                                             /\ Home(entries'[b][j].field) = b
        BY <1>2, <1>10, <4>2, <4>3 DEF ArrayOK
      <4>5. \A j, k \in 1 .. Len(entries'[b]) :
              entries'[b][j].field = entries'[b][k].field => j = k
        BY <1>10, <4>1, <4>2, <4>3 DEF ArrayOK
      <4> QED BY <3>2, <4>4, <4>5 DEF ArrayOK
    <3> QED BY <3>1, <3>2
  <2>2. ASSUME NEW n \in Depths', At(n, "process")'
        PROVE  /\ ArrayOK(stack'[n].next)
               /\ \A j \in 1 .. Len(stack'[n].next) : \E k \in 1 .. stack'[n].index :
                    entries'[stack'[n].block][k].field = stack'[n].next[j].field
    <3>1. (n \in Depths /\ At(n, "process") /\ stack'[n] = stack[n]) \/ stack'[n].next = <<>>
      BY <1>4, <2>2, MovedCall DEF StepsOK, Starts
    <3>2. CASE stack'[n].next = <<>>
      BY <3>2 DEF ArrayOK
    <3>3. CASE n \in Depths /\ At(n, "process") /\ stack'[n] = stack[n]
      <4>1. /\ stack[n].block \in Blocks /\ stack[n].index \in Nat
            /\ stack[n].index <= Len(entries[stack[n].block])
            /\ Len(entries[stack[n].block]) \in Nat
        BY <3>3, CallingProcess
      <4>2. \A k \in 1 .. stack[n].index :
              entries'[stack[n].block][k].field = entries[stack[n].block][k].field
        <5>1. CASE stack[n].block # b
          BY <4>1, <5>1, <1>10
        <5>2. CASE stack[n].block = b
          <6>1. \A k \in 1 .. stack[n].index : k \in 1 .. m
            BY <4>1, <5>2, <1>10
          <6> QED BY <5>2, <6>1, <1>10
        <5> QED BY <5>1, <5>2
      <4>3. /\ ArrayOK(stack[n].next)
            /\ \A j \in 1 .. Len(stack[n].next) : \E k \in 1 .. stack[n].index :
                 entries[stack[n].block][k].field = stack[n].next[j].field
        BY <3>3 DEF FieldsInv, ArraysOK
      <4>4. ASSUME NEW j \in 1 .. Len(stack[n].next)
            PROVE  \E k \in 1 .. stack[n].index :
                     entries'[stack[n].block][k].field = stack[n].next[j].field
        <5>1. PICK k \in 1 .. stack[n].index :
                   entries[stack[n].block][k].field = stack[n].next[j].field
          BY <4>3
        <5>2. entries'[stack[n].block][k].field = entries[stack[n].block][k].field
          BY <4>2
        <5> QED BY <5>1, <5>2
      <4> QED BY <3>3, <4>3, <4>4
    <3> QED BY <3>1, <3>2, <3>3
  <2> QED BY <2>1, <2>2 DEF ArraysOK
<1>17. SettlesGo({t}, U, {})
  BY <1>4 DEF SettlesGo
<1>18. SubscribedOK' /\ \A c \in Blocks : Subscribed(c)' => Subscribed(c)
  BY <1>4, <1>17, SettlesKeep DEF FieldsInv
<1>19. \A g \in Fields : \A j \in 1 .. Len(Children[g]) : Children[g][j] \in Blocks
  BY ChildFacts
<1> QED BY <1>5, <1>7, <1>13, <1>15, <1>16, <1>18, <1>19, FieldsKeep

\* Permissions are lost and never gained by a resolver that returns a
\* promise, for which an entry is appended and armed.
LEMMA ResolverReturnsPromiseFields ==
  ASSUME TypesInv, CallsInv, FieldsInv, TypesInv', CallsInv', NEW b \in Blocks,
         ResolverReturnsPromise(b)
  PROVE  FieldsInv' /\ Shrunk
<1>1. /\ ret = None /\ Running("block") /\ Innermost.block = b /\ stack # <<>>
      /\ Within(Len(stack)) /\ CurrentField \in Fields /\ FieldOf(Len(stack)) = CurrentField
      /\ CurrentField \in DOMAIN PromiseOf
      /\ UNCHANGED <<values, life, subs, ret, ready, ctx, owned>>
  BY HereBlock, Here DEF ResolverReturnsPromise, InOpLoop, tree, lists
<1>2. PICK f \in Fields : f = CurrentField
  BY <1>1
<1>3. PICK e \in EntrySet : e = Entry(f, "promise", "unarmed")
  BY EntryFacts DEF Kinds
<1>4. e.field = f /\ e.kind = "promise" /\ e.state = "unarmed"
  BY <1>3, MadeEntry
<1>5. EntryOK(e)
  BY <1>1, <1>2, <1>4 DEF EntryOK
<1>6. entries' = [entries EXCEPT ![b] = Append(entries[b], e)]
  BY <1>2, <1>3 DEF ResolverReturnsPromise
<1>7. \A q \in Promises : /\ promise[q] = "settled" => promise'[q] = "settled"
                          /\ promise'[q] = promise[q] \/ subs[q] = {}
  BY <1>1, PromiseFacts, ReturnsPromiseFacts DEF ResolverReturnsPromise
<1>8. Becomes(Advanced(Innermost))
  <2>1. PICK t \in Calls : t = Advanced(Innermost)
    BY <1>1, Here, AdvancedFacts
  <2> QED BY <1>1, <2>1, TopFacts DEF Advance, ResolverReturnsPromise
<1>9. WaitsStarted
  BY <1>1 DEF WaitsStarted
<1> QED BY <1>1, <1>2, <1>4, <1>5, <1>6, <1>7, <1>8, <1>9, AppendsKeep

\* The entry that adopts what was returned.
LEMMA AdoptedOK ==
  ASSUME TypesInv, CallsInv, ret # None, ret.kind \in {"frame", "list"},
         Running("block") \/ Running("process"), NEW f \in Fields, f = FieldOf(Len(stack))
  PROVE  \E e \in EntrySet : /\ e = AdoptedEntry(f) /\ e.field = f /\ EntryOK(e)
                             /\ e.kind # "promise"
<1>1. /\ \A x : At(Len(stack), x) => x \in {"block", "process"}
      /\ ReturnOK /\ ret \in Results
  BY Here DEF CallsInv, TypesInv
<1>2. PICK e \in EntrySet :
        /\ e = AdoptedEntry(f) /\ e.field = f /\ e.state = "armed"
        /\ e.kind = IF ret.kind = "frame" THEN "block" ELSE "list"
  BY AdoptedFacts
<1>3. CASE ret.kind = "frame"
  <2>1. Executes(Len(stack), ret.of)
    BY <1>3 DEF CallsInv, ReturnOK
  <2>2. IsChild(ret.of, f)
    BY <1>1, <2>1 DEF Executes
  <2> QED BY <1>2, <1>3, <2>2 DEF EntryOK, IsChild
<1>4. CASE ret.kind = "list"
  <2>1. Completing(Len(stack), ret.of) /\ ret.of \in Lists
    BY <1>1, <1>4, ResultFacts DEF ReturnOK
  <2>2. f \in Lists
    BY <2>1 DEF Completing
  <2> QED BY <1>2, <1>4, <2>2 DEF EntryOK
<1> QED BY <1>3, <1>4

\* Permissions are lost and never gained by the operation loop that takes a
\* child's frame, list or outcome.
LEMMA BlockTakesResultFields ==
  ASSUME TypesInv, CallsInv, FieldsInv, TypesInv', CallsInv', NEW b \in Blocks,
         BlockTakesResult(b)
  PROVE  FieldsInv' /\ Shrunk
<1>1. /\ ret # None /\ ret' = None /\ Running("block") /\ Innermost.block = b /\ stack # <<>>
      /\ Within(Len(stack)) /\ CurrentField \in Fields /\ ret \in Results
      /\ ~Running("process") /\ FieldOf(Len(stack)) = CurrentField
      /\ UNCHANGED <<promise, subs>>
  BY HereBlock, Here DEF BlockTakesResult, TypesInv, promiseVars
<1>2. PICK f \in Fields : f = CurrentField
  BY <1>1
<1>3. PICK t \in Calls : t = Advanced(Innermost)
  BY <1>1, AdvancedFacts
<1>4. CASE ret.kind = "outcome"
  <2>1. /\ Consume(b, f, ret.null, TRUE, FALSE) /\ stack' = Advance
        /\ UNCHANGED <<entries, ctx, life, owned, ready>>
    BY <1>2, <1>4 DEF BlockTakesResult, frames
  <2>2. \A g \in Fields : g # f => values'[g] = values[g]
    BY <2>1, ConsumeFacts
  <2> QED BY <1>1, <1>2, <2>1, <2>2, WritesKeep
<1>5. CASE ret.kind \in {"frame", "list"}
  <2>1. PICK e \in EntrySet : /\ e = AdoptedEntry(f) /\ e.field = f /\ EntryOK(e)
                              /\ e.kind # "promise"
    BY <1>1, <1>2, <1>5, AdoptedOK
  <2>2. /\ entries' = [entries EXCEPT ![b] = Append(entries[b], e)]
        /\ UNCHANGED <<ctx, life, values>>
    BY <1>2, <1>5, <2>1 DEF BlockTakesResult, tree
  <2>3. life[Home(f)] # "none"
    <3>1. \E c \in Blocks : f = FieldOf(Len(stack)) /\ Home(f) = c /\ life[c] # "none"
      BY <1>1, <1>2, HereField
    <3> QED BY <3>1
  <2>4. CASE ret.kind = "frame"
    <3>1. PICK wanted \in BOOLEAN : wanted = (unresolved[ret.of] = 0)
      OBVIOUS
    <3>2. EnqueueAndDrain(wanted, ret.of, ready, Top(t)) /\ owned' = owned
      BY <1>3, <2>4, <3>1 DEF BlockTakesResult, Advance
    <3>3. ret.of \in Blocks /\ ready \in Seq(Blocks \cup {None})
      BY <1>1, <2>4, ResultFacts DEF TypesInv
    <3>4. /\ \A c : c \in Range(ready') => c \in Range(ready) \/ c = ret.of
          /\ Becomes(t) \/ BecomesAndEnters(t, DrainLoop)
      BY <1>1, <3>2, <3>3, EnqueueAndDrainFacts
    <3>5. life[ret.of] # "none"
      BY <1>1, <2>4 DEF FieldsInv, EnteredOK, StartedOK
    <3>6. WaitsStarted
      BY <1>1, <2>2, <3>2, <3>4, <3>5 DEF WaitsStarted
    <3> QED BY <1>1, <1>2, <1>3, <2>1, <2>2, <3>4, <3>6, AppendsKeep
  <2>5. CASE ret.kind = "list"
    <3>1. owned' = owned \cup {f} /\ stack' = Top(t) /\ ready' = ready
      BY <1>2, <1>3, <2>5 DEF BlockTakesResult, Adopts, Advance
    <3>2. Becomes(t)
      BY <1>1, <3>1, TopFacts
    <3>3. WaitsStarted
      BY <1>1, <2>2, <2>3, <3>1 DEF WaitsStarted
    <3> QED BY <1>1, <1>2, <1>3, <2>1, <2>2, <3>2, <3>3, AppendsKeep
  <2> QED BY <1>5, <2>4, <2>5
<1> QED BY <1>1, <1>4, <1>5, ResultFacts

\* The entry that the frame's process call is at moves to the rebuilt array.
LEMMA MovesKeep ==
  ASSUME TypesInv, CallsInv, FieldsInv, TypesInv', CallsInv', Running("process"),
         EntriesLeft, NEW f \in Fields, f = FieldOf(Len(stack)),
         NEW e \in EntrySet, e.field = f, EntryOK(e),
         e.kind = "promise" => ret = None /\ CurrentEntry.kind = "promise",
         stack' = MoveTo(e), ret' = None,
         UNCHANGED <<entries, promise, subs, values, life>>, WaitsStarted
  PROVE  FieldsInv' /\ Shrunk
<1>1. PICK L \in Nat : L = Len(stack) /\ L \in Depths /\ stack[L] = Innermost
                       /\ At(L, "process")
  BY Here
<1>2. PICK b \in Blocks : \E i \in Nat \ {0} :
           /\ b = Innermost.block /\ i = Innermost.index + 1 /\ Home(f) = b
           /\ HeldAt(f, i) /\ Waiting(f) /\ \A kind : ~Moved(f, kind)
           /\ e.kind = "promise" => Asleep(f)
  <2>1. Within(Len(stack))
    BY HereProcess
  <2>2. \E g \in Fields : \E c \in Blocks : \E i \in Nat \ {0} :
           /\ g = FieldOf(Len(stack)) /\ c = Innermost.block /\ i = Innermost.index + 1
           /\ Home(g) = c
           /\ HeldAt(g, i) /\ ~Handled(c, i) /\ Waiting(g)
           /\ \A kind : ~Moved(g, kind)
           /\ ret = None /\ CurrentEntry.kind = "promise" => Asleep(g)
    BY <2>1, HereField
  <2> QED BY <2>2
<1>3. PICK i \in Nat \ {0} :
           /\ i = Innermost.index + 1
           /\ HeldAt(f, i) /\ Waiting(f) /\ \A kind : ~Moved(f, kind)
           /\ e.kind = "promise" => Asleep(f)
  BY <1>2
<1>4. b = Innermost.block /\ Home(f) = b
  BY <1>2
<1>5. PICK t \in Calls :
           /\ t.at = "process" /\ t.block = b /\ t.index = i
           /\ t.next = Append(Innermost.next, e) /\ Becomes(t) /\ SameCall(t)
  <2>1. \E s \in Calls :
           /\ s = ProcessLoop(Innermost.block, Innermost.index + 1, Append(Innermost.next, e))
           /\ s.at = "process" /\ s.block = Innermost.block /\ s.index = Innermost.index + 1
           /\ s.next = Append(Innermost.next, e)
           /\ stack' \in Seq(Calls) /\ Becomes(s) /\ SameCall(s) /\ IndexFits(s, entries)
    BY MoveToFacts
  <2> QED BY <2>1, <1>3, <1>4
<1>6. Moves({t}, {})
  BY <1>5, BecomesMoves
<1>7. stack'[L] = t /\ L \in Depths'
  BY <1>1, <1>5 DEF Becomes, Depths
<1>8. Innermost.at = "process" /\ Innermost.index \in Nat /\ i > Innermost.index
  BY <1>3, Here, HereProcess
<1>9. Onward(t)
  BY <1>4, <1>5, <1>8 DEF Onward
<1>10. LivesKept
  BY DEF LivesKept
<1>11. LoopsKept /\ ListsKept
  BY <1>6, <1>9, MovesLoops
<1>12. LoopsOnce' /\ CallsStarted'
  BY <1>6, <1>9, <1>10, MovesEntered DEF FieldsInv, EnteredOK, StartedOK
<1>13. HandledKept
  <2>1. ProcessGoes({t})
    BY <1>1, <1>4, <1>5, <1>7, <1>8 DEF ProcessGoes
  <2> QED BY <2>1, <1>6, MovesHandled
<1>14. EntriesKept /\ \A g \in Fields : NotHeld(g) => NotHeld(g)'
  BY <1>13, EntriesStay, SameEntriesKept
<1>15. PICK m \in Nat :
          /\ m = Len(Innermost.next) /\ Len(t.next) = m + 1
          /\ \A j \in 1 .. m : t.next[j] = Innermost.next[j]
          /\ t.next[m + 1] = e
  <2>1. Innermost.next \in Seq(EntrySet)
    BY HereProcess
  <2> QED BY <1>5, <2>1
<1>16. ASSUME NEW n \in Depths', At(n, "process")'
       PROVE  \/ n \in Depths /\ At(n, "process") /\ stack'[n] = stack[n]
              \/ n = L /\ stack'[n] = t
  BY <1>1, <1>6, <1>16, MovedCall
<1>17. NextsKept
  <2>1. SUFFICES ASSUME NEW g \in Fields, NEW kind \in Kinds, Moved(g, kind)'
                 PROVE  Moved(g, kind) \/ (Waiting(g) /\ (kind = "promise" => Asleep(g)))
    BY DEF NextsKept
  <2>2. PICK n \in Depths' : At(n, "process")' /\ \E j \in 1 .. Len(stack'[n].next) :
                stack'[n].next[j].field = g /\ stack'[n].next[j].kind = kind
    BY <2>1 DEF Moved
  <2>3. CASE n \in Depths /\ At(n, "process") /\ stack'[n] = stack[n]
    BY <2>2, <2>3 DEF Moved
  <2>4. CASE n = L /\ stack'[n] = t
    <3>1. PICK j \in 1 .. Len(t.next) : t.next[j].field = g /\ t.next[j].kind = kind
      BY <2>2, <2>4
    <3>2. j \in 1 .. m \/ j = m + 1
      BY <1>15
    <3>3. CASE j \in 1 .. m
      BY <1>1, <1>15, <3>1, <3>3 DEF Moved
    <3>4. CASE j = m + 1
      BY <1>3, <1>15, <3>1, <3>4
    <3> QED BY <3>2, <3>3, <3>4
  <2> QED BY <2>2, <2>3, <2>4, <1>16
<1>18. Shrunk
  BY <1>10, <1>11, <1>14, <1>17, Shrinks
<1>19. ArraysOK'
  <2>1. ASSUME NEW c \in Blocks
        PROVE  /\ ArrayOK(entries'[c])
               /\ \A j \in 1 .. Len(entries'[c]) : Home(entries'[c][j].field) = c
    BY DEF FieldsInv, ArraysOK
  <2>2. /\ ArrayOK(Innermost.next)
        /\ \A j \in 1 .. m : \E k \in 1 .. Innermost.index :
             entries[b][k].field = Innermost.next[j].field
    BY SMTT(40), <1>1, <1>4, <1>15 DEF FieldsInv, ArraysOK
  <2>3. \A j \in 1 .. Len(t.next) : j \in 1 .. m \/ j = m + 1
    BY <1>15
  <2>4. \A j \in 1 .. m : Innermost.next[j].field # f
    BY <1>1, <1>3, <1>15 DEF Moved
  <2>5. ArrayOK(t.next)
    <3>1. \A j \in 1 .. Len(t.next) : EntryOK(t.next[j])
      BY <1>15, <2>2, <2>3 DEF ArrayOK
    <3>2. \A j, k \in 1 .. Len(t.next) : t.next[j].field = t.next[k].field => j = k
      BY SMTT(40), <1>15, <2>2, <2>3, <2>4 DEF ArrayOK
    <3> QED BY <3>1, <3>2 DEF ArrayOK
  <2>6. ASSUME NEW j \in 1 .. Len(t.next)
        PROVE  \E k \in 1 .. i : entries'[b][k].field = t.next[j].field
    <3>1. CASE j \in 1 .. m
      <4>1. PICK k \in 1 .. Innermost.index : entries[b][k].field = Innermost.next[j].field
        BY <2>2, <3>1
      <4>2. k \in 1 .. i
        BY <1>3, <1>8
      <4> QED BY <1>15, <3>1, <4>1, <4>2
    <3>2. CASE j = m + 1
      <4>1. entries[b][i].field = f /\ i \in 1 .. i /\ t.next[j].field = f
        BY <1>3, <1>4, <1>15, <3>2 DEF HeldAt
      <4> QED BY <4>1
    <3> QED BY <2>3, <3>1, <3>2
  <2>7. ASSUME NEW n \in Depths', At(n, "process")'
        PROVE  /\ ArrayOK(stack'[n].next)
               /\ \A j \in 1 .. Len(stack'[n].next) : \E k \in 1 .. stack'[n].index :
                    entries'[stack'[n].block][k].field = stack'[n].next[j].field
    <3>1. CASE n \in Depths /\ At(n, "process") /\ stack'[n] = stack[n]
      <4>1. /\ ArrayOK(stack[n].next)
            /\ \A j \in 1 .. Len(stack[n].next) : \E k \in 1 .. stack[n].index :
                 entries[stack[n].block][k].field = stack[n].next[j].field
        BY <3>1 DEF FieldsInv, ArraysOK
      <4> QED BY <3>1, <4>1
    <3>2. CASE n = L /\ stack'[n] = t
      <4>1. ArrayOK(stack'[n].next)
        BY <2>5, <3>2
      <4>2. stack'[n].block = b /\ stack'[n].index = i /\ stack'[n].next = t.next
        BY <1>5, <3>2
      <4>3. \A j \in 1 .. Len(t.next) : \E k \in 1 .. i :
              entries'[b][k].field = t.next[j].field
        BY <2>6
      <4> QED BY <4>1, <4>2, <4>3
    <3> QED BY <1>16, <2>7, <3>1, <3>2
  <2> QED BY <2>1, <2>7 DEF ArraysOK
<1>20. SettlesGo({t}, {}, {})
  BY <1>5 DEF SettlesGo
<1>21. SubscribedOK' /\ \A c \in Blocks : Subscribed(c)' => Subscribed(c)
  BY <1>6, <1>20, SettlesKeep DEF FieldsInv
<1>22. \A g \in Fields : \A j \in 1 .. Len(Children[g]) : Children[g][j] \in Blocks
  BY ChildFacts
<1> QED BY <1>10, <1>12, <1>14, <1>18, <1>19, <1>21, <1>22, FieldsKeep

\* Permissions are lost and never gained by process_frame that keeps an entry
\* that is not ready in the rebuilt array.
LEMMA ProcessMovesFields ==
  ASSUME TypesInv, CallsInv, FieldsInv, TypesInv', CallsInv', NEW b \in Blocks,
         ProcessMoves(b)
  PROVE  FieldsInv' /\ Shrunk
<1>1. /\ ret = None /\ ret' = None /\ Running("process") /\ EntriesLeft
      /\ FieldOf(Len(stack)) = CurrentEntry.field /\ CurrentEntry.field \in Fields
      /\ Innermost.block \in Blocks
      /\ Innermost.index + 1 \in 1 .. Len(entries[Innermost.block])
      /\ UNCHANGED <<entries, promise, subs, values, life, ready, owned>>
  BY HereProcess DEF ProcessMoves, InProcessLoop, promiseVars, tree, lists
<1>2. PICK e \in EntrySet : e = CurrentEntry
  BY <1>1, HereProcess
<1>3. PICK f \in Fields : f = e.field /\ f = FieldOf(Len(stack))
  BY <1>1, <1>2
<1>4. stack' = MoveTo(e)
  BY <1>2 DEF ProcessMoves
<1>5. EntryOK(e)
  BY <1>1, <1>2 DEF FieldsInv, ArraysOK, ArrayOK, CurrentEntry
<1>6. \A g \in Fields : ctx'[g] # 0 => ctx[g] # 0
  BY <1>2 DEF ProcessMoves, TypesInv
<1>7. WaitsStarted
  BY <1>1, <1>6 DEF WaitsStarted
<1> QED BY <1>1, <1>2, <1>3, <1>4, <1>5, <1>7, MovesKeep

\* Permissions are lost and never gained by process_frame that takes the
\* frame or outcome of the block a ready entry started.
LEMMA ProcessTakesResultFields ==
  ASSUME TypesInv, CallsInv, FieldsInv, TypesInv', CallsInv', NEW b \in Blocks,
         ProcessTakesResult(b)
  PROVE  FieldsInv' /\ Shrunk
<1>1. /\ ret # None /\ ret' = None /\ Running("process") /\ ret \in Results
      /\ Within(Len(stack)) /\ EntriesLeft
      /\ FieldOf(Len(stack)) = CurrentEntry.field /\ CurrentEntry.field \in Fields
      /\ UNCHANGED <<entries, promise, subs, ctx, life>>
  BY HereProcess, Here DEF ProcessTakesResult, TypesInv, promiseVars
<1>2. PICK f \in Fields : f = CurrentEntry.field
  BY <1>1
<1>3. CASE ret.kind = "outcome"
  <2>1. /\ Consume(b, f, ret.null, TRUE, FALSE) /\ stack' = Advance
        /\ UNCHANGED <<owned, ready>>
    BY <1>2, <1>3 DEF ProcessTakesResult
  <2>2. \A g \in Fields : g # f => values'[g] = values[g]
    BY <2>1, ConsumeFacts
  <2> QED BY <1>1, <1>2, <2>1, <2>2, WritesKeep
<1>4. CASE ret.kind \in {"frame", "list"}
  <2>1. PICK e \in EntrySet : /\ e = AdoptedEntry(f) /\ e.field = f /\ EntryOK(e)
                              /\ e.kind # "promise"
    BY <1>1, <1>2, <1>4, AdoptedOK
  <2>2. stack' = MoveTo(e) /\ values' = values
    BY <1>2, <1>4, <2>1 DEF ProcessTakesResult, tree
  <2>3. life[Home(f)] # "none"
    <3>1. \E g \in Fields : \E c \in Blocks :
            g = FieldOf(Len(stack)) /\ Home(g) = c /\ life[c] # "none"
      BY <1>1, HereField
    <3> QED BY <1>1, <1>2, <3>1
  <2>4. CASE ret.kind = "frame"
    <3>1. owned' = owned /\ (ready' = Enqueued(ret.of, ready) \/ ready' = ready)
      BY <2>4 DEF ProcessTakesResult
    <3>2. PICK c \in Blocks : c = ret.of /\ life[c] # "none"
      <4>1. ret.of \in Blocks
        BY <1>1, <2>4, ResultFacts
      <4>2. life[ret.of] # "none"
        BY <1>1, <2>4 DEF FieldsInv, EnteredOK, StartedOK
      <4> QED BY <4>1, <4>2
    <3>3. \A d : d \in Range(ready') => d \in Range(ready) \/ d = c
      BY <3>1, <3>2, QueueFacts DEF TypesInv
    <3>4. WaitsStarted
      BY <1>1, <3>1, <3>2, <3>3 DEF WaitsStarted
    <3> QED BY <1>1, <1>2, <2>1, <2>2, <3>4, MovesKeep
  <2>5. CASE ret.kind = "list"
    <3>1. owned' = owned \cup {f} /\ ready' = ready
      BY <1>2, <2>5 DEF ProcessTakesResult, Adopts
    <3>2. WaitsStarted
      BY <1>1, <2>3, <3>1 DEF WaitsStarted
    <3> QED BY <1>1, <1>2, <2>1, <2>2, <3>2, MovesKeep
  <2> QED BY <1>4, <2>4, <2>5
<1> QED BY <1>1, <1>3, <1>4, ResultFacts

\* The calls after a frame's entries have all been dealt with: it is left, is
\* processed again, or resolves.
LEMMA EndsCalls ==
  ASSUME TypesInv, CallsInv, TypesInv', NEW b \in Blocks, ProcessEnds(b),
         NEW L \in Nat, L = Len(stack)
  PROVE  \E T \in SUBSET Calls :
           /\ Moves(T, {}) /\ \A t \in T : t.at # "settle" /\ Onward(t)
           /\ \A t \in T : /\ t.at = "process" => t.next = <<>>
                           /\ t.at = "resolve" => Innermost.next = <<>>
           /\ \A n \in Depths' : At(n, "process")' => stack'[n].next = <<>>
<1>1. /\ Running("process") /\ Innermost.block = b /\ stack # <<>>
      /\ Innermost.at = "process" /\ At(L, "process") /\ ret' = ret
  BY Here DEF ProcessEnds, InProcessLoop
<1>2. ASSUME NEW T, Moves(T, {}), \A t \in T : t.at = "process" => t.next = <<>>,
             L \notin Depths' \/ stack'[L] \in T
      PROVE  \A n \in Depths' : At(n, "process")' => stack'[n].next = <<>>
  <2>1. SUFFICES ASSUME NEW n \in Depths', At(n, "process")' PROVE stack'[n].next = <<>>
    OBVIOUS
  <2>2. CASE n = L
    BY <1>2, <2>1, <2>2 DEF At
  <2>3. CASE n # L
    <3>1. At(n, "process")
      BY <1>2, <2>1, <2>3, MovedCall
    <3> QED BY <1>1, <2>3, <3>1, OneProcess DEF At
  <2> QED BY <2>2, <2>3
<1>3. CASE stack' = Pop
  <2>1. Leaves
    BY <1>1, <1>3, PopFacts
  <2>2. Moves({}, {})
    BY <1>1, <2>1, LeavesMoves
  <2>3. L \notin Depths'
    BY <2>1 DEF Leaves, Depths
  <2>4. {} \in SUBSET Calls
    OBVIOUS
  <2> QED BY <1>2, <2>2, <2>3, <2>4
<1>4. CASE stack' # Pop
  <2>0. ResolveCall(b) \in Calls /\ ProcessLoop(b, 0, <<>>) \in Calls
    BY MadeCalls, StartedProcess
  <2>1. PICK t \in Calls : /\ stack' = Top(t)
                           /\ \/ t = ResolveCall(b) /\ Innermost.next = <<>>
                              \/ t = ProcessLoop(b, 0, <<>>)
    BY <1>4, <2>0 DEF ProcessEnds
  <2>2. \/ t.at = "resolve" /\ t.block = b /\ Innermost.next = <<>>
        \/ t.at = "process" /\ t.block = b /\ t.next = <<>>
    BY <2>1, MadeOthers, MadeProcess
  <2>3. Becomes(t)
    BY <1>1, <2>1, TopFacts
  <2>4. SameCall(t) /\ Onward(t)
    BY <1>1, <2>2 DEF SameCall, Onward
  <2>5. Moves({t}, {})
    BY <2>3, <2>4, BecomesMoves
  <2>6. stack'[L] \in {t}
    BY <2>3 DEF Becomes
  <2>7. {t} \in SUBSET Calls /\ \A s \in {t} : s.at # "settle" /\ Onward(s)
        /\ (s.at = "process" => s.next = <<>>)
        /\ (s.at = "resolve" => Innermost.next = <<>>)
    BY <2>2, <2>4
  <2> QED BY <1>2, <2>5, <2>6, <2>7
<1> QED BY <1>3, <1>4

\* Permissions are lost and never gained by process_frame that swaps the
\* rebuilt array in and counts what still waits.
LEMMA ProcessEndsFields ==
  ASSUME TypesInv, CallsInv, FieldsInv, TypesInv', CallsInv', NEW b \in Blocks,
         ProcessEnds(b)
  PROVE  FieldsInv' /\ Shrunk
<1>1. PICK L \in Nat :
           /\ L = Len(stack) /\ L \in Depths /\ stack[L] = Innermost /\ At(L, "process")
           /\ Innermost.block = b /\ ret = None /\ ret' = None /\ ~EntriesLeft
           /\ life[b] # "none"
           /\ promise' = promise /\ values' = values /\ life' = life /\ owned' = owned
  BY Here, HereStarted DEF ProcessEnds, InProcessLoop, tree, lists
<1>2. PICK es \in Seq(EntrySet) : es = stack[L].next /\ ArmFrame(b, es)
  BY <1>1, HereProcess DEF ProcessEnds, InProcessLoop
<1>3. /\ stack[L].block = b /\ stack[L].index \in Nat /\ Len(es) \in Nat
      /\ stack[L].index <= Len(entries[b]) /\ Len(entries[b]) \in Nat
  BY <1>1, <1>2, HereProcess DEF ProcessEnds, InProcessLoop
<1>4. ASSUME NEW j \in 1 .. Len(es)
      PROVE  \E i \in 1 .. Len(entries[b]) : entries[b][i].field = es[j].field
  <2>1. \A k \in 1 .. Len(stack[L].next) : \E i \in 1 .. stack[L].index :
          entries[stack[L].block][i].field = stack[L].next[k].field
    BY <1>1 DEF FieldsInv, ArraysOK
  <2>2. \E i \in 1 .. stack[L].index : entries[b][i].field = es[j].field
    BY <1>2, <1>3, <2>1
  <2> QED BY <1>3, <2>2
<1>5. ArrayOK(es) /\ \A j \in 1 .. Len(es) : Home(es[j].field) = b
  <2>1. ArrayOK(es)
    BY <1>1, <1>2 DEF FieldsInv, ArraysOK
  <2>2. \A i \in 1 .. Len(entries[b]) : Home(entries[b][i].field) = b
    BY DEF FieldsInv, ArraysOK
  <2>3. ASSUME NEW j \in 1 .. Len(es) PROVE Home(es[j].field) = b
    BY <2>2, <1>4
  <2> QED BY <2>1, <2>3
<1>6. /\ \A i \in 1 .. Len(es) : entries'[b][i].state # "unarmed"
      /\ \A f \in Fields : ctx'[f] # 0 => ctx[f] # 0 \/ Home(f) = b
      /\ \A p \in Promises : \A x \in subs'[p] :
           \/ x \in subs[p]
           \/ /\ x \in Fields /\ x \in DOMAIN PromiseOf /\ PromiseOf[x] = p
              /\ promise[p] = "pending"
  BY <1>2, <1>5, ArmKeeps
<1>7. /\ Len(entries'[b]) = Len(es)
      /\ \A i \in 1 .. Len(es) : /\ entries'[b][i].field = es[i].field
                                 /\ entries'[b][i].kind = es[i].kind
      /\ \A c \in Blocks : c # b => entries'[c] = entries[c]
  BY <1>2, ArmFacts
<1>8. PICK T \in SUBSET Calls :
           /\ Moves(T, {}) /\ \A t \in T : t.at # "settle" /\ Onward(t)
           /\ \A t \in T : /\ t.at = "process" => t.next = <<>>
                           /\ t.at = "resolve" => Innermost.next = <<>>
           /\ \A n \in Depths' : At(n, "process")' => stack'[n].next = <<>>
  BY <1>1, EndsCalls
<1>9. LivesKept
  BY <1>1 DEF LivesKept
<1>10. LoopsKept /\ ListsKept
  BY <1>8, MovesLoops
<1>11. LoopsOnce' /\ CallsStarted'
  BY <1>8, <1>9, MovesEntered DEF FieldsInv, EnteredOK, StartedOK
<1>12. NextsKept
  <2>1. NextsSame(T)
    BY <1>8 DEF NextsSame
  <2> QED BY <1>8, <2>1, MovesNexts
<1>13. ASSUME NEW n \in Depths, At(n, "process") PROVE n = L
  BY <1>1, <1>13, OneProcess
<1>14. ASSUME NEW c \in Blocks, c # b, NEW j PROVE ~InHand(c, j)
  BY <1>3, <1>13, <1>14 DEF InHand, Handled, At, Depths
<1>15. ASSUME NEW g \in Fields, NEW j, HeldAt(g, j)'
       PROVE  \/ Home(g) # b /\ HeldAt(g, j) /\ entries'[Home(g)] = entries[Home(g)]
              \/ Home(g) = b /\ Moved(g, entries'[Home(g)][j].kind)
                 /\ j \in 1 .. Len(es) /\ es[j].field = g
                 /\ entries'[Home(g)][j].kind \in Kinds
  <2>1. Home(g) \in Blocks /\ j \in 1 .. Len(entries'[Home(g)])
        /\ entries'[Home(g)][j].field = g
    BY <1>15, HomeFacts DEF HeldAt
  <2>2. CASE Home(g) # b
    BY <2>1, <2>2, <1>7 DEF HeldAt
  <2>3. CASE Home(g) = b
    <3>1. j \in 1 .. Len(es) /\ es[j].field = g /\ entries'[b][j].kind = es[j].kind
      BY <2>1, <2>3, <1>7
    <3>2. es[j].kind \in Kinds
      BY <3>1, EntryFacts
    <3>3. Moved(g, es[j].kind)
      BY <1>1, <1>2, <3>1 DEF Moved
    <3> QED BY <2>3, <3>1, <3>2, <3>3
  <2> QED BY <2>2, <2>3
<1>16. EntriesKept
  <2>1. ASSUME NEW g \in Fields, Waiting(g)'
        PROVE  Waiting(g) \/ \E kind \in Kinds : Moved(g, kind)
    <3>1. PICK j \in 1 .. Len(entries'[Home(g)]) : HeldAt(g, j)'
      BY <2>1 DEF Waiting
    <3>2. CASE Home(g) # b /\ HeldAt(g, j)
      BY <3>2, <1>14, HomeFacts DEF Waiting, InHand, HeldAt
    <3>3. CASE Moved(g, entries'[Home(g)][j].kind) /\ entries'[Home(g)][j].kind \in Kinds
      BY <3>3
    <3> QED BY <3>1, <3>2, <3>3, <1>15
  <2>2. ASSUME NEW g \in Fields, Asleep(g)'
        PROVE  MayComplete(g)
    <3>1. PICK j \in 1 .. Len(entries'[Home(g)]) :
            HeldAt(g, j)' /\ entries'[Home(g)][j].kind = "promise"
      BY <2>2 DEF Asleep
    <3>2. CASE Home(g) # b /\ HeldAt(g, j) /\ entries'[Home(g)] = entries[Home(g)]
      <4>1. Asleep(g)
        BY <3>1, <3>2, <1>14, HomeFacts DEF Asleep, HeldAt
      <4> QED BY <4>1 DEF MayComplete
    <3>3. CASE Moved(g, entries'[Home(g)][j].kind)
      BY <3>1, <3>3 DEF MayComplete
    <3> QED BY <3>1, <3>2, <3>3, <1>15
  <2> QED BY <2>1, <2>2 DEF EntriesKept
<1>17. Shrunk
  BY <1>9, <1>10, <1>12, <1>16, Shrinks
<1>18. ASSUME NEW g \in Fields, NotHeld(g)
       PROVE  NotHeld(g)'
  <2>1. SUFFICES ASSUME NEW j \in 1 .. Len(entries'[Home(g)]),
                        entries'[Home(g)][j].field = g
                 PROVE  FALSE
    BY DEF NotHeld
  <2>2. HeldAt(g, j)'
    BY <2>1 DEF HeldAt
  <2>3. CASE HeldAt(g, j)
    BY <1>18, <2>3 DEF NotHeld, HeldAt
  <2>4. CASE Home(g) = b /\ j \in 1 .. Len(es) /\ es[j].field = g
    BY <1>4, <1>18, <2>4 DEF NotHeld
  <2> QED BY <2>2, <2>3, <2>4, <1>15
<1>19. ArraysOK'
  <2>1. ASSUME NEW c \in Blocks
        PROVE  /\ ArrayOK(entries'[c])
               /\ \A j \in 1 .. Len(entries'[c]) : Home(entries'[c][j].field) = c
    <3>1. CASE c # b
      BY <3>1, <1>7 DEF FieldsInv, ArraysOK
    <3>2. CASE c = b
      <4>1. \A j \in 1 .. Len(entries'[b]) : /\ EntryOK(entries'[b][j])
                                             /\ Home(entries'[b][j].field) = b
        BY <1>5, <1>6, <1>7 DEF ArrayOK, EntryOK
      <4>2. \A j, k \in 1 .. Len(entries'[b]) :
              entries'[b][j].field = entries'[b][k].field => j = k
        BY <1>5, <1>7 DEF ArrayOK
      <4> QED BY <3>2, <4>1, <4>2 DEF ArrayOK
    <3> QED BY <3>1, <3>2
  <2>2. ASSUME NEW n \in Depths', At(n, "process")'
        PROVE  /\ ArrayOK(stack'[n].next)
               /\ \A j \in 1 .. Len(stack'[n].next) : \E k \in 1 .. stack'[n].index :
                    entries'[stack'[n].block][k].field = stack'[n].next[j].field
    BY <1>8, <2>2 DEF ArrayOK
  <2> QED BY <2>1, <2>2 DEF ArraysOK
<1>20. SettlesGo(T, {}, Fields)
  BY <1>1, <1>6, <1>8 DEF SettlesGo
<1>21. SubscribedOK' /\ \A c \in Blocks : Subscribed(c)' => Subscribed(c)
  <2>1. SubscribedOK' /\ \A c : c \notin Fields /\ Subscribed(c)' => Subscribed(c)
    BY <1>8, <1>20, SettlesKeep DEF FieldsInv
  <2> QED BY <2>1, TypesAssumption
<1>22. WaitsStarted
  <2>1. \A c \in Blocks : c \in Range(ready') => c \in Range(ready) \/ c = b
    <3>1. ready' = Enqueued(b, ready) \/ ready' = ready
      BY DEF ProcessEnds
    <3> QED BY <3>1, QueueFacts DEF TypesInv
  <2> QED BY <1>1, <1>6, <2>1 DEF WaitsStarted
<1>23. \A g \in Fields : \A j \in 1 .. Len(Children[g]) : Children[g][j] \in Blocks
  BY ChildFacts
<1> QED BY <1>1, <1>9, <1>11, <1>17, <1>18, <1>19, <1>21, <1>22, <1>23, FieldsKeep


-----------------------------------------------------------------------------
(* The theorem                                                             *)

\* Permissions are lost and never gained by the initial state.
LEMMA InitFields ==
  ASSUME Init
  PROVE  FieldsInv
<1>1. PICK root \in Roots :
        /\ life = [b \in Blocks |-> IF b = root THEN "running" ELSE "none"]
        /\ stack = <<OpLoop(root, 0)>>
  BY DEF Init
<1>2. root \in Blocks
  BY TypesAssumption
<1>3. PICK a \in Calls : a = OpLoop(root, 0)
  BY <1>2, MadeCalls
<1>4. a.at = "block" /\ a.block = root /\ a.index = 0
  BY <1>3, MadeBlock
<1>5. Len(stack) = 1 /\ stack[1] = a
  BY <1>1, <1>3
<1>6. /\ Depths = {1} /\ (\A n, at : At(n, at) <=> n = 1 /\ at = "block")
      /\ stack[1].block = root
  BY <1>4, <1>5 DEF Depths, At
<1>7. /\ \A b \in Blocks : life[b] # "none" <=> b = root
      /\ \A b \in Blocks : entries[b] = <<>> /\ Len(entries[b]) = 0
      /\ \A f \in Fields : values[f] = "unset" /\ ctx[f] = 0
      /\ \A p \in Promises : subs[p] = {}
      /\ owned = {} /\ ret = None
  BY <1>1 DEF Init
<1>8. Range(ready) = {}
  BY DEF Init, Range
<1>9. \A c : ~Subscribed(c)
  BY <1>6, <1>7 DEF Subscribed
<1>10. HoldsKept
  BY <1>7, HomeFacts DEF HoldsKept, NotHeld
<1>11. WritesOK
  BY <1>7 DEF WritesOK
<1>12. \A f \in Fields : ~ChildOf(root, f)
  BY TreeAssumption DEF ChildOf
<1>13. StartsOK
  BY <1>6, <1>7, <1>9, <1>12 DEF StartsOK, MayStart, BeforeItem
<1>14. ArraysOK
  BY <1>6, <1>7 DEF ArraysOK, ArrayOK
<1>15. LoopsOnce /\ CallsStarted
  BY <1>2, <1>6, <1>7 DEF LoopsOnce, CallsStarted
<1>16. ASSUME NEW f \in Fields, NEW i \in 1 .. Len(Children[f])
       PROVE  life[Children[f][i]] = "none"
  <2>1. ChildOf(Children[f][i], f) /\ Children[f][i] \in Blocks
    BY ChildFacts DEF ChildOf
  <2> QED BY <1>7, <1>12, <2>1
<1>17. StartedOK
  BY <1>7, <1>8, <1>9, <1>15, <1>16 DEF StartedOK
<1>18. SubscribedOK
  BY <1>6, <1>7 DEF SubscribedOK
<1> QED BY <1>10, <1>11, <1>13, <1>14, <1>15, <1>17, <1>18 DEF FieldsInv, EnteredOK

\* Permissions are lost and never gained by a step that changes nothing.
LEMMA SameFields ==
  ASSUME TypesInv, CallsInv, FieldsInv, UNCHANGED vars
  PROVE  FieldsInv' /\ Shrunk
<1>1. TypesInv' /\ CallsInv'
  BY SameCalls
<1>2. /\ stack' = stack /\ ret' = ret /\ entries' = entries /\ promise' = promise
      /\ subs' = subs /\ values' = values /\ life' = life /\ ctx' = ctx
      /\ owned' = owned /\ ready' = ready
  BY DEF vars
<1>3. Moves({}, {})
  BY <1>1, <1>2, StaysMoves
<1>4. Running("process") => Len(stack) \in Depths'
  BY <1>2, Here DEF Depths
<1>5. StepsOK({}, {})
  BY <1>4 DEF StepsOK, ProcessGoes, NextsSame
<1>6. WaitsStarted
  BY <1>2 DEF WaitsStarted, FieldsInv, EnteredOK, StartedOK
<1> QED BY <1>1, <1>2, <1>3, <1>5, <1>6, EntriesStay, LivesStay, CalmKeeps

\* Permissions are lost and never gained by every step.
LEMMA StepFields ==
  ASSUME TypesInv, CallsInv, FieldsInv, Next
  PROVE  FieldsInv' /\ Shrunk
<1>0. TypesInv' /\ CallsInv'
  BY StepCalls
<1>1. ASSUME NEW b \in Blocks, ResolverReturnsValue(b) PROVE FieldsInv' /\ Shrunk
  BY <1>0, <1>1, ResolverReturnsValueFields
<1>2. ASSUME NEW b \in Blocks, ResolverReturnsPromise(b) PROVE FieldsInv' /\ Shrunk
  BY <1>0, <1>2, ResolverReturnsPromiseFields
<1>3. ASSUME NEW b \in Blocks, BlockTakesResult(b) PROVE FieldsInv' /\ Shrunk
  BY <1>0, <1>3, BlockTakesResultFields
<1>4. ASSUME NEW b \in Blocks, FinalizeComplete(b) PROVE FieldsInv' /\ Shrunk
  BY <1>0, <1>4, FinalizeCompleteFields
<1>5. ASSUME NEW b \in Blocks, FinalizeSuspends(b) PROVE FieldsInv' /\ Shrunk
  BY <1>0, <1>5, FinalizeSuspendsFields
<1>6. ASSUME NEW b \in Blocks, FinalizeReturns(b) PROVE FieldsInv' /\ Shrunk
  BY <1>0, <1>6, FinalizeReturnsFields
<1>7. ASSUME NEW b \in Blocks, ProcessMoves(b) PROVE FieldsInv' /\ Shrunk
  BY <1>0, <1>7, ProcessMovesFields
<1>8. ASSUME NEW b \in Blocks, ProcessConsumes(b) PROVE FieldsInv' /\ Shrunk
  BY <1>0, <1>8, ProcessConsumesFields
<1>9. ASSUME NEW b \in Blocks, ProcessTakesResult(b) PROVE FieldsInv' /\ Shrunk
  BY <1>0, <1>9, ProcessTakesResultFields
<1>10. ASSUME NEW b \in Blocks, ProcessEnds(b) PROVE FieldsInv' /\ Shrunk
  BY <1>0, <1>10, ProcessEndsFields
<1>11. ASSUME NEW b \in Blocks, ResolveFrame(b) PROVE FieldsInv' /\ Shrunk
  BY <1>0, <1>11, ResolveFrameFields
<1>12. ASSUME NEW b \in Blocks, SettleItem(b) PROVE FieldsInv' /\ Shrunk
  BY <1>0, <1>12, SettleItemFields
<1>13. ASSUME NEW f \in Fields, ItemIsValue(f) PROVE FieldsInv' /\ Shrunk
  BY <1>0, <1>13, ItemIsValueFields
<1>14. ASSUME NEW f \in Fields, ItemIsPromise(f) PROVE FieldsInv' /\ Shrunk
  BY <1>0, <1>14, ItemIsPromiseFields
<1>15. ASSUME NEW f \in Fields, ListTakesResult(f) PROVE FieldsInv' /\ Shrunk
  BY <1>0, <1>15, ListTakesResultFields
<1>16. ASSUME NEW f \in Fields, ListComplete(f) \/ ListPends(f) PROVE FieldsInv' /\ Shrunk
  BY <1>0, <1>16, ListReturnsFields
<1>17. ASSUME NEW f \in Fields, SettleEntry(f) PROVE FieldsInv' /\ Shrunk
  BY <1>0, <1>17, SettleEntryFields
<1>18. CASE DrainNext
  BY <1>0, <1>18, DrainNextFields
<1>19. CASE SettleTakesResult
  BY <1>0, <1>19, SettleTakesResultFields
<1>20. CASE SettleReturns
  BY <1>0, <1>20, SettleReturnsFields
<1>21. ASSUME NEW p \in Promises, SettlePromise(p) PROVE FieldsInv' /\ Shrunk
  BY <1>0, <1>21, SettlePromiseFields
<1>22. CASE Delivered
  BY <1>22, SameFields DEF Delivered
<1> QED BY <1>1, <1>2, <1>3, <1>4, <1>5, <1>6, <1>7, <1>8, <1>9, <1>10, <1>11, <1>12, <1>13,
           <1>14, <1>15, <1>16, <1>17, <1>18, <1>19, <1>20, <1>21, <1>22
        DEF Next, EngineStep

\* What the resumable executor may still do to a field or a block only shrinks:
\* a field has one entry, is written while it was not, a block is executed once,
\* its loop comes before its processing, and a position waits for its own
\* promise once (consume_current_result_now, process_frame, resolve_frame, the
\* callback pairs, list_pending_handle_sv).
THEOREM FieldsHold == Spec => []FieldsInv
<1>1. Init => TypesInv /\ CallsInv /\ FieldsInv
  BY InitCalls, InitFields
<1>2. TypesInv /\ CallsInv /\ FieldsInv /\ [Next]_vars => (TypesInv /\ CallsInv /\ FieldsInv)'
  BY StepCalls, SameCalls, StepFields, SameFields
<1> QED BY <1>1, <1>2, PTL DEF Spec

=============================================================================
