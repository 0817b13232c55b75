-------------------------- MODULE AsyncSchedulerCalls --------------------------
(***************************************************************************)
(* The C call stack of AsyncScheduler, for every selection: what its       *)
(* records are, who calls whom, how far each loop has come, and that at    *)
(* most one drain runs.  The other proofs about AsyncScheduler rest on     *)
(* CallsHold.                                                              *)
(***************************************************************************)
EXTENDS AsyncScheduler, FiniteSetTheorems, SequenceTheorems, TLAPS

(* Types of the call stack *)

BlockCalls == [at : {"block"}, block : Blocks, index : Nat]
ListCalls == [at : {"list"}, field : Lists, index : Nat]
DrainCalls == [at : {"drain"}]
ProcessCalls ==
  [at : {"process"}, block : Blocks, index : Nat, next : Seq(EntrySet)]
ResolveCalls == [at : {"resolve"}, block : Blocks]
SettleCalls ==
  [at : {"settle"}, waiting : SUBSET Positions, current : Items \cup {None}]
Calls == BlockCalls \cup ListCalls \cup DrainCalls \cup ProcessCalls
           \cup ResolveCalls \cup SettleCalls

Results ==
  [kind : {"frame"}, of : Blocks, null : BOOLEAN]
    \cup [kind : {"list"}, of : Lists, null : BOOLEAN]
    \cup [kind : {"outcome"}, of : {None}, null : BOOLEAN]

ItemSet == [value : {"none", "null", "value"},
            promised : BOOLEAN, carries : BOOLEAN]

\* TypeOK without the counts of list items, with the call stack.
TypesInv ==
  /\ answer \in [Positions -> AnswerSet]
  /\ promise \in [Promises -> {"pending", "settled"}]
  /\ subs \in [Promises -> SUBSET Positions]
  /\ entries \in [Blocks -> Seq(EntrySet)]
  /\ unresolved \in [Blocks -> Nat]
  /\ life \in [Blocks -> {"none", "running", "suspended", "done"}]
  /\ nulled \in [Blocks -> BOOLEAN]
  /\ link \in [Blocks -> Nat]
  /\ ctx \in [Fields -> Nat]
  /\ item \in [Items -> ItemSet]
  /\ owned \subseteq Lists
  /\ ready \in Seq(Blocks \cup {None})
  /\ draining \in BOOLEAN
  /\ stack \in Seq(Calls)
  /\ ret \in Results \cup {None}
  /\ values \in [Fields -> {"unset", "null", "value"}]
  /\ errors \in [{"raised", "nonnull"} \X Positions -> Nat]
  /\ response \in {None, "data", "null"}

-----------------------------------------------------------------------------
(* Who calls whom *)

Depths == 1 .. Len(stack)
At(n, at) == n \in Depths /\ stack[n].at = at

\* The loop of call n waits for what it called to complete a field or an item.
Calling(n) ==
  IF n = Len(stack) THEN ret # None ELSE stack[n + 1].at \in {"block", "list"}

\* The field that the loop of call n is completing.
FieldOf(n) ==
  IF stack[n].at = "block" THEN Ops[stack[n].block][stack[n].index + 1]
  ELSE entries[stack[n].block][stack[n].index + 1].field

IsChild(b, f) == f \notin Lists /\ Children[f] # <<>> /\ Children[f][1] = b

\* Call n completes a field or an item by executing block b.
Executes(n, b) ==
  \/ (At(n, "block") \/ At(n, "process")) /\ IsChild(b, FieldOf(n))
  \/ /\ At(n, "list") /\ stack[n].index < Len(Children[stack[n].field])
     /\ Children[stack[n].field][stack[n].index + 1] = b
  \/ At(n, "settle") /\ stack[n].current = b

\* Call n completes the list-typed field f.
Completing(n, f) == (At(n, "block") \/ At(n, "process")) /\ FieldOf(n) = f

\* The loop of call n is at something it has not done yet.
Within(n) ==
  /\ At(n, "block") => stack[n].index < Len(Ops[stack[n].block])
  /\ At(n, "list") => stack[n].index < Len(Children[stack[n].field])
  /\ At(n, "process") => stack[n].index < Len(entries[stack[n].block])
  /\ At(n, "settle") => stack[n].current # None

\* How far a loop has come.
IndexOK(n) ==
  /\ At(n, "block") => stack[n].index <= Len(Ops[stack[n].block]) + 2
  /\ At(n, "list") => stack[n].index <= Len(Children[stack[n].field])
  /\ At(n, "process") => /\ stack[n].index <= Len(entries[stack[n].block])
                         /\ Len(stack[n].next) <= stack[n].index
  /\ Calling(n) => Within(n)

CallerOK(n) ==
  /\ At(n, "block") =>
       IF n = 1 THEN stack[n].block \in Roots ELSE Executes(n - 1, stack[n].block)
  /\ At(n, "list") => n > 1 /\ Completing(n - 1, stack[n].field)
  /\ At(n, "drain") => n > 1 /\ (At(n - 1, "block") \/ At(n - 1, "settle"))
  /\ At(n, "process") \/ At(n, "resolve") => n > 1 /\ At(n - 1, "drain")
  /\ At(n, "settle") => n = 1 \/ At(n - 1, "block")

\* What was returned answers what the innermost loop asked for.
ReturnOK ==
  ret # None =>
    LET n == Len(stack) IN
    /\ \/ At(n, "block") \/ At(n, "list") \/ At(n, "process") \/ At(n, "settle")
    /\ ret.kind = "frame" => Executes(n, ret.of)
    /\ ret.kind = "list" => Completing(n, ret.of)

\* One drain at a time.
OneDrain ==
  /\ \A m, n \in Depths : At(m, "drain") /\ At(n, "drain") => m = n
  /\ draining <=> \E n \in Depths : At(n, "drain")

CallsInv ==
  /\ \A n \in Depths : IndexOK(n) /\ CallerOK(n)
  /\ ReturnOK
  /\ OneDrain

-----------------------------------------------------------------------------
(* The selection *)

\* Every field is at one position of its home block, and only there.
LEMMA HomeFacts ==
  /\ \A f \in Fields : Home(f) \in Blocks
  /\ \A f \in Fields : \E i \in 1 .. Len(Ops[Home(f)]) : Ops[Home(f)][i] = f
  /\ \A b \in Blocks : \A i \in 1 .. Len(Ops[b]) :
       Ops[b][i] \in Fields /\ Home(Ops[b][i]) = b
<1>1. \A b \in Blocks : Ops[b] \in Seq(Fields) /\ Len(Ops[b]) \in Nat
                        /\ DOMAIN Ops[b] = 1 .. Len(Ops[b])
  BY TypesAssumption
<1>2. \A b \in Blocks : \A f : f \in Range(Ops[b]) <=> \E i \in 1 .. Len(Ops[b]) : Ops[b][i] = f
  BY <1>1 DEF Range
<1>3. \A f \in Fields : \E b \in Blocks : f \in Range(Ops[b])
  BY <1>2, TreeAssumption
<1>4. \A f \in Fields : Home(f) \in Blocks /\ f \in Range(Ops[Home(f)])
  BY <1>3 DEF Home
<1>5. ASSUME NEW b \in Blocks, NEW i \in 1 .. Len(Ops[b])
      PROVE  Ops[b][i] \in Fields /\ Home(Ops[b][i]) = b
  <2>1. Ops[b][i] \in Fields
    BY <1>1
  <2>2. PICK j \in 1 .. Len(Ops[Home(Ops[b][i])]) : Ops[Home(Ops[b][i])][j] = Ops[b][i]
    BY <2>1, <1>4, <1>2
  <2>3. Home(Ops[b][i]) = b
    BY <2>1, <2>2, <1>4, TreeAssumption
  <2> QED BY <2>1, <2>3
<1> QED BY <1>2, <1>4, <1>5

\* The children of a field are blocks; those of a list are items.
LEMMA ChildFacts ==
  /\ \A f \in Fields : Children[f] \in Seq(Blocks) /\ Len(Children[f]) \in Nat
  /\ \A f \in Fields : \A i \in 1 .. Len(Children[f]) : Children[f][i] \in Blocks
  /\ \A f \in Lists : \A i \in 1 .. Len(Children[f]) : Children[f][i] \in Items
  /\ \A f \in Fields : Children[f] # <<>> => 1 \in 1 .. Len(Children[f])
  /\ \A b \in Items : /\ ListOf(b) \in Lists /\ ListOf(b) \in Fields /\ b \in Blocks
                      /\ \E i \in 1 .. Len(Children[ListOf(b)]) :
                           Children[ListOf(b)][i] = b
  /\ Items \cap Roots = {}
<1>1. \A f \in Fields : Children[f] \in Seq(Blocks) /\ Len(Children[f]) \in Nat
                        /\ DOMAIN Children[f] = 1 .. Len(Children[f])
  BY TypesAssumption
<1>2. \A f \in Fields : \A b : b \in Range(Children[f])
                           <=> \E i \in 1 .. Len(Children[f]) : Children[f][i] = b
  BY <1>1 DEF Range
<1>3. \A f \in Fields : \A i \in 1 .. Len(Children[f]) : Children[f][i] \in Blocks
  BY <1>1
<1>4. Lists \subseteq Fields
  BY TypesAssumption
<1>5. \A f \in Lists : \A i \in 1 .. Len(Children[f]) : Children[f][i] \in Items
  BY ZenonT(60), <1>2, <1>4 DEF Items
<1>6. \A b \in Items : \E f \in Lists : b \in Range(Children[f])
  BY DEF Items
<1>7. \A b \in Items : ListOf(b) \in Lists /\ b \in Range(Children[ListOf(b)])
  BY <1>6 DEF ListOf
<1>10. \A b \in Items : \E i \in 1 .. Len(Children[ListOf(b)]) : Children[ListOf(b)][i] = b
  BY <1>7, <1>2, <1>4
<1>8. \A b \in Items : b \in Blocks /\ b \notin Roots
  <2>1. SUFFICES ASSUME NEW b \in Items PROVE b \in Blocks /\ b \notin Roots
    OBVIOUS
  <2>2. PICK f \in Fields : f = ListOf(b)
    BY <1>7, <1>4
  <2>3. PICK i \in 1 .. Len(Children[f]) : Children[f][i] = b
    BY <2>2, <1>10
  <2> QED BY <2>3, <1>3, TreeAssumption
<1>9. \A f \in Fields : Children[f] # <<>> => 1 \in 1 .. Len(Children[f])
  BY <1>1
<1> QED BY <1>1, <1>3, <1>4, <1>5, <1>7, <1>8, <1>9, <1>10

-----------------------------------------------------------------------------
(* Records and the call stack *)

\* A call is of one kind, and its fields are those of its kind.
LEMMA CallTypes ==
  ASSUME NEW a \in Calls
  PROVE  /\ a.at \in {"block", "list", "drain", "process", "resolve", "settle"}
         /\ a.at = "block" => a.block \in Blocks /\ a.index \in Nat
         /\ a.at = "list" => a.field \in Lists /\ a.index \in Nat
         /\ a.at = "process" => /\ a.block \in Blocks /\ a.index \in Nat
                                /\ a.next \in Seq(EntrySet)
         /\ a.at = "resolve" => a.block \in Blocks
         /\ a.at = "settle" => /\ a.waiting \subseteq Positions
                               /\ a.current \in Items \cup {None}
<1>1. CASE a \in BlockCalls
  BY <1>1 DEF BlockCalls
<1>2. CASE a \in ListCalls
  BY <1>2 DEF ListCalls
<1>3. CASE a \in DrainCalls
  BY <1>3 DEF DrainCalls
<1>4. CASE a \in ProcessCalls
  BY <1>4 DEF ProcessCalls
<1>5. CASE a \in ResolveCalls
  BY <1>5 DEF ResolveCalls
<1>6. CASE a \in SettleCalls
  BY <1>6 DEF SettleCalls
<1> QED BY <1>1, <1>2, <1>3, <1>4, <1>5, <1>6 DEF Calls

\* The calls the actions make.
LEMMA MadeCalls ==
  /\ \A b \in Blocks, i \in Nat : OpLoop(b, i) \in Calls
  /\ \A f \in Lists, i \in Nat : ItemLoop(f, i) \in Calls
  /\ DrainLoop \in Calls
  /\ \A b \in Blocks, i \in Nat, next \in Seq(EntrySet) : ProcessLoop(b, i, next) \in Calls
  /\ \A b \in Blocks : ResolveCall(b) \in Calls
  /\ \A w \in SUBSET Positions, c \in Items \cup {None} : SettleLoop(w, c) \in Calls
<1>1. \A b \in Blocks, i \in Nat : OpLoop(b, i) \in BlockCalls
  BY DEF OpLoop, BlockCalls
<1>2. \A f \in Lists, i \in Nat : ItemLoop(f, i) \in ListCalls
  BY DEF ItemLoop, ListCalls
<1>3. DrainLoop \in DrainCalls
  BY DEF DrainLoop, DrainCalls
<1>4. \A b \in Blocks, i \in Nat, next \in Seq(EntrySet) : ProcessLoop(b, i, next) \in ProcessCalls
  BY DEF ProcessLoop, ProcessCalls
<1>5. \A b \in Blocks : ResolveCall(b) \in ResolveCalls
  BY DEF ResolveCall, ResolveCalls
<1>6. \A w \in SUBSET Positions, c \in Items \cup {None} : SettleLoop(w, c) \in SettleCalls
  BY DEF SettleLoop, SettleCalls
<1> QED BY <1>1, <1>2, <1>3, <1>4, <1>5, <1>6 DEF Calls

\* What the records that are made hold.
LEMMA MadeBlock ==
  ASSUME NEW b, NEW i
  PROVE  OpLoop(b, i).at = "block" /\ OpLoop(b, i).block = b /\ OpLoop(b, i).index = i
BY DEF OpLoop

\* The record of a list's item loop.
LEMMA MadeList ==
  ASSUME NEW f, NEW i
  PROVE  ItemLoop(f, i).at = "list" /\ ItemLoop(f, i).field = f /\ ItemLoop(f, i).index = i
BY DEF ItemLoop

\* The record of a process_frame call.
LEMMA MadeProcess ==
  ASSUME NEW b, NEW i, NEW next
  PROVE  /\ ProcessLoop(b, i, next).at = "process" /\ ProcessLoop(b, i, next).block = b
         /\ ProcessLoop(b, i, next).index = i /\ ProcessLoop(b, i, next).next = next
BY DEF ProcessLoop

\* The record of the callbacks of one settled promise.
LEMMA MadeSettle ==
  ASSUME NEW w, NEW c
  PROVE  /\ SettleLoop(w, c).at = "settle" /\ SettleLoop(w, c).waiting = w
         /\ SettleLoop(w, c).current = c
BY DEF SettleLoop

\* The records of drain_scheduler and resolve_frame.
LEMMA MadeOthers ==
  /\ DrainLoop.at = "drain"
  /\ \A b \in Blocks : ResolveCall(b).at = "resolve" /\ ResolveCall(b).block = b
BY DEF DrainLoop, ResolveCall

\* What was called last is the last of the stack.
LEMMA InnermostFacts ==
  ASSUME TypesInv
  PROVE  /\ Len(stack) \in Nat /\ stack \in Seq(Calls)
         /\ \A n \in 1 .. Len(stack) : stack[n] \in Calls
         /\ \A at : Running(at) <=> Len(stack) # 0 /\ Innermost.at = at
         /\ Innermost = stack[Len(stack)]
         /\ Len(stack) # 0 => /\ Len(stack) \in 1 .. Len(stack)
                              /\ Innermost \in Calls
BY DEF TypesInv, Running, Innermost

SameBelow(k) == \A n \in 1 .. k : stack'[n] = stack[n]

\* The four ways a step changes the call stack.
Becomes(t) == /\ stack # <<>> /\ Len(stack') = Len(stack)
              /\ SameBelow(Len(stack) - 1) /\ stack'[Len(stack)] = t
Enters(t) == /\ Len(stack') = Len(stack) + 1 /\ SameBelow(Len(stack))
             /\ stack'[Len(stack) + 1] = t
Leaves == /\ stack # <<>> /\ Len(stack') = Len(stack) - 1
          /\ SameBelow(Len(stack) - 1)
BecomesAndEnters(t, u) ==
  /\ stack # <<>> /\ Len(stack') = Len(stack) + 1
  /\ SameBelow(Len(stack) - 1)
  /\ stack'[Len(stack)] = t /\ stack'[Len(stack) + 1] = u

\* The innermost call goes on: the stack below it stays.
LEMMA TopFacts ==
  ASSUME TypesInv, stack # <<>>, NEW t \in Calls, stack' = Top(t)
  PROVE  stack' \in Seq(Calls) /\ Becomes(t)
BY DEF TypesInv, Top, Becomes, SameBelow

\* A call is made: the stack below it stays.
LEMMA PushFacts ==
  ASSUME TypesInv, NEW t \in Calls, stack' = Push(t)
  PROVE  stack' \in Seq(Calls) /\ Enters(t)
BY DEF TypesInv, Push, Enters, SameBelow

\* The innermost call returns.
LEMMA PopFacts ==
  ASSUME TypesInv, stack # <<>>, stack' = Pop
  PROVE  stack' \in Seq(Calls) /\ Leaves
<1>1. stack \in Seq(Calls) /\ Len(stack) \in Nat /\ Len(stack) # 0
  BY DEF TypesInv
<1>2. /\ 1 \in 1 .. Len(stack) + 1 /\ Len(stack) - 1 \in 0 .. Len(stack)
      /\ Len(stack) - 1 - 1 + 1 = Len(stack) - 1
  BY <1>1
<1>3. /\ stack' \in Seq(Calls) /\ Len(stack') = Len(stack) - 1
      /\ \A n \in 1 .. Len(stack) - 1 : stack'[n] = stack[n]
  BY <1>1, <1>2 DEF Pop
<1> QED BY <1>1, <1>3 DEF Leaves, SameBelow

\* The innermost call goes on and makes a call.
LEMMA TopPushFacts ==
  ASSUME TypesInv, stack # <<>>, NEW t \in Calls, NEW u \in Calls,
         stack' = Append(Top(t), u)
  PROVE  stack' \in Seq(Calls) /\ BecomesAndEnters(t, u)
BY DEF TypesInv, Top, BecomesAndEnters, SameBelow

-----------------------------------------------------------------------------
(* What the four ways do to the calls                                      *)

\* The entries of the frames being processed up to depth k keep their fields.
Extends(k) ==
  \A n \in 1 .. k : At(n, "process") =>
    /\ Len(entries[stack[n].block]) <= Len(entries'[stack[n].block])
    /\ \A i \in 1 .. Len(entries[stack[n].block]) :
         entries'[stack[n].block][i].field = entries[stack[n].block][i].field

\* Calls that stay where they are stand where they stood.
LEMMA CallsKept ==
  ASSUME TypesInv, TypesInv', CallsInv, NEW k \in Nat,
         k <= Len(stack), k <= Len(stack'), SameBelow(k), Extends(k)
  PROVE  /\ \A n \in 1 .. k : CallerOK(n)'
         /\ \A n \in 1 .. k : n < k \/ ~Calling(n)' \/ Calling(n) => IndexOK(n)'
         /\ \A n \in 1 .. k : \A at : At(n, at)' <=> At(n, at)
         /\ \A n \in 1 .. k : Calling(n) => Within(n)
         /\ \A n \in 1 .. k : Within(n) => Within(n)'
         /\ \A n \in 1 .. k : \A b : Within(n) /\ Executes(n, b) => Executes(n, b)'
         /\ \A n \in 1 .. k : \A f : Within(n) /\ Completing(n, f) => Completing(n, f)'
<1>1. /\ Len(stack) \in Nat /\ Len(stack') \in Nat
      /\ \A n \in 1 .. Len(stack) : stack[n] \in Calls
      /\ entries \in [Blocks -> Seq(EntrySet)] /\ entries' \in [Blocks -> Seq(EntrySet)]
  BY DEF TypesInv
<1>2. \A n \in 1 .. k : /\ stack'[n] = stack[n] /\ n \in Depths /\ n \in Depths'
                        /\ stack[n] \in Calls
  BY <1>1 DEF SameBelow, Depths
<1>3. \A n \in 1 .. k : \A at : At(n, at)' <=> At(n, at)
  BY <1>2 DEF At
<1>4. \A n \in 1 .. k : n < k => (Calling(n)' <=> Calling(n))
  BY <1>1, <1>2 DEF Calling
<1>11. \A n \in 1 .. k : Calling(n) => Within(n)
  BY <1>2 DEF CallsInv, IndexOK
<1>5. ASSUME NEW n \in 1 .. k, At(n, "block") \/ At(n, "process"), Within(n)
      PROVE  FieldOf(n)' = FieldOf(n)
  <2>1. CASE At(n, "block")
    BY <1>2, <2>1 DEF FieldOf, At
  <2>2. CASE At(n, "process")
    <3>1. /\ stack[n].index < Len(entries[stack[n].block]) /\ stack[n].index \in Nat
          /\ stack[n].block \in Blocks
      BY <1>5, <1>2, <2>2, CallTypes DEF Within, At
    <3>2. stack[n].index + 1 \in 1 .. Len(entries[stack[n].block])
      BY <3>1, <1>1
    <3>3. /\ FieldOf(n) = entries[stack[n].block][stack[n].index + 1].field
          /\ FieldOf(n)' = entries'[stack[n].block][stack[n].index + 1].field
      BY <1>2, <2>2 DEF FieldOf, At
    <3> QED BY <2>2, <3>2, <3>3 DEF Extends
  <2> QED BY <1>5, <2>1, <2>2
<1>6. ASSUME NEW n \in 1 .. k, NEW b, Within(n), Executes(n, b)
      PROVE  Executes(n, b)'
  <2>1. CASE At(n, "block") \/ At(n, "process")
    <3>1. ~At(n, "list") /\ ~At(n, "settle")
      BY <2>1 DEF At
    <3>2. FieldOf(n)' = FieldOf(n) /\ IsChild(b, FieldOf(n))
      BY <2>1, <3>1, <1>5, <1>6 DEF Executes
    <3> QED BY <2>1, <3>2, <1>3 DEF Executes, IsChild
  <2>2. CASE ~(At(n, "block") \/ At(n, "process"))
    BY <2>2, <1>2, <1>3, <1>6 DEF Executes
  <2> QED BY <2>1, <2>2
<1>7. ASSUME NEW n \in 1 .. k, NEW f, Within(n), Completing(n, f)
      PROVE  Completing(n, f)'
  BY <1>3, <1>5, <1>7 DEF Completing
<1>8. ASSUME NEW n \in 1 .. k
      PROVE  CallerOK(n)'
  <2>1. CallerOK(n) /\ n \in 1 .. Len(stack)
    BY <1>2 DEF CallsInv, Depths
  <2>2. n > 1 => n - 1 \in 1 .. k
    BY <1>1
  <2>3. n > 1 /\ stack[n].at \in {"block", "list"} => Within(n - 1)
    BY <1>1, <1>11, <2>1, <2>2 DEF Calling
  <2>4. CASE At(n, "block")
    <3>1. n = 1 => stack[n].block \in Roots
      BY <2>1, <2>4 DEF CallerOK
    <3>2. n # 1 => Executes(n - 1, stack[n].block)'
      <4>1. SUFFICES ASSUME n # 1 PROVE Executes(n - 1, stack[n].block)'
        OBVIOUS
      <4>2. PICK c : c = stack[n].block
        OBVIOUS
      <4>3. Executes(n - 1, c)
        BY <2>1, <2>4, <4>1, <4>2 DEF CallerOK
      <4>4. Executes(n - 1, c)'
        BY <1>6, <2>2, <2>3, <2>4, <4>1, <4>3 DEF At
      <4>5. stack'[n].block = c
        BY <1>2, <4>2
      <4> QED BY <4>4, <4>5 DEF Executes, IsChild, FieldOf, At
    <3>3. stack'[n] = stack[n] /\ ~At(n, "list")' /\ ~At(n, "drain")' /\ ~At(n, "process")'
          /\ ~At(n, "resolve")' /\ ~At(n, "settle")'
      BY <1>2, <2>4 DEF At
    <3> QED BY <3>1, <3>2, <3>3 DEF CallerOK
  <2>5. CASE At(n, "list")
    <3>1. n > 1 /\ Completing(n - 1, stack[n].field)
      BY <2>1, <2>5 DEF CallerOK
    <3>2. PICK c : c = stack[n].field
      OBVIOUS
    <3>3. Completing(n - 1, c)'
      BY <1>7, <2>2, <2>3, <2>5, <3>1, <3>2 DEF At
    <3>4. stack'[n].field = c /\ stack'[n] = stack[n]
      BY <1>2, <3>2
    <3>5. ~At(n, "block")' /\ ~At(n, "drain")' /\ ~At(n, "process")'
          /\ ~At(n, "resolve")' /\ ~At(n, "settle")'
      BY <1>2, <2>5 DEF At
    <3> QED BY <3>1, <3>3, <3>4, <3>5 DEF CallerOK, Completing, FieldOf, At
  <2>6. CASE ~At(n, "block") /\ ~At(n, "list")
    <3>1. ~At(n, "block")' /\ ~At(n, "list")'
      BY <1>3, <2>6
    <3>2. n > 1 => \A at : At(n - 1, at)' <=> At(n - 1, at)
      BY <1>3, <2>2
    <3>3. \A at : At(n, at)' <=> At(n, at)
      BY <1>3
    <3> QED BY <2>1, <3>1, <3>2, <3>3 DEF CallerOK
  <2> QED BY <2>4, <2>5, <2>6
<1>10. ASSUME NEW n \in 1 .. k, Within(n)
       PROVE  Within(n)'
  <2>1. stack'[n] = stack[n] /\ (\A at : At(n, at)' <=> At(n, at))
    BY <1>2, <1>3
  <2>2. At(n, "process") => /\ stack[n].index \in Nat /\ stack[n].block \in Blocks
                            /\ Len(entries[stack[n].block]) \in Nat
                            /\ Len(entries'[stack[n].block]) \in Nat
                            /\ Len(entries[stack[n].block]) <= Len(entries'[stack[n].block])
    BY <1>1, <1>2, CallTypes DEF Extends, At
  <2> QED BY <1>10, <2>1, <2>2 DEF Within
<1>9. ASSUME NEW n \in 1 .. k, n < k \/ ~Calling(n)' \/ Calling(n)
      PROVE  IndexOK(n)'
  <2>1. IndexOK(n) /\ n \in 1 .. Len(stack) /\ (Calling(n)' => Calling(n))
    BY <1>2, <1>4, <1>9 DEF CallsInv, Depths
  <2>2. \A at : At(n, at)' <=> At(n, at)
    BY <1>3
  <2>3. stack'[n] = stack[n]
    BY <1>2
  <2>4. At(n, "process") => /\ stack[n].index \in Nat /\ stack[n].block \in Blocks
                            /\ Len(entries[stack[n].block]) \in Nat
                            /\ Len(entries'[stack[n].block]) \in Nat
                            /\ Len(entries[stack[n].block]) <= Len(entries'[stack[n].block])
    BY <1>1, <1>2, CallTypes DEF Extends, At
  <2>5. At(n, "process")' => /\ stack[n].index <= Len(entries'[stack[n].block])
                             /\ Len(stack[n].next) <= stack[n].index
    BY <2>1, <2>2, <2>4 DEF IndexOK
  <2>6. Calling(n)' => Within(n)'
    BY <2>1, <1>10, <1>11
  <2> QED BY <2>1, <2>2, <2>3, <2>5, <2>6 DEF IndexOK
<1> QED BY <1>3, <1>6, <1>7, <1>8, <1>9, <1>10, <1>11

\* t is the innermost call, further on; a process call may become the call that
\* resolves the frame.
SameCall(t) ==
  /\ t.at = Innermost.at \/ (t.at = "resolve" /\ Innermost.at = "process")
  /\ t.at = "block" => t.block = Innermost.block
  /\ t.at = "list" => t.field = Innermost.field

\* The index of call t is within bounds, with the entries es.
IndexFits(t, es) ==
  /\ t.at = "block" => t.index <= Len(Ops[t.block]) + 2
  /\ t.at = "list" => t.index <= Len(Children[t.field])
  /\ t.at = "process" => t.index <= Len(es[t.block]) /\ Len(t.next) <= t.index

\* Replacing the innermost call by itself, further on, keeps CallsInv of the
\* calls up to it.
LEMMA SameKeeps ==
  ASSUME TypesInv, TypesInv', CallsInv, NEW t \in Calls, stack # <<>>,
         Len(stack') = Len(stack) \/ Len(stack') = Len(stack) + 1,
         SameBelow(Len(stack) - 1), stack'[Len(stack)] = t,
         Extends(Len(stack) - 1), SameCall(t), IndexFits(t, entries'),
         NEW L \in Nat, L = Len(stack), Calling(L)' => Within(L)'
  PROVE  /\ \A n \in 1 .. L : IndexOK(n)' /\ CallerOK(n)'
         /\ \A n \in 1 .. L : At(n, "drain")' <=> At(n, "drain")
<1> DEFINE k == L - 1
<1>1. /\ L \in 1 .. L /\ k \in Nat /\ k <= Len(stack) /\ k <= Len(stack') /\ Len(stack') \in Nat
      /\ stack[L] \in Calls /\ Innermost = stack[L] /\ L # 0
  BY InnermostFacts DEF TypesInv
<1>2. /\ \A n \in 1 .. k : CallerOK(n)'
      /\ \A n \in 1 .. k : n < k \/ ~Calling(n)' \/ Calling(n) => IndexOK(n)'
      /\ \A n \in 1 .. k : \A at : At(n, at)' <=> At(n, at)
      /\ \A n \in 1 .. k : Calling(n) => Within(n)
      /\ \A n \in 1 .. k : \A b : Within(n) /\ Executes(n, b) => Executes(n, b)'
      /\ \A n \in 1 .. k : \A f : Within(n) /\ Completing(n, f) => Completing(n, f)'
  <2>1. SameBelow(k) /\ Extends(k)
    OBVIOUS
  <2>2. k \in Nat /\ k <= Len(stack) /\ k <= Len(stack')
    BY <1>1
  <2> HIDE DEF k
  <2> QED BY <2>1, <2>2, CallsKept
<1>3. /\ L \in Depths /\ L \in Depths' /\ stack'[L] = t
      /\ \A at : At(L, at) <=> Innermost.at = at
      /\ \A at : At(L, at)' <=> t.at = at
  BY <1>1 DEF At, Depths
<1>4. k # 0 => /\ k \in 1 .. k /\ (Calling(k)' <=> t.at \in {"block", "list"})
               /\ (Calling(k) <=> Innermost.at \in {"block", "list"})
  BY <1>1, <1>3 DEF Calling
<1>5. k # 0 => (Calling(k)' <=> Calling(k))
  BY <1>4 DEF SameCall
<1>6. CallerOK(L)
  BY <1>3 DEF CallsInv
<1>7. \A n \in 1 .. k : IndexOK(n)'
  BY <1>2, <1>4, <1>5, <1>1
<1>8. IndexOK(L)'
  BY <1>3 DEF IndexOK, IndexFits
<1>9. CallerOK(L)'
  <2>1. CASE t.at = "block"
    <3>1. PICK c : c = t.block
      OBVIOUS
    <3>2. Innermost.at = "block" /\ stack[L].block = c
      BY <2>1, <3>1, <1>1 DEF SameCall
    <3>3. CASE L = 1
      <4>1. c \in Roots
        BY <3>2, <3>3, <1>3, <1>6 DEF CallerOK
      <4> QED BY <4>1, <3>1, <3>3, <2>1, <1>3 DEF CallerOK
    <3>4. CASE L # 1
      <4>1. Executes(k, c)
        BY <3>2, <3>4, <1>3, <1>6 DEF CallerOK
      <4>2. k \in 1 .. k /\ Within(k)
        BY <3>2, <3>4, <1>1, <1>2, <1>4
      <4>3. Executes(k, c)'
        <5> HIDE DEF k
        <5> QED BY <4>1, <4>2, <1>2
      <4>4. Executes(L - 1, t.block)'
        BY <4>3, <3>1
      <4> QED BY <4>3, <3>1, <3>4, <2>1, <1>3 DEF CallerOK
    <3> QED BY <3>3, <3>4
  <2>2. CASE t.at = "list"
    <3>1. PICK c : c = t.field
      OBVIOUS
    <3>2. Innermost.at = "list" /\ stack[L].field = c
      BY <2>2, <3>1, <1>1 DEF SameCall
    <3>3. L > 1 /\ Completing(k, c)
      BY <3>2, <1>3, <1>6 DEF CallerOK
    <3>4. k \in 1 .. k /\ Within(k)
      BY <3>2, <3>3, <1>1, <1>2, <1>4
    <3>5. Completing(k, c)'
      <4> HIDE DEF k
      <4> QED BY <3>3, <3>4, <1>2
    <3> QED BY <3>3, <3>5, <3>1, <2>2, <1>3 DEF CallerOK
  <2>3. CASE t.at \notin {"block", "list"}
    <3>1. L > 1 => \A at : At(L - 1, at)' <=> At(L - 1, at)
      BY <1>1, <1>2
    <3> QED BY <3>1, <2>3, <1>3, <1>6 DEF CallerOK, SameCall
  <2> QED BY <2>1, <2>2, <2>3
<1>10. \A n \in 1 .. L : At(n, "drain")' <=> At(n, "drain")
  BY <1>1, <1>2, <1>3 DEF SameCall
<1>11. \A n \in 1 .. L : n = L \/ n \in 1 .. k
  BY <1>1
<1> QED BY <1>7, <1>8, <1>9, <1>2, <1>10, <1>11

\* A loop that goes to its next entry keeps the stack well formed.
LEMMA BecomesKeeps ==
  ASSUME TypesInv, TypesInv', CallsInv, NEW t \in Calls, Becomes(t),
         Extends(Len(stack) - 1), SameCall(t), IndexFits(t, entries'),
         ret' = None, draining' = draining
  PROVE  CallsInv'
<1>1. PICK L \in Nat : L = Len(stack)
  BY DEF TypesInv
<1>2. Len(stack') = L /\ stack # <<>> /\ L \in 1 .. L
  BY <1>1 DEF Becomes, TypesInv
<1>3. Calling(L)' => Within(L)'
  BY <1>2 DEF Calling
<1>4. /\ \A n \in 1 .. L : IndexOK(n)' /\ CallerOK(n)'
      /\ \A n \in 1 .. L : At(n, "drain")' <=> At(n, "drain")
  BY <1>1, <1>2, <1>3, SameKeeps DEF Becomes
<1>5. OneDrain'
  BY <1>1, <1>2, <1>4 DEF OneDrain, CallsInv, Depths
<1> QED BY <1>2, <1>4, <1>5 DEF CallsInv, ReturnOK, Depths

\* A loop that goes on and drains keeps it well formed, and that drain is the
\* only one.
LEMMA BecomesAndEntersDrain ==
  ASSUME TypesInv, TypesInv', CallsInv, NEW t \in Calls, BecomesAndEnters(t, DrainLoop),
         Extends(Len(stack) - 1), SameCall(t), IndexFits(t, entries'),
         t.at \in {"block", "settle"}, ret' = None, ~draining, draining'
  PROVE  CallsInv'
<1>1. PICK L \in Nat : L = Len(stack)
  BY DEF TypesInv
<1>2. /\ Len(stack') = L + 1 /\ stack # <<>> /\ L \in 1 .. L /\ L + 1 \in Depths'
      /\ stack'[L] = t /\ stack'[L + 1].at = "drain"
  BY <1>1, MadeOthers DEF BecomesAndEnters, TypesInv, Depths
<1>3. Calling(L)' => Within(L)'
  BY <1>2 DEF Calling
<1>4. /\ \A n \in 1 .. L : IndexOK(n)' /\ CallerOK(n)'
      /\ \A n \in 1 .. L : At(n, "drain")' <=> At(n, "drain")
  BY <1>1, <1>2, <1>3, SameKeeps DEF BecomesAndEnters
<1>5. \A at : At(L + 1, at)' <=> at = "drain"
  BY <1>2 DEF At
<1>6. At(L, "block")' \/ At(L, "settle")'
  BY <1>2 DEF At, Depths
<1>7. IndexOK(L + 1)' /\ CallerOK(L + 1)'
  <2>1. ~Calling(L + 1)'
    BY <1>2 DEF Calling
  <2>2. IndexOK(L + 1)'
    BY <2>1, <1>5 DEF IndexOK
  <2>3. L + 1 > 1 /\ L + 1 - 1 = L
    BY <1>2
  <2>4. CallerOK(L + 1)'
    BY <2>3, <1>5, <1>6 DEF CallerOK
  <2> QED BY <2>2, <2>4
<1>8. \A n \in 1 .. L : ~At(n, "drain")
  BY <1>1 DEF CallsInv, OneDrain, Depths
<1>9. Depths' = 1 .. (L + 1) /\ \A n \in 1 .. (L + 1) : n = L + 1 \/ n \in 1 .. L
  BY <1>2 DEF Depths
<1>10. OneDrain'
  BY <1>2, <1>4, <1>5, <1>8, <1>9 DEF OneDrain
<1> QED BY <1>4, <1>7, <1>9, <1>10 DEF CallsInv, ReturnOK

\* A list item's callback runs the item's block.
LEMMA BecomesAndEntersBlock ==
  ASSUME TypesInv, TypesInv', CallsInv, NEW t \in Calls, NEW b \in Items,
         BecomesAndEnters(t, OpLoop(b, 0)),
         Extends(Len(stack) - 1), SameCall(t), t.at = "settle", t.current = b,
         ret' = None, draining' = draining
  PROVE  CallsInv'
<1>1. PICK L \in Nat : L = Len(stack)
  BY DEF TypesInv
<1>2. /\ Len(stack') = L + 1 /\ stack # <<>> /\ L \in 1 .. L /\ L + 1 \in Depths'
      /\ stack'[L] = t /\ stack'[L + 1].at = "block" /\ stack'[L + 1].block = b
      /\ stack'[L + 1].index = 0
  BY <1>1, MadeBlock DEF BecomesAndEnters, TypesInv, Depths
<1>3. At(L, "settle")' /\ \A at : At(L, at)' <=> at = "settle"
  BY <1>2 DEF At, Depths
<1>4. b # None /\ b \in Blocks
  BY ChildFacts, TypesAssumption
<1>5. Within(L)' /\ Executes(L, b)'
  BY <1>2, <1>3, <1>4 DEF Within, Executes
<1>6. IndexFits(t, entries')
  BY DEF IndexFits
<1>7. /\ \A n \in 1 .. L : IndexOK(n)' /\ CallerOK(n)'
      /\ \A n \in 1 .. L : At(n, "drain")' <=> At(n, "drain")
  BY <1>1, <1>2, <1>5, <1>6, SameKeeps DEF BecomesAndEnters
<1>8. \A at : At(L + 1, at)' <=> at = "block"
  BY <1>2 DEF At
<1>9. IndexOK(L + 1)'
  <2>1. ~Calling(L + 1)'
    BY <1>2 DEF Calling
  <2>2. Len(Ops[b]) \in Nat
    BY <1>4, TypesAssumption
  <2> QED BY <2>1, <2>2, <1>2, <1>8 DEF IndexOK
<1>10. CallerOK(L + 1)'
  <2>1. Executes(L + 1 - 1, stack[L + 1].block)'
    BY <1>2, <1>3 DEF Executes
  <2> QED BY <2>1, <1>2, <1>8 DEF CallerOK
<1>11. Depths' = 1 .. (L + 1) /\ \A n \in 1 .. (L + 1) : n = L + 1 \/ n \in 1 .. L
  BY <1>2 DEF Depths
<1>12. OneDrain'
  BY <1>1, <1>7, <1>8, <1>11 DEF OneDrain, CallsInv, Depths
<1> QED BY <1>7, <1>9, <1>10, <1>11, <1>12 DEF CallsInv, ReturnOK

\* Call u is made by the innermost call, or by nobody.
CanEnter(u) ==
  \/ /\ u.at = "block" /\ u.index = 0 /\ stack # <<>>
     /\ Within(Len(stack)) /\ Executes(Len(stack), u.block)
  \/ /\ u.at = "list" /\ u.index = 0 /\ stack # <<>>
     /\ Within(Len(stack)) /\ Completing(Len(stack), u.field)
  \/ u.at = "process" /\ u.index = 0 /\ u.next = <<>> /\ Running("drain")
  \/ u.at = "settle" /\ (stack = <<>> \/ Running("block"))

\* A call that may be made there keeps it well formed.
LEMMA EntersKeeps ==
  ASSUME TypesInv, TypesInv', CallsInv, NEW u \in Calls, Enters(u), CanEnter(u),
         Extends(Len(stack)), ret' = None, draining' = draining
  PROVE  CallsInv'
<1>1. PICK L \in Nat : L = Len(stack)
  BY DEF TypesInv
<1>14. (L # 0 <=> stack # <<>>) /\ Len(stack') = L + 1
  BY <1>1 DEF Enters, TypesInv
<1>2. /\ Len(stack') = L + 1 /\ L + 1 \in Depths' /\ stack'[L + 1] = u
      /\ L # 0 <=> stack # <<>>
      /\ Depths' = 1 .. (L + 1) /\ Depths = 1 .. L
      /\ \A n \in 1 .. (L + 1) : n = L + 1 \/ n \in 1 .. L
  BY <1>1, <1>14 DEF Enters, Depths
<1>3. \A at : At(L + 1, at)' <=> u.at = at
  BY <1>2 DEF At
<1>4. u.at \in {"block", "list", "process", "settle"}
  BY DEF CanEnter
<1>5. /\ SameBelow(L) /\ Extends(L)
  BY <1>1 DEF Enters
<1>6. L # 0 => L \in 1 .. L /\ stack'[L] = stack[L] /\ stack[L] \in Calls /\ Innermost = stack[L]
               /\ stack[L].at = Innermost.at
  BY <1>1, <1>2, <1>5, InnermostFacts DEF SameBelow
<1>7. L # 0 => (\A at : At(L, at)' <=> At(L, at)) /\ (\A at : At(L, at) <=> Innermost.at = at)
  BY <1>2, <1>6 DEF At
<1>8. /\ \A n \in 1 .. L : Within(n) => Within(n)'
      /\ \A n \in 1 .. L : \A b : Within(n) /\ Executes(n, b) => Executes(n, b)'
      /\ \A n \in 1 .. L : \A f : Within(n) /\ Completing(n, f) => Completing(n, f)'
  BY <1>1, <1>2, <1>5, CallsKept
<1>9. ASSUME L # 0
      PROVE  /\ \A n \in 1 .. L : IndexOK(n)' /\ CallerOK(n)'
             /\ \A n \in 1 .. L : At(n, "drain")' <=> At(n, "drain")
  <2>1. SameCall(Innermost) /\ SameBelow(L - 1) /\ Extends(L - 1)
    BY SMTT(40), <1>5 DEF SameCall, SameBelow, Extends
  <2>2. Calling(L)' => Within(L)'
    <3>1. Calling(L)' => u.at \in {"block", "list"}
      BY <1>2 DEF Calling
    <3>2. u.at \in {"block", "list"} => Within(L)
      BY <1>1 DEF CanEnter
    <3>3. Within(L) => Within(L)'
      BY <1>8, <1>6, <1>9
    <3> QED BY <3>1, <3>2, <3>3
  <2>3. IndexFits(Innermost, entries')
    <3>1. IndexOK(L)
      BY <1>2, <1>6, <1>9 DEF CallsInv
    <3>2. Innermost.at = "process" =>
            /\ Innermost.block \in Blocks /\ Innermost.index \in Nat
            /\ Len(entries[Innermost.block]) <= Len(entries'[Innermost.block])
            /\ Len(entries[Innermost.block]) \in Nat /\ Len(entries'[Innermost.block]) \in Nat
      <4>1. Innermost.at = "process" => Innermost.block \in Blocks /\ Innermost.index \in Nat
        BY <1>6, <1>9, CallTypes
      <4>2. Innermost.at = "process" => Len(entries[Innermost.block]) <= Len(entries'[Innermost.block])
        BY <1>5, <1>6, <1>7, <1>9 DEF Extends
      <4>3. \A c \in Blocks : Len(entries[c]) \in Nat /\ Len(entries'[c]) \in Nat
        BY DEF TypesInv
      <4> QED BY <4>1, <4>2, <4>3
    <3> QED BY <3>1, <3>2, <1>6, <1>7, <1>9 DEF IndexFits, IndexOK
  <2>4. stack'[L] = Innermost /\ Innermost \in Calls /\ stack # <<>>
    BY <1>2, <1>6, <1>9
  <2> QED BY <1>1, <1>2, <2>1, <2>2, <2>3, <2>4, SameKeeps
<1>10. \A n \in 1 .. L : /\ IndexOK(n)' /\ CallerOK(n)'
                         /\ At(n, "drain")' <=> At(n, "drain")
  BY <1>9
<1>11. IndexOK(L + 1)'
  <2>1. ~Calling(L + 1)'
    BY <1>2 DEF Calling
  <2>2. u.at = "block" => u.index = 0 /\ Len(Ops[u.block]) \in Nat
    BY CallTypes, TypesAssumption DEF CanEnter
  <2>3. u.at = "list" => u.index = 0 /\ Len(Children[u.field]) \in Nat
    BY CallTypes, TypesAssumption DEF CanEnter
  <2>4. u.at = "process" => u.index = 0 /\ Len(u.next) = 0 /\ Len(entries'[u.block]) \in Nat
    BY CallTypes DEF CanEnter, TypesInv
  <2> QED BY <2>1, <2>2, <2>3, <2>4, <1>2, <1>3 DEF IndexOK
<1>12. CallerOK(L + 1)'
  <2>0. L + 1 - 1 = L /\ (L # 0 <=> L + 1 > 1) /\ (L = 0 <=> L + 1 = 1)
    BY <1>1
  <2>1. CASE u.at = "block"
    <3>1. PICK c : c = u.block
      OBVIOUS
    <3>2. L # 0 /\ Within(L) /\ Executes(L, c)
      BY <2>1, <3>1, <1>1, <1>2 DEF CanEnter
    <3>3. Executes(L, c)'
      BY <3>2, <1>6, <1>8
    <3>4. Executes(L + 1 - 1, stack[L + 1].block)'
      BY <3>1, <3>3, <1>2, <2>0
    <3> QED BY <3>2, <3>4, <2>1, <2>0, <1>3 DEF CallerOK
  <2>2. CASE u.at = "list"
    <3>1. PICK c : c = u.field
      OBVIOUS
    <3>2. L # 0 /\ Within(L) /\ Completing(L, c)
      BY <2>2, <3>1, <1>1, <1>2 DEF CanEnter
    <3>3. Completing(L, c)'
      BY <3>2, <1>6, <1>8
    <3>4. Completing(L + 1 - 1, stack[L + 1].field)'
      BY <3>1, <3>3, <1>2, <2>0
    <3> QED BY <3>2, <3>4, <2>2, <2>0, <1>3 DEF CallerOK
  <2>3. CASE u.at = "process"
    <3>1. L # 0 /\ Innermost.at = "drain"
      BY <2>3, <1>2 DEF CanEnter, Running
    <3>2. At(L, "drain")'
      BY <3>1, <1>7
    <3> QED BY <3>1, <3>2, <2>3, <2>0, <1>3 DEF CallerOK
  <2>4. CASE u.at = "settle"
    <3>1. L = 0 \/ (L # 0 /\ Innermost.at = "block")
      BY <2>4, <1>2 DEF CanEnter, Running
    <3>2. L = 0 \/ At(L, "block")'
      BY <3>1, <1>7
    <3> QED BY <3>2, <2>4, <2>0, <1>3 DEF CallerOK
  <2> QED BY <2>1, <2>2, <2>3, <2>4, <1>4
<1>13. OneDrain'
  BY <1>2, <1>3, <1>4, <1>10 DEF OneDrain, CallsInv
<1> QED BY <1>2, <1>10, <1>11, <1>12, <1>13 DEF CallsInv, ReturnOK

\* The innermost call returns to its caller what it was called for, or nothing.
CanReturn ==
  \/ ret' = None
  \/ /\ Running("block") /\ Innermost.block \notin Roots
     /\ ret'.kind # "list"
     /\ ret'.kind = "frame" => ret'.of = Innermost.block
  \/ /\ Running("list")
     /\ ret'.kind # "frame"
     /\ ret'.kind = "list" => ret'.of = Innermost.field

\* A call that returns what its caller waits for keeps it well formed; the
\* end of the drain clears the flag.
LEMMA LeavesKeeps ==
  ASSUME TypesInv, TypesInv', CallsInv, Leaves, Extends(Len(stack) - 1),
         IF Running("drain") THEN ret' = None /\ draining' = FALSE
         ELSE CanReturn /\ draining' = draining
  PROVE  CallsInv'
<1>1. PICK L \in Nat : L = Len(stack)
  BY DEF TypesInv
<1>2. stack # <<>> /\ Len(stack') = L - 1 /\ SameBelow(L - 1) /\ L # 0
  BY <1>1 DEF Leaves, TypesInv
<1>3. PICK k \in Nat : k = L - 1
  BY <1>2
<1>4. /\ Depths' = 1 .. k /\ Depths = 1 .. L /\ L = k + 1
      /\ \A n \in 1 .. L : n = L \/ n \in 1 .. k
      /\ \A n \in 1 .. k : n \in 1 .. L /\ n # L
  BY <1>1, <1>2, <1>3 DEF Depths
<1>5. /\ stack[L] \in Calls /\ Innermost = stack[L]
      /\ \A at : At(L, at) <=> Innermost.at = at
      /\ \A at : Running(at) <=> Innermost.at = at
  BY <1>1, <1>2, <1>4, InnermostFacts DEF At, Depths
<1>6. /\ \A n \in 1 .. k : CallerOK(n)'
      /\ \A n \in 1 .. k : n < k \/ ~Calling(n)' \/ Calling(n) => IndexOK(n)'
      /\ \A n \in 1 .. k : \A at : At(n, at)' <=> At(n, at)
      /\ \A n \in 1 .. k : Calling(n) => Within(n)
      /\ \A n \in 1 .. k : \A b : Within(n) /\ Executes(n, b) => Executes(n, b)'
      /\ \A n \in 1 .. k : \A f : Within(n) /\ Completing(n, f) => Completing(n, f)'
  BY <1>1, <1>2, <1>3, CallsKept
<1>7. k # 0 => k \in 1 .. k /\ (Calling(k) <=> Innermost.at \in {"block", "list"})
  BY <1>1, <1>2, <1>4, <1>5 DEF Calling
<1>8. CallerOK(L)
  BY <1>4 DEF CallsInv
<1>9. ASSUME ret' # None
      PROVE  /\ k # 0 /\ Calling(k) /\ k \in 1 .. k
             /\ Running("block") \/ Running("list")
             /\ ret'.kind = "frame" => Executes(k, ret'.of)
             /\ ret'.kind = "list" => Completing(k, ret'.of)
             /\ \/ At(k, "block") \/ At(k, "list") \/ At(k, "process") \/ At(k, "settle")
  <2>1. CanReturn /\ (Running("block") \/ Running("list")) /\ ~Running("drain")
    BY <1>9, <1>5 DEF CanReturn
  <2>2. CASE Running("block")
    <3>1. Innermost.block \notin Roots /\ ret'.kind # "list" /\ At(L, "block")
          /\ (ret'.kind = "frame" => ret'.of = Innermost.block)
      BY <1>9, <2>1, <2>2, <1>5 DEF CanReturn
    <3>2. L # 1 /\ Executes(L - 1, stack[L].block)
      BY <3>1, <1>5, <1>8 DEF CallerOK
    <3>3. k # 0 /\ Executes(k, Innermost.block)
      BY <3>2, <1>3, <1>4, <1>5
    <3>4. \/ At(k, "block") \/ At(k, "list") \/ At(k, "process") \/ At(k, "settle")
      BY <3>3 DEF Executes
    <3> QED BY <3>1, <3>3, <3>4, <1>5, <1>7, <2>2
  <2>3. CASE Running("list")
    <3>1. ret'.kind # "frame" /\ At(L, "list")
          /\ (ret'.kind = "list" => ret'.of = Innermost.field)
      BY <1>9, <2>1, <2>3, <1>5 DEF CanReturn
    <3>2. L > 1 /\ Completing(L - 1, stack[L].field)
      BY <3>1, <1>8 DEF CallerOK
    <3>3. k # 0 /\ Completing(k, Innermost.field)
      BY <3>2, <1>3, <1>4, <1>5
    <3>4. At(k, "block") \/ At(k, "process")
      BY <3>3 DEF Completing
    <3> QED BY <3>1, <3>3, <3>4, <1>5, <1>7, <2>3
  <2> QED BY <2>1, <2>2, <2>3
<1>10. Len(stack') = k
  BY <1>2, <1>3
<1>11. \A n \in 1 .. k : IndexOK(n)'
  <2>1. Calling(k)' => ret' # None
    BY <1>10 DEF Calling
  <2>2. Calling(k)' => Calling(k)
    BY <2>1, <1>9
  <2> QED BY <2>2, <1>6
<1>12. ReturnOK'
  <2>1. SUFFICES ASSUME ret' # None
                 PROVE  /\ \/ At(k, "block")' \/ At(k, "list")' \/ At(k, "process")'
                           \/ At(k, "settle")'
                        /\ ret'.kind = "frame" => Executes(k, ret.of)'
                        /\ ret'.kind = "list" => Completing(k, ret.of)'
    BY <1>10 DEF ReturnOK
  <2>2. k \in 1 .. k /\ Within(k)
    BY <2>1, <1>9, <1>6
  <2>3. PICK c : c = ret'.of
    OBVIOUS
  <2>4. ret'.kind = "frame" => Executes(k, c)'
    BY <2>1, <2>2, <2>3, <1>9, <1>6
  <2>5. ret'.kind = "list" => Completing(k, c)'
    BY <2>1, <2>2, <2>3, <1>9, <1>6
  <2>6. \/ At(k, "block")' \/ At(k, "list")' \/ At(k, "process")' \/ At(k, "settle")'
    BY <2>1, <2>2, <1>9, <1>6
  <2>7. ret'.kind = "frame" => Executes(k, ret.of)'
    BY <2>3, <2>4
  <2>8. ret'.kind = "list" => Completing(k, ret.of)'
    BY <2>3, <2>5
  <2> QED BY <2>6, <2>7, <2>8
<1>13. OneDrain'
  <2>1. CASE Running("drain")
    <3>1. ~\E n \in 1 .. k : At(n, "drain")
      BY <2>1, <1>4, <1>5 DEF CallsInv, OneDrain
    <3>2. \A n \in 1 .. k : ~At(n, "drain")'
      BY <3>1, <1>6
    <3> QED BY <2>1, <3>2, <1>4 DEF OneDrain
  <2>2. CASE ~Running("drain")
    <3>1. draining' = draining /\ ~At(L, "drain")
      BY <2>2, <1>5
    <3> QED BY <3>1, <1>4, <1>6 DEF OneDrain, CallsInv
  <2> QED BY <2>1, <2>2
<1> QED BY <1>4, <1>6, <1>11, <1>12, <1>13 DEF CallsInv

-----------------------------------------------------------------------------
(* Types of what the operators make                                        *)

\* The types of a pending entry and of its parts.
LEMMA EntryFacts ==
  /\ \A f \in Fields, k \in Kinds, s \in {"unarmed", "armed", "ready"} :
       Entry(f, k, s) \in EntrySet
  /\ \A e \in EntrySet : /\ e.field \in Fields /\ e.kind \in Kinds
                         /\ e.state \in {"unarmed", "armed", "ready"}
BY DEF Entry, EntrySet

\* The parts of a pending entry that is made.
LEMMA MadeEntry ==
  ASSUME NEW f, NEW k, NEW s
  PROVE  Entry(f, k, s).field = f /\ Entry(f, k, s).kind = k /\ Entry(f, k, s).state = s
BY DEF Entry

\* Storing what settled changes the state of one entry.
LEMMA StoredFacts ==
  ASSUME NEW es \in Seq(EntrySet), NEW i \in 1 .. Len(es)
  PROVE  /\ Stored(es, i) \in Seq(EntrySet) /\ Len(Stored(es, i)) = Len(es)
         /\ \A j \in 1 .. Len(es) :
              /\ Stored(es, i)[j].field = es[j].field
              /\ Stored(es, i)[j].kind = es[j].kind
              /\ j # i => Stored(es, i)[j] = es[j]
         /\ Stored(es, i)[i].state = "ready"
<1> DEFINE e == Entry(es[i].field, es[i].kind, "ready")
<1>1. es[i] \in EntrySet
  OBVIOUS
<1>2. e \in EntrySet
  BY <1>1, EntryFacts
<1>3. e.field = es[i].field /\ e.kind = es[i].kind /\ e.state = "ready"
  BY MadeEntry
<1>4. Stored(es, i) = [es EXCEPT ![i] = e]
  BY DEF Stored
<1> HIDE DEF e
<1> QED BY <1>2, <1>3, <1>4

\* pending_unresolved counts: it is a natural number.
LEMMA WaitingCountFacts ==
  ASSUME NEW es \in Seq(EntrySet)
  PROVE  WaitingCount(es) \in Nat
<1>1. Len(es) \in Nat
  OBVIOUS
<1>2. IsFiniteSet(1 .. Len(es))
  BY <1>1, FS_Interval
<1>3. IsFiniteSet({i \in 1 .. Len(es) : Waits(es[i])})
  BY <1>2, FS_Subset
<1> QED BY <1>3, FS_CardinalityType DEF WaitingCount

\* Arming keeps the entries, but for their state.
LEMMA ArmFacts ==
  ASSUME TypesInv, NEW b \in Blocks, NEW es \in Seq(EntrySet), ArmFrame(b, es)
  PROVE  /\ entries' \in [Blocks -> Seq(EntrySet)]
         /\ Len(entries'[b]) = Len(es)
         /\ \A i \in 1 .. Len(es) : /\ entries'[b][i] = ArmedEntry(es[i])
                                    /\ entries'[b][i].field = es[i].field
                                    /\ entries'[b][i].kind = es[i].kind
         /\ \A c \in Blocks : c # b => entries'[c] = entries[c]
         /\ unresolved' \in [Blocks -> Nat]
         /\ ctx' \in [Fields -> Nat]
         /\ subs' \in [Promises -> SUBSET Positions]
<1> DEFINE as == [i \in 1 .. Len(es) |-> ArmedEntry(es[i])]
<1>1. ASSUME NEW e \in EntrySet
      PROVE  /\ ArmedEntry(e) \in EntrySet /\ ArmedEntry(e).field = e.field
             /\ ArmedEntry(e).kind = e.kind
  <2>1. CASE e.state # "unarmed"
    BY <2>1 DEF ArmedEntry
  <2>2. CASE e.state = "unarmed"
    <3>1. PICK s \in {"unarmed", "armed", "ready"} : ArmedEntry(e) = Entry(e.field, e.kind, s)
      BY <2>2 DEF ArmedEntry
    <3> QED BY <3>1, EntryFacts, MadeEntry
  <2> QED BY <2>1, <2>2
<1>2. as \in Seq(EntrySet) /\ Len(as) = Len(es)
  BY <1>1
<1>3. \A i \in 1 .. Len(es) : es[i] \in EntrySet /\ as[i] = ArmedEntry(es[i])
  OBVIOUS
<1>4. entries' = [entries EXCEPT ![b] = as] /\ entries \in [Blocks -> Seq(EntrySet)]
  BY DEF ArmFrame, TypesInv
<1>5. unresolved' \in [Blocks -> Nat]
  BY WaitingCountFacts DEF ArmFrame, TypesInv
<1>6. ctx' \in [Fields -> Nat]
  <2>1. ASSUME NEW f \in Fields, ArmsAt(es, f) # {}
        PROVE  (CHOOSE i \in ArmsAt(es, f) : TRUE) \in Nat
    BY <2>1 DEF ArmsAt
  <2> QED BY <2>1 DEF ArmFrame, TypesInv
<1>7. subs' \in [Promises -> SUBSET Positions]
  BY PromisesAssumption DEF ArmFrame, TypesInv
<1>8. \A i \in 1 .. Len(es) : as[i].field = es[i].field /\ as[i].kind = es[i].kind
  BY <1>1, <1>3
<1> HIDE DEF as
<1>9. entries' \in [Blocks -> Seq(EntrySet)] /\ entries'[b] = as
      /\ \A c \in Blocks : c # b => entries'[c] = entries[c]
  BY <1>2, <1>4
<1> QED BY <1>2, <1>3, <1>5, <1>6, <1>7, <1>8, <1>9

\* enqueue_frame puts at most the frame it is given into the ready queue.
LEMMA QueueFacts ==
  ASSUME NEW q \in Seq(Blocks \cup {None}), NEW b \in Blocks
  PROVE  /\ Enqueued(b, q) \in Seq(Blocks \cup {None})
         /\ \A c : c \in Range(Enqueued(b, q)) => c \in Range(q) \/ c = b
<1>1. /\ Append(q, b) \in Seq(Blocks \cup {None})
      /\ Len(Append(q, b)) = Len(q) + 1 /\ Len(q) \in Nat
      /\ DOMAIN Append(q, b) = 1 .. Len(q) + 1
      /\ \A i \in 1 .. Len(q) + 1 : Append(q, b)[i] = IF i = Len(q) + 1 THEN b ELSE q[i]
  OBVIOUS
<1>2. \A i \in 1 .. Len(q) + 1 : i = Len(q) + 1 \/ i \in DOMAIN q
  BY <1>1
<1> QED BY <1>1, <1>2 DEF Enqueued, Range

\* Taking a resolved frame out of the ready queue adds nothing to it.
LEMMA DequeuedFacts ==
  ASSUME TypesInv, NEW b \in Blocks
  PROVE  /\ Dequeued(b) \in Seq(Blocks \cup {None})
         /\ \A c : c \in Range(Dequeued(b)) => c \in Range(ready) \/ c = None
<1>1. ready \in Seq(Blocks \cup {None}) /\ Len(ready) \in Nat
  BY DEF TypesInv
<1> QED BY <1>1 DEF Dequeued, Range

\* Reporting errors counts them at their positions.
LEMMA BumpFacts ==
  ASSUME TypesInv, NEW S
  PROVE  Bump(errors, S) \in [{"raised", "nonnull"} \X Positions -> Nat]
<1>1. DOMAIN errors = {"raised", "nonnull"} \X Positions
      /\ \A e \in DOMAIN errors : errors[e] \in Nat
  BY DEF TypesInv
<1>2. \A e \in DOMAIN errors : (IF e \in S THEN errors[e] + 1 ELSE errors[e]) \in Nat
  BY <1>1
<1> QED BY <1>1, <1>2 DEF Bump

\* Completing a field writes that field and no other, and errors and nulls of
\* the right type.
LEMMA ConsumeFacts ==
  ASSUME TypesInv, NEW b \in Blocks, NEW f \in Fields, NEW null, NEW carries, NEW raised,
         Consume(b, f, null, carries, raised)
  PROVE  /\ values' \in [Fields -> {"unset", "null", "value"}]
         /\ nulled' \in [Blocks -> BOOLEAN]
         /\ errors' \in [{"raised", "nonnull"} \X Positions -> Nat]
         /\ \A g \in Fields : g # f => values'[g] = values[g]
         /\ values'[f] # "unset"
<1>1. errors' \in [{"raised", "nonnull"} \X Positions -> Nat]
  BY BumpFacts DEF Consume
<1>2. /\ values' \in [Fields -> {"unset", "null", "value"}]
      /\ \A g \in Fields : g # f => values'[g] = values[g]
      /\ values'[f] # "unset"
  BY DEF Consume, TypesInv
<1>3. nulled' \in [Blocks -> BOOLEAN]
  <2>1. PICK yes \in BOOLEAN : nulled' = [nulled EXCEPT ![b] = nulled[b] \/ yes]
    BY DEF Consume
  <2> QED BY <2>1 DEF TypesInv
<1> QED BY <1>1, <1>2, <1>3

-----------------------------------------------------------------------------
(* The innermost call                                                      *)

\* What is known of the call that runs: it is the innermost record, in range,
\* and waits for ret.
LEMMA Here ==
  ASSUME TypesInv, CallsInv, NEW at, Running(at)
  PROVE  /\ stack # <<>> /\ Innermost \in Calls /\ Innermost.at = at
         /\ Len(stack) \in Depths /\ stack[Len(stack)] = Innermost
         /\ Len(stack) \in Nat
         /\ \A x : Running(x) <=> x = at
         /\ \A x : At(Len(stack), x) <=> x = at
         /\ IndexOK(Len(stack)) /\ CallerOK(Len(stack))
         /\ ret # None <=> Calling(Len(stack))
         /\ ret # None => Within(Len(stack))
<1>1. /\ stack # <<>> /\ Innermost \in Calls /\ Innermost.at = at
      /\ Len(stack) \in Depths /\ stack[Len(stack)] = Innermost /\ Len(stack) \in Nat
      /\ \A x : Running(x) <=> x = at
  BY InnermostFacts DEF Running, Depths
<1>2. IndexOK(Len(stack)) /\ CallerOK(Len(stack))
  BY <1>1 DEF CallsInv
<1>3. ret # None <=> Calling(Len(stack))
  BY DEF Calling
<1> QED BY <1>1, <1>2, <1>3 DEF At, IndexOK

\* The block whose loop runs, and the field it is at.
LEMMA HereBlock ==
  ASSUME TypesInv, CallsInv, Running("block")
  PROVE  /\ Innermost.block \in Blocks /\ Innermost.index \in Nat
         /\ Len(Ops[Innermost.block]) \in Nat
         /\ Innermost.index <= Len(Ops[Innermost.block]) + 2
         /\ Within(Len(stack)) <=> Innermost.index < Len(Ops[Innermost.block])
         /\ FieldOf(Len(stack)) = CurrentField
         /\ Within(Len(stack)) => CurrentField \in Fields
<1>1. /\ Innermost \in Calls /\ Innermost.at = "block" /\ stack[Len(stack)] = Innermost
      /\ \A x : At(Len(stack), x) <=> x = "block"
      /\ IndexOK(Len(stack))
  BY Here
<1>2. Innermost.block \in Blocks /\ Innermost.index \in Nat
  BY <1>1, CallTypes
<1>3. Ops[Innermost.block] \in Seq(Fields) /\ Len(Ops[Innermost.block]) \in Nat
  BY <1>2, TypesAssumption
<1>4. Innermost.index <= Len(Ops[Innermost.block]) + 2
  BY <1>1 DEF IndexOK
<1>5. Within(Len(stack)) <=> Innermost.index < Len(Ops[Innermost.block])
  BY <1>1 DEF Within
<1>6. FieldOf(Len(stack)) = CurrentField
  BY <1>1 DEF FieldOf, CurrentField
<1>7. Within(Len(stack)) => CurrentField \in Fields
  <2>1. Within(Len(stack)) => Innermost.index + 1 \in 1 .. Len(Ops[Innermost.block])
    BY <1>2, <1>3, <1>5
  <2> QED BY <2>1, <1>3 DEF CurrentField
<1> QED BY <1>2, <1>3, <1>4, <1>5, <1>6, <1>7

\* The list that is completed, and the item it is at.
LEMMA HereList ==
  ASSUME TypesInv, CallsInv, Running("list")
  PROVE  /\ Innermost.field \in Lists /\ Innermost.field \in Fields
         /\ Innermost.index \in Nat
         /\ Len(Children[Innermost.field]) \in Nat
         /\ Innermost.index <= Len(Children[Innermost.field])
         /\ Within(Len(stack)) <=> Innermost.index < Len(Children[Innermost.field])
         /\ Within(Len(stack)) => /\ CurrentItem \in Items /\ CurrentItem \in Blocks
                                  /\ Innermost.index + 1 \in 1 .. Len(Children[Innermost.field])
         /\ Within(Len(stack)) => Executes(Len(stack), CurrentItem)
<1>1. /\ Innermost \in Calls /\ Innermost.at = "list" /\ stack[Len(stack)] = Innermost
      /\ \A x : At(Len(stack), x) <=> x = "list"
      /\ IndexOK(Len(stack))
  BY Here
<1>2. Innermost.field \in Lists /\ Innermost.index \in Nat /\ Innermost.field \in Fields
  BY <1>1, CallTypes, TypesAssumption
<1>3. Len(Children[Innermost.field]) \in Nat
  BY <1>2, ChildFacts
<1>4. Innermost.index <= Len(Children[Innermost.field])
  BY <1>1 DEF IndexOK
<1>5. Within(Len(stack)) <=> Innermost.index < Len(Children[Innermost.field])
  BY <1>1 DEF Within
<1>6. Within(Len(stack)) => Innermost.index + 1 \in 1 .. Len(Children[Innermost.field])
  BY <1>2, <1>3, <1>5
<1>7. Within(Len(stack)) => CurrentItem \in Items /\ CurrentItem \in Blocks
  BY <1>2, <1>6, ChildFacts DEF CurrentItem
<1>8. Within(Len(stack)) => Executes(Len(stack), CurrentItem)
  BY <1>1, <1>5 DEF Executes, CurrentItem
<1> QED BY <1>2, <1>3, <1>4, <1>5, <1>6, <1>7, <1>8

\* The frame that is processed, and the entry it is at.
LEMMA HereProcess ==
  ASSUME TypesInv, CallsInv, Running("process")
  PROVE  /\ Innermost.block \in Blocks /\ Innermost.index \in Nat
         /\ Innermost.next \in Seq(EntrySet) /\ Len(Innermost.next) \in Nat
         /\ Len(entries[Innermost.block]) \in Nat
         /\ entries[Innermost.block] \in Seq(EntrySet)
         /\ Innermost.index <= Len(entries[Innermost.block])
         /\ Len(Innermost.next) <= Innermost.index
         /\ Within(Len(stack)) <=> EntriesLeft
         /\ FieldOf(Len(stack)) = CurrentEntry.field
         /\ EntriesLeft => /\ CurrentEntry \in EntrySet /\ CurrentEntry.field \in Fields
                           /\ Innermost.index + 1 \in 1 .. Len(entries[Innermost.block])
<1>1. /\ Innermost \in Calls /\ Innermost.at = "process" /\ stack[Len(stack)] = Innermost
      /\ \A x : At(Len(stack), x) <=> x = "process"
      /\ IndexOK(Len(stack))
  BY Here
<1>2. Innermost.block \in Blocks /\ Innermost.index \in Nat /\ Innermost.next \in Seq(EntrySet)
  BY <1>1, CallTypes
<1>3. entries[Innermost.block] \in Seq(EntrySet) /\ Len(entries[Innermost.block]) \in Nat
  BY <1>2 DEF TypesInv
<1>4. Innermost.index <= Len(entries[Innermost.block]) /\ Len(Innermost.next) <= Innermost.index
  BY <1>1 DEF IndexOK
<1>5. Within(Len(stack)) <=> EntriesLeft
  BY <1>1 DEF Within, EntriesLeft
<1>6. FieldOf(Len(stack)) = CurrentEntry.field
  BY <1>1 DEF FieldOf, CurrentEntry
<1>7. EntriesLeft => Innermost.index + 1 \in 1 .. Len(entries[Innermost.block])
  BY <1>2, <1>3 DEF EntriesLeft
<1>8. EntriesLeft => CurrentEntry \in EntrySet /\ CurrentEntry.field \in Fields
  BY <1>7, <1>3, EntryFacts DEF CurrentEntry
<1>9. Len(Innermost.next) \in Nat
  BY <1>2
<1> QED BY <1>2, <1>3, <1>4, <1>5, <1>6, <1>7, <1>8, <1>9

\* What is known while callbacks of a settled promise run: who waits, and the
\* item executed now.
LEMMA HereSettle ==
  ASSUME TypesInv, CallsInv, Running("settle")
  PROVE  /\ Innermost.waiting \subseteq Positions /\ Innermost.current \in Items \cup {None}
         /\ ret # None => /\ Innermost.current \in Items
                          /\ ret.kind = "frame" => ret.of = Innermost.current
                          /\ ret.kind # "list"
<1>1. /\ Innermost \in Calls /\ Innermost.at = "settle" /\ stack[Len(stack)] = Innermost
      /\ \A x : At(Len(stack), x) <=> x = "settle"
      /\ ret # None => Within(Len(stack))
  BY Here
<1>2. Innermost.waiting \subseteq Positions /\ Innermost.current \in Items \cup {None}
  BY <1>1, CallTypes
<1>3. ret # None => Innermost.current # None
  BY <1>1 DEF Within
<1>4. ret # None => (ret.kind = "frame" => ret.of = Innermost.current) /\ ret.kind # "list"
  BY <1>1 DEF CallsInv, ReturnOK, Executes, Completing
<1> QED BY <1>2, <1>3, <1>4

\* A loop that has done one more is the same call.
LEMMA AdvancedFacts ==
  ASSUME TypesInv, CallsInv, NEW es,
         Running("block") \/ Running("list") \/ Running("process"),
         Within(Len(stack)),
         Running("process") => Len(es[Innermost.block]) \in Nat
           /\ Len(entries[Innermost.block]) <= Len(es[Innermost.block])
  PROVE  /\ Advanced(Innermost) \in Calls /\ SameCall(Advanced(Innermost))
         /\ IndexFits(Advanced(Innermost), es)
         /\ Advanced(Innermost).at = Innermost.at
         /\ Advanced(Innermost).index = Innermost.index + 1
         /\ Running("process") => Advanced(Innermost).next = Innermost.next
<1>1. CASE Running("block")
  <2>1. Innermost.at = "block" /\ \A x : Running(x) <=> x = "block"
    BY <1>1, Here
  <2>2. Advanced(Innermost) = OpLoop(Innermost.block, Innermost.index + 1)
    BY <2>1 DEF Advanced
  <2>3. /\ Innermost.block \in Blocks /\ Innermost.index + 1 \in Nat
        /\ Innermost.index + 1 <= Len(Ops[Innermost.block]) + 2
    BY <1>1, HereBlock
  <2> QED BY <2>1, <2>2, <2>3, MadeCalls, MadeBlock DEF SameCall, IndexFits
<1>2. CASE Running("list")
  <2>1. Innermost.at = "list" /\ \A x : Running(x) <=> x = "list"
    BY <1>2, Here
  <2>2. Advanced(Innermost) = ItemLoop(Innermost.field, Innermost.index + 1)
    BY <2>1 DEF Advanced
  <2>3. /\ Innermost.field \in Lists /\ Innermost.index + 1 \in Nat
        /\ Innermost.index + 1 <= Len(Children[Innermost.field])
    BY <1>2, HereList
  <2> QED BY <2>1, <2>2, <2>3, MadeCalls, MadeList DEF SameCall, IndexFits
<1>3. CASE Running("process")
  <2>1. Innermost.at = "process"
    BY <1>3, Here
  <2>2. Advanced(Innermost) = ProcessLoop(Innermost.block, Innermost.index + 1, Innermost.next)
    BY <2>1 DEF Advanced
  <2>3. /\ Innermost.block \in Blocks /\ Innermost.index + 1 \in Nat
        /\ Innermost.next \in Seq(EntrySet)
        /\ Innermost.index + 1 <= Len(es[Innermost.block])
        /\ Len(Innermost.next) <= Innermost.index + 1
    BY <1>3, HereProcess DEF EntriesLeft
  <2> QED BY <2>1, <2>2, <2>3, MadeCalls, MadeProcess DEF SameCall, IndexFits
<1> QED BY <1>1, <1>2, <1>3

\* A call that runs leaves one record fewer when it returns.
LEMMA Shorter ==
  ASSUME TypesInv, stack # <<>>
  PROVE  Len(stack) \in Nat /\ Len(stack) - 1 \in Nat /\ Len(stack) - 1 <= Len(stack)
BY DEF TypesInv

\* Loops stay in range of arrays that do not change.
LEMMA ExtendsSame ==
  ASSUME TypesInv, UNCHANGED entries, NEW k \in Nat, k <= Len(stack)
  PROVE  Extends(k)
<1>1. \A n \in 1 .. k : stack[n] \in Calls
  BY InnermostFacts
<1>2. \A n \in 1 .. k : At(n, "process") => Len(entries[stack[n].block]) \in Nat
  BY <1>1, CallTypes DEF At, TypesInv
<1> QED BY <1>2 DEF Extends

\* So do the calls below the one that runs.
LEMMA ExtendsBelow ==
  ASSUME TypesInv, UNCHANGED entries, stack # <<>>
  PROVE  /\ Len(stack) - 1 \in Nat /\ Extends(Len(stack) - 1) /\ Extends(Len(stack))
         /\ Len(stack) \in Nat
<1>1. Len(stack) \in Nat /\ Len(stack) - 1 \in Nat /\ Len(stack) - 1 <= Len(stack)
  BY InnermostFacts
<1>2. PICK k \in Nat : k = Len(stack) - 1
  BY <1>1
<1> QED BY <1>1, <1>2, ExtendsSame

\* Completing a field keeps the calls in order.
LEMMA CompleteFieldKeeps ==
  ASSUME TypesInv, CallsInv, NEW b \in Blocks, NEW f \in Fields, NEW result,
         CompleteField(b, f, result), ret = None,
         Running("block") \/ Running("process"),
         Within(Len(stack)), FieldOf(Len(stack)) = f,
         UNCHANGED <<answer, promise, subs, entries, unresolved, link, ctx, item, owned,
                     ready, draining, ret, response>>
  PROVE  TypesInv' /\ CallsInv'
<1>1. /\ stack # <<>> /\ Innermost \in Calls /\ Len(stack) \in Depths
      /\ At(Len(stack), "block") \/ At(Len(stack), "process")
  BY Here
<1>2. /\ Advanced(Innermost) \in Calls /\ SameCall(Advanced(Innermost))
      /\ IndexFits(Advanced(Innermost), entries)
  <2>1. Running("process") => Len(entries[Innermost.block]) \in Nat
                              /\ Len(entries[Innermost.block]) <= Len(entries[Innermost.block])
    BY HereProcess
  <2> QED BY <2>1, AdvancedFacts
<1>3. Extends(Len(stack)) /\ Extends(Len(stack) - 1)
  BY <1>1, ExtendsBelow
<1>4. CASE result = "value" /\ (f \in Lists \/ Children[f] # <<>>)
  <2>1. PICK u : u = IF f \in Lists THEN ItemLoop(f, 0) ELSE OpLoop(Children[f][1], 0)
    OBVIOUS
  <2>2. /\ u \in Calls
        /\ f \in Lists => u.at = "list" /\ u.field = f /\ u.index = 0
        /\ f \notin Lists => /\ u.at = "block" /\ u.block = Children[f][1] /\ u.index = 0
                             /\ Children[f][1] \in Blocks /\ Children[f] # <<>>
    BY <2>1, <1>4, MadeCalls, MadeList, MadeBlock, ChildFacts
  <2>3. stack' = Push(u) /\ UNCHANGED tree
    BY <2>1, <1>4 DEF CompleteField
  <2>4. stack' \in Seq(Calls) /\ Enters(u)
    BY <2>2, <2>3, PushFacts
  <2>5. life' \in [Blocks -> {"none", "running", "suspended", "done"}]
    BY <2>2, <1>4 DEF CompleteField, TypesInv
  <2>6. TypesInv'
    BY <2>3, <2>4, <2>5 DEF TypesInv, tree
  <2>7. CanEnter(u)
    <3>1. CASE f \in Lists
      <4>1. Completing(Len(stack), f)
        BY <1>1 DEF Completing
      <4> QED BY <3>1, <4>1, <2>2, <1>1 DEF CanEnter
    <3>2. CASE f \notin Lists
      <4>1. IsChild(u.block, FieldOf(Len(stack)))
        BY <3>2, <2>2 DEF IsChild
      <4>2. Executes(Len(stack), u.block)
        BY <1>1, <4>1 DEF Executes
      <4> QED BY <3>2, <4>2, <2>2, <1>1 DEF CanEnter
    <3> QED BY <3>1, <3>2
  <2>8. CallsInv'
    BY <2>2, <2>4, <2>6, <2>7, <1>3, EntersKeeps
  <2> QED BY <2>6, <2>8
<1>5. CASE ~(result = "value" /\ (f \in Lists \/ Children[f] # <<>>))
  <2>1. PICK u \in Calls : u = Advanced(Innermost)
    BY <1>2
  <2>2. stack' = Top(u) /\ UNCHANGED life
        /\ Consume(b, f, result # "value", result = "error", result = "error")
    BY <1>5, <2>1 DEF CompleteField, Advance
  <2>3. stack' \in Seq(Calls) /\ Becomes(u)
    BY <2>2, <1>1, TopFacts
  <2>4. TypesInv'
    BY <2>2, <2>3, ConsumeFacts DEF TypesInv
  <2>5. SameCall(u) /\ IndexFits(u, entries')
    BY <2>1, <1>2
  <2> QED BY <2>3, <2>4, <2>5, <1>3, BecomesKeeps
<1> QED BY <1>4, <1>5

\* The C stack stays well formed by a resolver that returns a value, a null
\* or dies.
LEMMA ResolverReturnsValueCalls ==
  ASSUME TypesInv, CallsInv, NEW b \in Blocks, ResolverReturnsValue(b)
  PROVE  TypesInv' /\ CallsInv'
<1>1. /\ ret = None /\ Running("block") /\ Innermost.block = b
      /\ Within(Len(stack)) /\ FieldOf(Len(stack)) = CurrentField /\ CurrentField \in Fields
  BY HereBlock DEF ResolverReturnsValue, InOpLoop
<1>2. PICK f \in Fields : f = CurrentField
  BY <1>1
<1>3. CompleteField(b, f, answer[f])
  BY <1>2 DEF ResolverReturnsValue
<1>4. UNCHANGED <<answer, promise, subs, entries, unresolved, link, ctx, item, owned,
                  ready, draining, ret, response>>
  BY DEF ResolverReturnsValue, promiseVars, lists
<1> QED BY <1>1, <1>2, <1>3, <1>4, CompleteFieldKeeps

\* Frames that keep their entries, and may get more, extend the calls.
LEMMA ExtendsMore ==
  ASSUME TypesInv, NEW b \in Blocks,
         \A c \in Blocks : c # b => entries'[c] = entries[c],
         Len(entries[b]) <= Len(entries'[b]),
         \A i \in 1 .. Len(entries[b]) : entries'[b][i].field = entries[b][i].field,
         NEW k \in Nat, k <= Len(stack)
  PROVE  Extends(k)
<1>1. \A n \in 1 .. k : stack[n] \in Calls
  BY InnermostFacts
<1>2. \A n \in 1 .. k : At(n, "process") => stack[n].block \in Blocks
  BY <1>1, CallTypes DEF At
<1>3. \A c \in Blocks : /\ Len(entries[c]) <= Len(entries'[c])
                        /\ \A i \in 1 .. Len(entries[c]) :
                             entries'[c][i].field = entries[c][i].field
  <2>1. \A c \in Blocks : Len(entries[c]) \in Nat
    BY DEF TypesInv
  <2> QED BY <2>1
<1> QED BY <1>2, <1>3 DEF Extends

\* What entry_append_armed does to an array: the old entries stay, the new
\* one is last.
LEMMA AppendedFacts ==
  ASSUME TypesInv, NEW b \in Blocks, NEW e \in EntrySet,
         entries' = [entries EXCEPT ![b] = Append(entries[b], e)]
  PROVE  /\ entries' \in [Blocks -> Seq(EntrySet)]
         /\ \A c \in Blocks : c # b => entries'[c] = entries[c]
         /\ Len(entries[b]) \in Nat /\ Len(entries'[b]) = Len(entries[b]) + 1
         /\ \A i \in 1 .. Len(entries[b]) : entries'[b][i] = entries[b][i]
         /\ entries'[b][Len(entries[b]) + 1] = e
         /\ \A k \in Nat : k <= Len(stack) => Extends(k)
<1>1. entries[b] \in Seq(EntrySet) /\ entries \in [Blocks -> Seq(EntrySet)]
  BY DEF TypesInv
<1>2. /\ entries' \in [Blocks -> Seq(EntrySet)]
      /\ \A c \in Blocks : c # b => entries'[c] = entries[c]
      /\ Len(entries[b]) \in Nat /\ Len(entries'[b]) = Len(entries[b]) + 1
      /\ \A i \in 1 .. Len(entries[b]) : entries'[b][i] = entries[b][i]
      /\ entries'[b][Len(entries[b]) + 1] = e
  BY <1>1
<1>3. ASSUME NEW k \in Nat, k <= Len(stack)
      PROVE  Extends(k)
  <2>1. Len(entries[b]) <= Len(entries'[b])
    BY <1>2
  <2>2. \A i \in 1 .. Len(entries[b]) : entries'[b][i].field = entries[b][i].field
    BY <1>2
  <2> QED BY <1>2, <1>3, <2>1, <2>2, ExtendsMore
<1> QED BY <1>2, <1>3

\* What storing a settled value does to an array: one entry becomes ready,
\* fields and kinds stay.
LEMMA StoredInFacts ==
  ASSUME TypesInv, NEW b \in Blocks, NEW i \in 1 .. Len(entries[b]),
         entries' = [entries EXCEPT ![b] = Stored(entries[b], i)]
  PROVE  /\ entries' \in [Blocks -> Seq(EntrySet)]
         /\ \A c \in Blocks : c # b => entries'[c] = entries[c]
         /\ Len(entries'[b]) = Len(entries[b])
         /\ \A j \in 1 .. Len(entries[b]) :
              /\ entries'[b][j].field = entries[b][j].field
              /\ entries'[b][j].kind = entries[b][j].kind
              /\ j # i => entries'[b][j] = entries[b][j]
         /\ entries'[b][i].state = "ready"
         /\ \A k \in Nat : k <= Len(stack) => Extends(k)
<1>1. entries[b] \in Seq(EntrySet) /\ entries \in [Blocks -> Seq(EntrySet)]
  BY DEF TypesInv
<1>2. entries'[b] = Stored(entries[b], i) /\ \A c \in Blocks : c # b => entries'[c] = entries[c]
  BY <1>1
<1>3. /\ Stored(entries[b], i) \in Seq(EntrySet) /\ Len(Stored(entries[b], i)) = Len(entries[b])
      /\ \A j \in 1 .. Len(entries[b]) :
           /\ Stored(entries[b], i)[j].field = entries[b][j].field
           /\ Stored(entries[b], i)[j].kind = entries[b][j].kind
           /\ j # i => Stored(entries[b], i)[j] = entries[b][j]
      /\ Stored(entries[b], i)[i].state = "ready"
  BY <1>1, StoredFacts
<1>4. entries' \in [Blocks -> Seq(EntrySet)]
  BY <1>1, <1>3
<1>5. ASSUME NEW k \in Nat, k <= Len(stack)
      PROVE  Extends(k)
  <2>1. Len(entries[b]) <= Len(entries'[b])
    BY <1>1, <1>2, <1>3
  <2>2. \A j \in 1 .. Len(entries[b]) : entries'[b][j].field = entries[b][j].field
    BY <1>2, <1>3
  <2> QED BY <1>2, <1>5, <2>1, <2>2, ExtendsMore
<1> QED BY <1>2, <1>3, <1>4, <1>5

\* Storing a value in entry i of block b leaves every other entry as it was, and
\* the field and kind of entry i.
OthersKeep(b, i) ==
  /\ \A c \in Blocks : c # b => entries'[c] = entries[c]
  /\ Len(entries'[b]) = Len(entries[b])
  /\ \A j \in 1 .. Len(entries[b]) :
       /\ entries'[b][j].field = entries[b][j].field
       /\ entries'[b][j].kind = entries[b][j].kind
       /\ j # i => entries'[b][j] = entries[b][j]
LEMMA StoredInKeeps ==
  ASSUME TypesInv, NEW b \in Blocks, NEW i \in 1 .. Len(entries[b]),
         entries' = [entries EXCEPT ![b] = Stored(entries[b], i)]
  PROVE  OthersKeep(b, i)
BY StoredInFacts DEF OthersKeep

\* Enqueueing, and starting a drain unless one is running.
LEMMA EnqueueAndDrainFacts ==
  ASSUME TypesInv, stack # <<>>, NEW t \in Calls, NEW wanted \in BOOLEAN,
         NEW b \in Blocks, NEW q \in Seq(Blocks \cup {None}),
         EnqueueAndDrain(wanted, b, q, Top(t))
  PROVE  /\ stack' \in Seq(Calls)
         /\ ready' \in Seq(Blocks \cup {None})
         /\ draining' \in BOOLEAN
         /\ \A c : c \in Range(ready') => c \in Range(q) \/ c = b
         /\ \/ Becomes(t) /\ draining' = draining
            \/ BecomesAndEnters(t, DrainLoop) /\ ~draining /\ draining'
<1>1. /\ ready' \in Seq(Blocks \cup {None})
      /\ \A c : c \in Range(ready') => c \in Range(q) \/ c = b
  BY QueueFacts DEF EnqueueAndDrain
<1>2. draining \in BOOLEAN /\ draining' = (draining \/ wanted)
  BY DEF EnqueueAndDrain, TypesInv
<1>3. CASE wanted /\ ~draining
  <2>1. stack' = Append(Top(t), DrainLoop)
    BY <1>3 DEF EnqueueAndDrain
  <2> QED BY <1>1, <1>2, <1>3, <2>1, TopPushFacts, MadeCalls
<1>4. CASE ~(wanted /\ ~draining)
  <2>1. stack' = Top(t)
    BY <1>4 DEF EnqueueAndDrain
  <2> QED BY <1>1, <1>2, <1>4, <2>1, TopFacts
<1> QED BY <1>3, <1>4

\* A loop that goes on and may start a drain keeps the calls in order.
LEMMA EnqueueAndDrainKeeps ==
  ASSUME TypesInv, TypesInv', CallsInv, NEW t \in Calls,
         \/ Becomes(t) /\ draining' = draining
         \/ BecomesAndEnters(t, DrainLoop) /\ ~draining /\ draining',
         Extends(Len(stack) - 1), SameCall(t), IndexFits(t, entries'),
         t.at \in {"block", "settle"}, ret' = None
  PROVE  CallsInv'
BY BecomesKeeps, BecomesAndEntersDrain

\* The results the completion functions return, and their parts.
LEMMA ResultFacts ==
  /\ \A b \in Blocks : Frame(b) \in Results
  /\ \A n \in BOOLEAN : Outcome(n) \in Results
  /\ \A r \in Results : /\ r.kind \in {"frame", "list", "outcome"}
                        /\ r.null \in BOOLEAN
                        /\ r.kind = "frame" => r.of \in Blocks
                        /\ r.kind = "list" => r.of \in Lists
  /\ \A b \in Blocks : Frame(b).kind = "frame" /\ Frame(b).of = b
  /\ \A n \in BOOLEAN : Outcome(n).kind = "outcome"
  /\ None \notin Results
<1>1. \A r \in Results : r \in [kind : {"frame", "list", "outcome"},
                                of : Blocks \cup Fields \cup {None}, null : BOOLEAN]
  BY TypesAssumption DEF Results
<1>2. None \notin Results
  BY <1>1, TypesAssumption
<1>3. \A r \in Results : /\ r.kind \in {"frame", "list", "outcome"}
                         /\ r.null \in BOOLEAN
                         /\ r.kind = "frame" => r.of \in Blocks
                         /\ r.kind = "list" => r.of \in Lists
  BY DEF Results
<1> QED BY <1>2, <1>3 DEF Frame, Outcome, Results

\* A resolver that returns a promise returns it pending, or settled if nobody
\* waits for it.
LEMMA ReturnsPromiseFacts ==
  ASSUME TypesInv, NEW p \in Promises, ReturnsPromise(p)
  PROVE  /\ promise' \in [Promises -> {"pending", "settled"}]
         /\ \A q \in Promises : q # p => promise'[q] = promise[q]
         /\ \A q \in Promises : promise[q] = "settled" => promise'[q] = "settled"
         /\ promise'[p] = promise[p] \/ (subs[p] = {} /\ promise'[p] = "settled")
BY DEF TypesInv, ReturnsPromise

\* Positions that are promised are positions, and their promises are
\* promises.
LEMMA PromiseFacts ==
  \A x \in DOMAIN PromiseOf : x \in Positions /\ PromiseOf[x] \in Promises
BY PromisesAssumption DEF Range

\* The C stack stays well formed by a resolver that returns a promise, for
\* which an entry is appended and armed.
LEMMA ResolverReturnsPromiseCalls ==
  ASSUME TypesInv, CallsInv, NEW b \in Blocks, ResolverReturnsPromise(b)
  PROVE  TypesInv' /\ CallsInv'
<1>1. /\ ret = None /\ Running("block") /\ Innermost.block = b /\ stack # <<>>
      /\ Within(Len(stack)) /\ CurrentField \in Fields
  BY HereBlock, Here DEF ResolverReturnsPromise, InOpLoop
<1>2. PICK e \in EntrySet : e = Entry(CurrentField, "promise", "unarmed")
  BY <1>1, EntryFacts DEF Kinds
<1>3. entries' = [entries EXCEPT ![b] = Append(entries[b], e)]
  BY <1>2 DEF ResolverReturnsPromise
<1>4. /\ entries' \in [Blocks -> Seq(EntrySet)]
      /\ \A k \in Nat : k <= Len(stack) => Extends(k)
  BY <1>3, AppendedFacts
<1>5. promise' \in [Promises -> {"pending", "settled"}]
  BY PromiseFacts, ReturnsPromiseFacts DEF ResolverReturnsPromise
<1>6. PICK t \in Calls : /\ t = Advanced(Innermost) /\ SameCall(t) /\ IndexFits(t, entries')
  <2>1. ~Running("process")
    BY <1>1, Here
  <2> QED BY <1>1, <2>1, AdvancedFacts
<1>7. stack' \in Seq(Calls) /\ Becomes(t)
  BY <1>1, <1>6, TopFacts DEF ResolverReturnsPromise, Advance
<1>8. TypesInv'
  BY <1>4, <1>5, <1>7 DEF ResolverReturnsPromise, TypesInv, tree, lists
<1>9. Extends(Len(stack) - 1)
  BY <1>1, <1>4, InnermostFacts
<1>10. ret' = None /\ draining' = draining
  BY <1>1 DEF ResolverReturnsPromise
<1> QED BY <1>6, <1>7, <1>8, <1>9, <1>10, BecomesKeeps

\* The entry that adopts a child frame or list is armed, for that field, of
\* that kind.
LEMMA AdoptedFacts ==
  ASSUME TypesInv, ret # None, ret.kind \in {"frame", "list"}, NEW f \in Fields
  PROVE  /\ AdoptedEntry(f) \in EntrySet
         /\ AdoptedEntry(f).field = f /\ AdoptedEntry(f).state = "armed"
         /\ AdoptedEntry(f).kind = IF ret.kind = "frame" THEN "block" ELSE "list"
BY EntryFacts, MadeEntry DEF AdoptedEntry, Kinds

\* The C stack stays well formed by the operation loop that takes a child's
\* frame, list or outcome.
LEMMA BlockTakesResultCalls ==
  ASSUME TypesInv, CallsInv, NEW b \in Blocks, BlockTakesResult(b)
  PROVE  TypesInv' /\ CallsInv'
<1>1. /\ ret # None /\ ret' = None /\ Running("block") /\ Innermost.block = b /\ stack # <<>>
      /\ Within(Len(stack)) /\ CurrentField \in Fields /\ ret \in Results
      /\ Innermost.at = "block"
  BY HereBlock, Here DEF BlockTakesResult, TypesInv
<1>2. PICK f \in Fields : f = CurrentField
  BY <1>1
<1>3. PICK t \in Calls : /\ t = Advanced(Innermost) /\ SameCall(t) /\ t.at = "block"
                         /\ IndexFits(t, entries')
  <2>1. ~Running("process")
    BY <1>1, Here
  <2> QED BY <1>1, <2>1, AdvancedFacts
<1>4. Advance = Top(t)
  BY <1>3 DEF Advance
<1>5. CASE ret.kind = "outcome"
  <2>1. /\ Consume(b, f, ret.null, TRUE, FALSE) /\ stack' = Top(t)
        /\ UNCHANGED <<frames, owned, ready, draining, answer, promiseVars, item, response>>
    BY <1>2, <1>4, <1>5 DEF BlockTakesResult
  <2>2. stack' \in Seq(Calls) /\ Becomes(t)
    BY <1>1, <2>1, TopFacts
  <2>3. TypesInv'
    BY <1>1, <2>1, <2>2, ConsumeFacts DEF TypesInv, frames, promiseVars
  <2>4. Extends(Len(stack) - 1) /\ draining' = draining
    BY <1>1, <2>1, ExtendsBelow DEF frames
  <2> QED BY <1>1, <1>3, <2>2, <2>3, <2>4, BecomesKeeps
<1>6. CASE ret.kind \in {"frame", "list"}
  <2>1. PICK e \in EntrySet : e = AdoptedEntry(f)
    BY <1>1, <1>6, AdoptedFacts
  <2>2. entries' = [entries EXCEPT ![b] = Append(entries[b], e)]
    BY <1>2, <1>6, <2>1 DEF BlockTakesResult
  <2>3. /\ entries' \in [Blocks -> Seq(EntrySet)]
        /\ Len(entries[b]) \in Nat /\ Len(entries'[b]) = Len(entries[b]) + 1
        /\ \A k \in Nat : k <= Len(stack) => Extends(k)
    BY <2>2, AppendedFacts
  <2>4. Extends(Len(stack) - 1)
    BY <1>1, <2>3, InnermostFacts
  <2>5. /\ unresolved' = [unresolved EXCEPT ![b] = @ + 1]
        /\ UNCHANGED <<ctx, life, tree, answer, promiseVars, item, response>>
    BY <1>6 DEF BlockTakesResult
  <2>6. unresolved' \in [Blocks -> Nat]
    BY <2>5 DEF TypesInv
  <2>7. CASE ret.kind = "frame"
    <3>1. PICK wanted \in BOOLEAN : wanted = (unresolved[ret.of] = 0)
      OBVIOUS
    <3>2. /\ link' = [link EXCEPT ![ret.of] = Len(entries'[b])]
          /\ EnqueueAndDrain(wanted, ret.of, ready, Top(t))
          /\ UNCHANGED owned
      BY <1>4, <2>7, <3>1 DEF BlockTakesResult
    <3>3. ret.of \in Blocks /\ ready \in Seq(Blocks \cup {None})
      BY <1>1, <2>7, ResultFacts DEF TypesInv
    <3>4. /\ stack' \in Seq(Calls) /\ ready' \in Seq(Blocks \cup {None})
          /\ draining' \in BOOLEAN
          /\ \/ Becomes(t) /\ draining' = draining
             \/ BecomesAndEnters(t, DrainLoop) /\ ~draining /\ draining'
      BY <1>1, <3>2, <3>3, EnqueueAndDrainFacts
    <3>5. link' \in [Blocks -> Nat]
      <4>1. PICK n \in Nat : n = Len(entries'[b])
        BY <2>3
      <4>2. link' = [link EXCEPT ![ret.of] = n]
        BY <3>2, <4>1
      <4> QED BY <4>2 DEF TypesInv
    <3>6. TypesInv'
      BY <1>1, <2>3, <2>5, <2>6, <3>2, <3>4, <3>5 DEF TypesInv, tree, promiseVars
    <3> QED BY <1>1, <1>3, <2>4, <3>4, <3>6, EnqueueAndDrainKeeps
  <2>8. CASE ret.kind = "list"
    <3>1. /\ ret.of \in Lists
          /\ ReturnOK
      BY <1>1, <2>8, ResultFacts DEF CallsInv
    <3>2. ret.of = f
      BY <1>1, <1>2, <2>8, <3>1, HereBlock DEF ReturnOK, Completing
    <3>3. /\ owned' = owned \cup {f} /\ stack' = Top(t)
          /\ UNCHANGED <<link, ready, draining>>
      BY <1>2, <1>4, <2>8 DEF BlockTakesResult, Adopts
    <3>4. stack' \in Seq(Calls) /\ Becomes(t)
      BY <1>1, <3>3, TopFacts
    <3>5. TypesInv'
      BY <1>1, <2>3, <2>5, <2>6, <3>1, <3>2, <3>3, <3>4 DEF TypesInv, tree, promiseVars
    <3> QED BY <1>1, <1>3, <2>4, <3>3, <3>4, <3>5, BecomesKeeps
  <2> QED BY <1>6, <2>7, <2>8
<1> QED BY <1>1, <1>5, <1>6, ResultFacts

\* The C stack stays well formed by finalize_block of a block nothing of
\* which is pending.
LEMMA FinalizeCompleteCalls ==
  ASSUME TypesInv, CallsInv, NEW b \in Blocks, FinalizeComplete(b)
  PROVE  TypesInv' /\ CallsInv'
<1>1. /\ ret = None /\ Running("block") /\ Innermost.block = b /\ stack # <<>>
      /\ ~Running("drain")
      /\ UNCHANGED <<answer, promiseVars, entries, unresolved, link, ctx, tree,
                     lists, ready, draining>>
  BY Here DEF FinalizeComplete, Finalizing
<1>2. stack' = Pop
  BY DEF FinalizeComplete, Returns
<1>3. stack' \in Seq(Calls) /\ Leaves
  BY <1>1, <1>2, PopFacts
<1>4. life' \in [Blocks -> {"none", "running", "suspended", "done"}]
  BY DEF FinalizeComplete, TypesInv
<1>5. ret' = None \/ (b \notin Roots /\ ret' = Outcome(nulled[b]))
  BY <1>1 DEF FinalizeComplete, Returns
<1>6. nulled[b] \in BOOLEAN
  BY DEF TypesInv
<1>7. ret' \in Results \cup {None} /\ CanReturn
  <2>1. CASE ret' = None
    BY <2>1 DEF CanReturn
  <2>2. CASE b \notin Roots /\ ret' = Outcome(nulled[b])
    BY <1>1, <1>6, <2>2, ResultFacts DEF CanReturn
  <2> QED BY <1>5, <2>1, <2>2
<1>8. response' \in {None, "data", "null"}
  BY DEF FinalizeComplete, TypesInv
<1>9. TypesInv'
  BY <1>1, <1>3, <1>4, <1>7, <1>8 DEF TypesInv, tree, lists, promiseVars
<1> QED BY <1>1, <1>3, <1>7, <1>9, ExtendsBelow, LeavesKeeps

\* The C stack stays well formed by finalize_block of a block that waits,
\* armed and queued if something is ready.
LEMMA FinalizeSuspendsCalls ==
  ASSUME TypesInv, CallsInv, NEW b \in Blocks, FinalizeSuspends(b)
  PROVE  TypesInv' /\ CallsInv'
<1>1. /\ ret = None /\ Running("block") /\ Innermost.block = b /\ stack # <<>>
      /\ Innermost.at = "block" /\ Innermost.index = Len(Ops[b])
      /\ ~Running("drain") /\ ~Running("process")
      /\ UNCHANGED <<answer, promise, link, tree, lists, response>>
  BY Here DEF FinalizeSuspends, Finalizing
<1>2. entries[b] \in Seq(EntrySet) /\ ArmFrame(b, entries[b])
  BY DEF FinalizeSuspends, TypesInv
<1>3. /\ entries' \in [Blocks -> Seq(EntrySet)]
      /\ Len(entries'[b]) = Len(entries[b])
      /\ \A i \in 1 .. Len(entries[b]) : entries'[b][i].field = entries[b][i].field
      /\ \A c \in Blocks : c # b => entries'[c] = entries[c]
      /\ unresolved' \in [Blocks -> Nat]
      /\ ctx' \in [Fields -> Nat]
      /\ subs' \in [Promises -> SUBSET Positions]
  BY <1>2, ArmFacts
<1>4. Extends(Len(stack) - 1)
  <2>1. PICK k \in Nat : k = Len(stack) - 1 /\ k <= Len(stack)
    BY <1>1, Shorter
  <2>2. Len(entries[b]) <= Len(entries'[b])
    BY <1>2, <1>3
  <2> QED BY <1>3, <2>1, <2>2, ExtendsMore
<1>5. life' \in [Blocks -> {"none", "running", "suspended", "done"}]
  BY DEF FinalizeSuspends, TypesInv
<1>6. ready' \in Seq(Blocks \cup {None})
  <2>1. ready' = Enqueued(b, ready) \/ ready' = ready
    BY DEF FinalizeSuspends
  <2> QED BY <2>1, QueueFacts DEF TypesInv
<1>7. PICK settled \in BOOLEAN : settled = (WaitingCount(entries[b]) = 0)
  OBVIOUS
<1>8. draining \in BOOLEAN
  BY DEF TypesInv
<1>9. CASE b \in Roots \cup Items /\ settled /\ ~draining
  <2>1. stack' = Append(Advance, DrainLoop) /\ ret' = ret /\ draining' = TRUE
    BY <1>7, <1>9 DEF FinalizeSuspends
  <2>2. PICK t \in Calls : t = Advanced(Innermost)
        /\ t = OpLoop(b, Innermost.index + 1)
    BY <1>1, HereBlock, MadeCalls DEF Advanced
  <2>3. t.at = "block" /\ t.block = b /\ t.index = Len(Ops[b]) + 1
    BY <2>2, <1>1, MadeBlock
  <2>4. SameCall(t) /\ IndexFits(t, entries')
    BY <2>3, <1>1, HereBlock DEF SameCall, IndexFits
  <2>5. stack' \in Seq(Calls) /\ BecomesAndEnters(t, DrainLoop)
    BY <1>1, <2>1, <2>2, TopPushFacts, MadeCalls DEF Advance
  <2>6. TypesInv'
    BY <1>1, <1>3, <1>5, <1>6, <2>1, <2>5 DEF TypesInv, tree, lists
  <2> QED BY <1>1, <1>4, <1>9, <2>1, <2>3, <2>4, <2>5, <2>6, BecomesAndEntersDrain
<1>10. CASE ~(b \in Roots \cup Items /\ settled /\ ~draining)
  <2>1. /\ stack' = Pop /\ draining' = draining
        /\ ret' = None \/ (b \notin Roots /\ ret' = Frame(b))
    BY <1>7, <1>8, <1>10 DEF FinalizeSuspends, Returns
  <2>2. stack' \in Seq(Calls) /\ Leaves
    BY <1>1, <2>1, PopFacts
  <2>3. ret' \in Results \cup {None} /\ CanReturn
    <3>1. CASE ret' = None
      BY <3>1 DEF CanReturn
    <3>2. CASE b \notin Roots /\ ret' = Frame(b)
      BY <1>1, <3>2, ResultFacts DEF CanReturn
    <3> QED BY <2>1, <3>1, <3>2
  <2>4. TypesInv'
    BY <1>1, <1>3, <1>5, <1>6, <2>1, <2>2, <2>3 DEF TypesInv, tree, lists
  <2> QED BY <1>1, <1>4, <2>1, <2>2, <2>3, <2>4, LeavesKeeps
<1> QED BY <1>9, <1>10

\* The C stack stays well formed by the end of finalize_block after the drain
\* it entered.
LEMMA FinalizeReturnsCalls ==
  ASSUME TypesInv, CallsInv, NEW b \in Blocks, FinalizeReturns(b)
  PROVE  TypesInv' /\ CallsInv'
<1>1. /\ ret = None /\ Running("block") /\ Innermost.block = b /\ stack # <<>>
      /\ Innermost.at = "block"
      /\ ~Running("drain") /\ ~Running("process")
      /\ UNCHANGED <<answer, promiseVars, frames, tree, lists, response>>
  BY Here DEF FinalizeReturns, Finalizing
<1>2. Extends(Len(stack) - 1)
  BY <1>1, ExtendsBelow DEF frames
<1>3. CASE b \in Roots /\ Finalizing(b, 1) /\ response = None /\ unresolved[b] = 0
  <2>1. EnqueueAndDrain(TRUE, b, ready, Advance) /\ ret' = ret
    BY <1>3 DEF FinalizeReturns
  <2>2. Innermost.index = Len(Ops[b]) + 1
    BY <1>3 DEF Finalizing
  <2>3. PICK t \in Calls : t = Advanced(Innermost)
        /\ t = OpLoop(b, Innermost.index + 1)
    BY <1>1, HereBlock, MadeCalls DEF Advanced
  <2>4. t.at = "block" /\ t.block = b /\ t.index = Len(Ops[b]) + 2
    BY <2>2, <2>3, <1>1, MadeBlock, HereBlock
  <2>5. SameCall(t) /\ IndexFits(t, entries')
    BY <2>4, <1>1, HereBlock DEF SameCall, IndexFits
  <2>6. EnqueueAndDrain(TRUE, b, ready, Top(t)) /\ ready \in Seq(Blocks \cup {None})
    BY <2>1, <2>3 DEF Advance, TypesInv
  <2>7. /\ stack' \in Seq(Calls) /\ ready' \in Seq(Blocks \cup {None})
        /\ draining' \in BOOLEAN
        /\ \/ Becomes(t) /\ draining' = draining
           \/ BecomesAndEnters(t, DrainLoop) /\ ~draining /\ draining'
    BY <1>1, <2>6, EnqueueAndDrainFacts
  <2>8. TypesInv'
    BY <1>1, <2>1, <2>7 DEF TypesInv, tree, lists, frames, promiseVars
  <2> QED BY <1>1, <1>2, <2>1, <2>4, <2>5, <2>7, <2>8, EnqueueAndDrainKeeps
<1>4. CASE ~(b \in Roots /\ Finalizing(b, 1) /\ response = None /\ unresolved[b] = 0)
  <2>1. /\ stack' = Pop /\ draining' = draining /\ ready' = ready
        /\ ret' = None \/ (b \notin Roots /\ ret' = Frame(b))
    BY <1>4 DEF FinalizeReturns
  <2>2. stack' \in Seq(Calls) /\ Leaves
    BY <1>1, <2>1, PopFacts
  <2>3. ret' \in Results \cup {None} /\ CanReturn
    <3>1. CASE ret' = None
      BY <3>1 DEF CanReturn
    <3>2. CASE b \notin Roots /\ ret' = Frame(b)
      BY <1>1, <3>2, ResultFacts DEF CanReturn
    <3> QED BY <2>1, <3>1, <3>2
  <2>4. TypesInv'
    BY <1>1, <2>1, <2>2, <2>3 DEF TypesInv, tree, lists, frames, promiseVars
  <2> QED BY <1>1, <1>2, <2>1, <2>2, <2>3, <2>4, LeavesKeeps
<1> QED BY <1>3, <1>4

\* The types of an item slot.
LEMMA SlotFacts ==
  \A v \in {"none", "null", "value"}, p, c \in BOOLEAN : Slot(v, p, c) \in ItemSet
BY DEF Slot, ItemSet

\* Completing a list item keeps the calls in order.
LEMMA CompleteItemKeeps ==
  ASSUME TypesInv, CallsInv, NEW p \in BOOLEAN, CompleteItem(CurrentItem, p),
         ret = None, Running("list"), Within(Len(stack)),
         promise' \in [Promises -> {"pending", "settled"}],
         UNCHANGED <<answer, subs, entries, unresolved, link, ctx, owned, values, nulled,
                     errors, ready, draining, ret, response>>
  PROVE  TypesInv' /\ CallsInv'
<1>1. stack # <<>> /\ ~Running("drain") /\ ~Running("process")
  BY Here
<1>2. PICK b \in Blocks : b = CurrentItem /\ b \in Items /\ Executes(Len(stack), b)
  BY HereList
<1>3. Extends(Len(stack)) /\ Extends(Len(stack) - 1)
  BY <1>1, ExtendsBelow
<1>4. CASE answer[b] = "value"
  <2>1. /\ item' = [item EXCEPT ![b] = Slot("none", p, FALSE)]
        /\ stack' = Push(OpLoop(b, 0))
        /\ life' = [life EXCEPT ![b] = "running"]
    BY <1>2, <1>4 DEF CompleteItem
  <2>2. PICK u \in Calls : u = OpLoop(b, 0)
    BY MadeCalls
  <2>3. u.at = "block" /\ u.block = b /\ u.index = 0
    BY <2>2, MadeBlock
  <2>4. stack' \in Seq(Calls) /\ Enters(u)
    BY <2>1, <2>2, PushFacts
  <2>5. item' \in [Items -> ItemSet] /\ life' \in [Blocks -> {"none", "running", "suspended", "done"}]
    BY <2>1, SlotFacts DEF TypesInv
  <2>6. TypesInv'
    BY <2>4, <2>5 DEF TypesInv
  <2>7. CanEnter(u)
    BY <1>1, <1>2, <2>3 DEF CanEnter
  <2> QED BY <1>3, <2>4, <2>6, <2>7, EntersKeeps
<1>5. CASE answer[b] # "value"
  <2>1. /\ item' = [item EXCEPT ![b] = Slot("null", p, answer[b] = "error")]
        /\ stack' = Advance /\ life' = life
    BY <1>2, <1>5 DEF CompleteItem
  <2>2. PICK t \in Calls : t = Advanced(Innermost) /\ SameCall(t) /\ IndexFits(t, entries')
    BY <1>1, AdvancedFacts
  <2>3. stack' \in Seq(Calls) /\ Becomes(t)
    BY <1>1, <2>1, <2>2, TopFacts DEF Advance
  <2>4. item' \in [Items -> ItemSet]
    BY <2>1, SlotFacts DEF TypesInv
  <2>5. TypesInv'
    BY <2>1, <2>3, <2>4 DEF TypesInv
  <2> QED BY <1>3, <2>2, <2>3, <2>5, BecomesKeeps
<1> QED BY <1>4, <1>5

\* The C stack stays well formed by an item that is a value.
LEMMA ItemIsValueCalls ==
  ASSUME TypesInv, CallsInv, NEW f \in Fields, ItemIsValue(f)
  PROVE  TypesInv' /\ CallsInv'
<1>1. ret = None /\ Running("list") /\ Within(Len(stack)) /\ CompleteItem(CurrentItem, FALSE)
  BY HereList DEF ItemIsValue, InItemLoop
<1>2. UNCHANGED <<answer, promise, subs, entries, unresolved, link, ctx, owned, values, nulled,
                  errors, ready, draining, ret, response>>
  BY DEF ItemIsValue, promiseVars, tree
<1>3. promise' \in [Promises -> {"pending", "settled"}]
  BY <1>2 DEF TypesInv
<1> QED BY <1>1, <1>2, <1>3, CompleteItemKeeps

\* The C stack stays well formed by an item that is a promise, settled or
\* not.
LEMMA ItemIsPromiseCalls ==
  ASSUME TypesInv, CallsInv, NEW f \in Fields, ItemIsPromise(f)
  PROVE  TypesInv' /\ CallsInv'
<1>1. /\ ret = None /\ Running("list") /\ Within(Len(stack)) /\ stack # <<>>
      /\ ~Running("process") /\ CurrentItem \in DOMAIN PromiseOf
      /\ UNCHANGED <<answer, entries, unresolved, link, ctx, owned, values, nulled,
                     errors, ready, draining, ret, response>>
  BY HereList, Here DEF ItemIsPromise, InItemLoop, tree
<1>2. PICK p \in Promises : p = PromiseOf[CurrentItem] /\ ReturnsPromise(p)
  BY <1>1, PromiseFacts DEF ItemIsPromise
<1>3. promise' \in [Promises -> {"pending", "settled"}]
  BY <1>2, ReturnsPromiseFacts
<1>4. CASE promise'[p] = "settled"
  <2>1. CompleteItem(CurrentItem, TRUE) /\ subs' = subs
    BY <1>2, <1>4 DEF ItemIsPromise
  <2> QED BY <1>1, <1>3, <2>1, CompleteItemKeeps
<1>5. CASE promise'[p] # "settled"
  <2>1. PICK b \in Items : b = CurrentItem
    BY <1>1, HereList
  <2>2. /\ subs' = [subs EXCEPT ![p] = @ \cup {b}]
        /\ item' = [item EXCEPT ![b] = Slot("none", TRUE, FALSE)]
        /\ stack' = Advance /\ life' = life
    BY <1>2, <1>5, <2>1 DEF ItemIsPromise
  <2>3. PICK t \in Calls : t = Advanced(Innermost) /\ SameCall(t) /\ IndexFits(t, entries')
    BY <1>1, AdvancedFacts
  <2>4. stack' \in Seq(Calls) /\ Becomes(t)
    BY <1>1, <2>2, <2>3, TopFacts DEF Advance
  <2>5. item' \in [Items -> ItemSet]
    BY <2>2, SlotFacts DEF TypesInv
  <2>6. subs' \in [Promises -> SUBSET Positions]
    BY <2>2 DEF TypesInv, Positions
  <2>7. TypesInv'
    BY <1>1, <1>3, <2>2, <2>4, <2>5, <2>6 DEF TypesInv
  <2> QED BY <1>1, <2>3, <2>4, <2>7, ExtendsBelow, BecomesKeeps
<1> QED BY <1>4, <1>5

\* The C stack stays well formed by the item loop that takes the frame or the
\* outcome of an item's block.
LEMMA ListTakesResultCalls ==
  ASSUME TypesInv, CallsInv, NEW f \in Fields, ListTakesResult(f)
  PROVE  TypesInv' /\ CallsInv'
<1>1. /\ ret # None /\ ret' = None /\ Running("list") /\ stack # <<>>
      /\ Within(Len(stack)) /\ ~Running("process") /\ ret \in Results
      /\ stack' = Advance
      /\ UNCHANGED <<answer, promiseVars, frames, left, owned, tree, ready,
                     draining, response>>
  BY Here DEF ListTakesResult, TypesInv
<1>2. PICK t \in Calls : t = Advanced(Innermost) /\ SameCall(t) /\ IndexFits(t, entries')
  <2>1. UNCHANGED entries
    BY <1>1 DEF frames
  <2> QED BY <1>1, <2>1, AdvancedFacts
<1>3. stack' \in Seq(Calls) /\ Becomes(t)
  BY <1>1, <1>2, TopFacts DEF Advance
<1>4. item' \in [Items -> ItemSet]
  <2>1. PICK b \in Items : b = CurrentItem
    BY <1>1, HereList
  <2>2. /\ item[b].value \in {"none", "null", "value"}
        /\ item[b].promised \in BOOLEAN /\ item[b].carries \in BOOLEAN
    BY DEF TypesInv, ItemSet
  <2>3. ret.null \in BOOLEAN
    BY <1>1, ResultFacts
  <2>4. PICK slot \in ItemSet : item' = [item EXCEPT ![b] = slot]
    <3>1. CASE ret.kind = "frame"
      BY <3>1, <2>1, <2>2, SlotFacts DEF ListTakesResult
    <3>2. CASE ret.kind # "frame"
      BY <3>2, <2>1, <2>2, <2>3, SlotFacts DEF ListTakesResult
    <3> QED BY <3>1, <3>2
  <2> QED BY <2>4 DEF TypesInv
<1>5. TypesInv'
  BY <1>1, <1>3, <1>4 DEF TypesInv, promiseVars, frames, tree
<1> QED BY <1>1, <1>2, <1>3, <1>5, ExtendsBelow, BecomesKeeps DEF frames

\* The C stack stays well formed by a list all items of which have resolved.
LEMMA ListCompleteCalls ==
  ASSUME TypesInv, CallsInv, NEW f \in Fields, ListComplete(f)
  PROVE  TypesInv' /\ CallsInv'
<1>1. /\ ret = None /\ Running("list") /\ Innermost.field = f /\ stack # <<>>
      /\ ~Running("drain")
      /\ stack' = Pop /\ ret' = Outcome(ListNulls(f))
      /\ UNCHANGED <<answer, promiseVars, frames, values, nulled, lists, ready,
                     draining, response>>
  BY Here DEF ListComplete, InItemLoop, Returns
<1>2. ListNulls(f) \in BOOLEAN
  BY DEF ListNulls
<1>3. ret' \in Results /\ CanReturn
  BY <1>1, <1>2, ResultFacts DEF CanReturn
<1>4. stack' \in Seq(Calls) /\ Leaves
  BY <1>1, PopFacts
<1>5. errors' \in [{"raised", "nonnull"} \X Positions -> Nat]
  BY BumpFacts DEF ListComplete
<1>6. TypesInv'
  BY <1>1, <1>3, <1>4, <1>5 DEF TypesInv, promiseVars, frames, lists
<1> QED BY <1>1, <1>3, <1>4, <1>6, ExtendsBelow, LeavesKeeps DEF frames

\* The C stack stays well formed by a list some items of which are pending.
LEMMA ListPendsCalls ==
  ASSUME TypesInv, CallsInv, NEW f \in Fields, ListPends(f)
  PROVE  TypesInv' /\ CallsInv'
<1>1. /\ ret = None /\ Running("list") /\ Innermost.field = f /\ stack # <<>>
      /\ ~Running("drain") /\ f \in Lists
      /\ stack' = Pop /\ ret' = [kind |-> "list", of |-> f, null |-> FALSE]
      /\ UNCHANGED <<answer, promiseVars, frames, values, nulled, item, owned,
                     ready, draining, response>>
  BY Here, HereList DEF ListPends, InItemLoop, Returns
<1>2. ret' \in Results /\ ret'.kind = "list" /\ ret'.of = f
  BY <1>1 DEF Results
<1>3. CanReturn
  BY <1>1, <1>2 DEF CanReturn
<1>4. stack' \in Seq(Calls) /\ Leaves
  BY <1>1, PopFacts
<1>5. errors' \in [{"raised", "nonnull"} \X Positions -> Nat]
  BY BumpFacts DEF ListPends
<1>6. TypesInv'
  BY <1>1, <1>2, <1>4, <1>5 DEF TypesInv, promiseVars, frames
<1> QED BY <1>1, <1>3, <1>4, <1>6, ExtendsBelow, LeavesKeeps DEF frames

\* Only one frame is processed or resolved at a time, and a drain asks nothing.
LEMMA OneProcess ==
  ASSUME TypesInv, CallsInv
  PROVE  /\ \A m, n \in Depths :
              (At(m, "process") \/ At(m, "resolve")) /\ (At(n, "process") \/ At(n, "resolve"))
                => m = n
         /\ Running("drain") \/ Running("resolve") => ret = None
         /\ Running("process") \/ Running("resolve") => draining
         /\ stack = <<>> => ret = None /\ ~draining
<1>1. Len(stack) \in Nat /\ Depths = 1 .. Len(stack)
  BY DEF TypesInv, Depths
<1>2. \A n \in Depths : At(n, "process") \/ At(n, "resolve")
                        => n - 1 \in Depths /\ At(n - 1, "drain")
  BY <1>1 DEF CallsInv, CallerOK
<1>3. \A m, n \in Depths :
        (At(m, "process") \/ At(m, "resolve")) /\ (At(n, "process") \/ At(n, "resolve"))
          => m = n
  <2>1. SUFFICES ASSUME NEW m \in Depths, NEW n \in Depths,
                        At(m, "process") \/ At(m, "resolve"),
                        At(n, "process") \/ At(n, "resolve")
                 PROVE  m = n
    OBVIOUS
  <2>2. m - 1 = n - 1
    BY <2>1, <1>2 DEF CallsInv, OneDrain
  <2> QED BY <2>2, <1>1
<1>4. Running("drain") \/ Running("resolve") => ret = None
  BY Here DEF CallsInv, ReturnOK
<1>5. Running("process") \/ Running("resolve") => draining
  BY <1>2, Here DEF CallsInv, OneDrain
<1>6. stack = <<>> => Depths = {}
  BY <1>1
<1>7. stack = <<>> => ret = None /\ ~draining
  BY <1>6 DEF CallsInv, OneDrain, ReturnOK, At
<1> QED BY <1>3, <1>4, <1>5, <1>7

\* process_frame starts before its first entry.
LEMMA StartedProcess ==
  \A b \in Blocks : ProcessLoop(b, 0, <<>>) \in Calls
<1>1. <<>> \in Seq(EntrySet)
  OBVIOUS
<1> QED BY <1>1, MadeCalls

\* The C stack stays well formed by drain_scheduler that takes the last frame
\* of the queue, or finds it empty.
LEMMA DrainNextCalls ==
  ASSUME TypesInv, CallsInv, DrainNext
  PROVE  TypesInv' /\ CallsInv'
<1>1. /\ Running("drain") /\ stack # <<>> /\ Innermost \in Calls /\ Innermost.at = "drain"
      /\ UNCHANGED <<answer, promiseVars, frames, tree, lists, ret, response>>
      /\ ret = None /\ ready \in Seq(Blocks \cup {None})
  BY Here, OneProcess DEF DrainNext, TypesInv
<1>2. Extends(Len(stack)) /\ Extends(Len(stack) - 1)
  BY <1>1, ExtendsBelow DEF frames
<1>3. CASE ready = <<>>
  <2>1. draining' = FALSE /\ stack' = Pop /\ ready' = ready
    BY <1>3 DEF DrainNext
  <2>2. stack' \in Seq(Calls) /\ Leaves
    BY <1>1, <2>1, PopFacts
  <2>3. TypesInv'
    BY <1>1, <2>1, <2>2 DEF TypesInv, promiseVars, frames, tree, lists
  <2> QED BY <1>1, <1>2, <2>1, <2>2, <2>3, LeavesKeeps
<1>4. CASE ready # <<>>
  <2>1. /\ ready' = SubSeq(ready, 1, Len(ready) - 1) /\ draining' = draining
        /\ stack' = IF ready[Len(ready)] = None THEN stack
                    ELSE Push(ProcessLoop(ready[Len(ready)], 0, <<>>))
    BY <1>4 DEF DrainNext
  <2>2. ready' \in Seq(Blocks \cup {None}) /\ ready[Len(ready)] \in Blocks \cup {None}
    BY <1>1, <1>4, <2>1
  <2>3. CASE ready[Len(ready)] = None
    <3>1. stack' = stack
      BY <2>1, <2>3
    <3>2. Becomes(Innermost)
      BY <1>1, <3>1, InnermostFacts DEF Becomes, SameBelow
    <3>3. TypesInv'
      BY <1>1, <2>1, <2>2, <3>1 DEF TypesInv, promiseVars, frames, tree, lists
    <3>4. SameCall(Innermost) /\ IndexFits(Innermost, entries')
      BY <1>1 DEF SameCall, IndexFits
    <3> QED BY <1>1, <1>2, <2>1, <3>2, <3>3, <3>4, BecomesKeeps
  <2>4. CASE ready[Len(ready)] # None
    <3>1. PICK b \in Blocks : b = ready[Len(ready)]
      BY <2>2, <2>4
    <3>2. PICK u \in Calls : u = ProcessLoop(b, 0, <<>>)
      BY StartedProcess
    <3>3. u.at = "process" /\ u.block = b /\ u.index = 0 /\ u.next = <<>>
      BY <3>2, MadeProcess
    <3>4. stack' \in Seq(Calls) /\ Enters(u)
      BY <2>1, <2>4, <3>1, <3>2, PushFacts
    <3>5. TypesInv'
      BY <1>1, <2>1, <2>2, <3>4 DEF TypesInv, promiseVars, frames, tree, lists
    <3>6. CanEnter(u)
      BY <1>1, <3>3 DEF CanEnter
    <3> QED BY <1>1, <1>2, <2>1, <3>4, <3>5, <3>6, EntersKeeps
  <2> QED BY <2>3, <2>4
<1> QED BY <1>3, <1>4

\* Moving an entry to the rebuilt array.
LEMMA MoveToFacts ==
  ASSUME TypesInv, CallsInv, Running("process"), EntriesLeft, NEW e \in EntrySet,
         stack' = MoveTo(e)
  PROVE  \E t \in Calls :
           /\ t = ProcessLoop(Innermost.block, Innermost.index + 1, Append(Innermost.next, e))
           /\ t.at = "process" /\ t.block = Innermost.block /\ t.index = Innermost.index + 1
           /\ t.next = Append(Innermost.next, e)
           /\ stack' \in Seq(Calls) /\ Becomes(t) /\ SameCall(t) /\ IndexFits(t, entries)
<1>1. stack # <<>> /\ Innermost.at = "process"
  BY Here
<1>2. /\ Innermost.block \in Blocks /\ Innermost.index + 1 \in Nat
      /\ Append(Innermost.next, e) \in Seq(EntrySet)
      /\ Innermost.index + 1 <= Len(entries[Innermost.block])
      /\ Len(Append(Innermost.next, e)) <= Innermost.index + 1
  BY HereProcess
<1>7. PICK next \in Seq(EntrySet) : next = Append(Innermost.next, e)
  BY <1>2
<1>8. PICK i \in Nat : i = Innermost.index + 1
  BY <1>2
<1>3. PICK t \in Calls : t = ProcessLoop(Innermost.block, i, next)
  BY <1>2, MadeCalls
<1>9. t.at = "process" /\ t.block = Innermost.block /\ t.index = i /\ t.next = next
  BY <1>3, MadeProcess
<1>4. /\ t.at = "process" /\ t.block = Innermost.block /\ t.index = Innermost.index + 1
      /\ t.next = Append(Innermost.next, e)
  BY <1>7, <1>8, <1>9
<1>5. stack' \in Seq(Calls) /\ Becomes(t)
  BY <1>1, <1>3, <1>7, <1>8, TopFacts DEF MoveTo
<1>6. SameCall(t) /\ IndexFits(t, entries)
  BY <1>1, <1>2, <1>4 DEF SameCall, IndexFits
<1> QED BY <1>3, <1>4, <1>5, <1>6, <1>7, <1>8

\* The C stack stays well formed by process_frame that keeps an entry that is
\* not ready in the rebuilt array.
LEMMA ProcessMovesCalls ==
  ASSUME TypesInv, CallsInv, NEW b \in Blocks, ProcessMoves(b)
  PROVE  TypesInv' /\ CallsInv'
<1>1. /\ ret = None /\ Running("process") /\ EntriesLeft /\ stack # <<>>
      /\ CurrentEntry \in EntrySet /\ NextIndex \in Nat
      /\ UNCHANGED <<answer, promiseVars, entries, unresolved, life, tree, lists,
                     ready, draining, ret, response>>
  BY HereProcess, Here DEF ProcessMoves, InProcessLoop, NextIndex
<1>2. PICK e \in EntrySet : e = CurrentEntry
  BY <1>1
<1>3. PICK t \in Calls : /\ stack' \in Seq(Calls) /\ Becomes(t) /\ SameCall(t)
                         /\ IndexFits(t, entries)
  BY <1>1, <1>2, MoveToFacts DEF ProcessMoves
<1>4. link' \in [Blocks -> Nat]
  BY <1>1 DEF ProcessMoves, TypesInv
<1>5. ctx' \in [Fields -> Nat]
  BY <1>1 DEF ProcessMoves, TypesInv
<1>6. TypesInv'
  BY <1>1, <1>3, <1>4, <1>5 DEF TypesInv, promiseVars, tree, lists
<1> QED BY <1>1, <1>3, <1>6, ExtendsBelow, BecomesKeeps

\* The C stack stays well formed by process_frame that completes a ready
\* entry with a value.
LEMMA ProcessConsumesCalls ==
  ASSUME TypesInv, CallsInv, NEW b \in Blocks, ProcessConsumes(b)
  PROVE  TypesInv' /\ CallsInv'
<1>1. /\ ret = None /\ Running("process") /\ Innermost.block = b /\ EntriesLeft /\ stack # <<>>
      /\ Within(Len(stack)) /\ FieldOf(Len(stack)) = CurrentEntry.field
      /\ CurrentEntry.field \in Fields
      /\ UNCHANGED <<answer, promiseVars, entries, unresolved, link, ctx, lists,
                     ready, draining, ret, response>>
  BY HereProcess, Here DEF ProcessConsumes, InProcessLoop
<1>2. PICK f \in Fields : f = CurrentEntry.field
  BY <1>1
<1>3. CASE CompleteField(b, f, answer[f])
  BY <1>1, <1>2, <1>3, CompleteFieldKeeps DEF promiseVars, lists
<1>4. CASE ~CompleteField(b, f, answer[f])
  <2>1. stack' = Advance /\ life' = life
    BY <1>2, <1>4 DEF ProcessConsumes
  <2>2. PICK t \in Calls : t = Advanced(Innermost) /\ SameCall(t) /\ IndexFits(t, entries')
    <3>1. Len(entries'[Innermost.block]) \in Nat
          /\ Len(entries[Innermost.block]) <= Len(entries'[Innermost.block])
      BY <1>1, HereProcess
    <3> QED BY <1>1, <3>1, AdvancedFacts
  <2>3. stack' \in Seq(Calls) /\ Becomes(t)
    BY <1>1, <2>1, <2>2, TopFacts DEF Advance
  <2>4. /\ values' \in [Fields -> {"unset", "null", "value"}]
        /\ nulled' \in [Blocks -> BOOLEAN]
        /\ errors' \in [{"raised", "nonnull"} \X Positions -> Nat]
    <3>1. CASE Consume(b, f, nulled[Children[f][1]], TRUE, FALSE)
      BY <3>1, ConsumeFacts
    <3>2. CASE ~Consume(b, f, nulled[Children[f][1]], TRUE, FALSE)
      <4>1. PICK yes \in BOOLEAN : \E S :
              /\ values' = [values EXCEPT ![f] = IF ListNulls(f) THEN "null" ELSE "value"]
              /\ nulled' = [nulled EXCEPT ![b] = nulled[b] \/ yes]
              /\ errors' = Bump(errors, S)
        BY <1>2, <1>4, <3>2 DEF ProcessConsumes, ListNulls
      <4>2. errors' \in [{"raised", "nonnull"} \X Positions -> Nat]
        BY <4>1, BumpFacts
      <4>3. values' \in [Fields -> {"unset", "null", "value"}]
        BY <4>1 DEF TypesInv
      <4> QED BY <4>1, <4>2, <4>3 DEF TypesInv
    <3> QED BY <3>1, <3>2
  <2>5. TypesInv'
    BY <1>1, <2>1, <2>3, <2>4 DEF TypesInv, promiseVars, lists
  <2> QED BY <1>1, <2>2, <2>3, <2>5, ExtendsBelow, BecomesKeeps
<1> QED BY <1>3, <1>4

\* The C stack stays well formed by process_frame that takes the frame or
\* outcome of the block a ready entry started.
LEMMA ProcessTakesResultCalls ==
  ASSUME TypesInv, CallsInv, NEW b \in Blocks, ProcessTakesResult(b)
  PROVE  TypesInv' /\ CallsInv'
<1>1. /\ ret # None /\ ret' = None /\ Running("process") /\ Innermost.block = b /\ stack # <<>>
      /\ Within(Len(stack)) /\ EntriesLeft /\ FieldOf(Len(stack)) = CurrentEntry.field
      /\ CurrentEntry.field \in Fields /\ ret \in Results
      /\ NextIndex \in Nat
      /\ UNCHANGED <<answer, promiseVars, entries, unresolved, ctx, life, item,
                     left, draining, response>>
  BY HereProcess, Here DEF ProcessTakesResult, TypesInv, NextIndex
<1>2. PICK f \in Fields : f = CurrentEntry.field
  BY <1>1
<1>3. CASE ret.kind = "outcome"
  <2>1. Consume(b, f, ret.null, TRUE, FALSE) /\ stack' = Advance
        /\ UNCHANGED <<link, owned, ready>>
    BY <1>2, <1>3 DEF ProcessTakesResult
  <2>2. PICK t \in Calls : t = Advanced(Innermost) /\ SameCall(t) /\ IndexFits(t, entries')
    <3>1. Len(entries'[Innermost.block]) \in Nat
          /\ Len(entries[Innermost.block]) <= Len(entries'[Innermost.block])
      BY <1>1, HereProcess
    <3> QED BY <1>1, <3>1, AdvancedFacts
  <2>3. stack' \in Seq(Calls) /\ Becomes(t)
    BY <1>1, <2>1, <2>2, TopFacts DEF Advance
  <2>4. TypesInv'
    BY <1>1, <2>1, <2>3, ConsumeFacts DEF TypesInv, promiseVars
  <2> QED BY <1>1, <2>2, <2>3, <2>4, ExtendsBelow, BecomesKeeps
<1>4. CASE ret.kind \in {"frame", "list"}
  <2>1. PICK e \in EntrySet : e = AdoptedEntry(f)
    BY <1>1, <1>4, AdoptedFacts
  <2>2. stack' = MoveTo(e) /\ UNCHANGED tree
    BY <1>2, <1>4, <2>1 DEF ProcessTakesResult
  <2>3. PICK t \in Calls : /\ stack' \in Seq(Calls) /\ Becomes(t) /\ SameCall(t)
                           /\ IndexFits(t, entries)
    BY <1>1, <2>2, MoveToFacts
  <2>4. ret.kind = "frame" => ret.of \in Blocks
    BY <1>1, ResultFacts
  <2>5. link' \in [Blocks -> Nat] /\ ready' \in Seq(Blocks \cup {None})
    <3>1. link' = link \/ link' = [link EXCEPT ![ret.of] = NextIndex]
      BY <1>4 DEF ProcessTakesResult
    <3>2. ready' = ready \/ (ret.kind = "frame" /\ ready' = Enqueued(ret.of, ready))
      BY <1>4 DEF ProcessTakesResult
    <3>3. link' \in [Blocks -> Nat]
      BY <1>1, <3>1 DEF TypesInv
    <3> QED BY <2>4, <3>2, <3>3, QueueFacts DEF TypesInv
  <2>6. owned' \subseteq Lists
    <3>1. ret.kind = "list" => ret.of \in Lists /\ ret.of = f
      BY <1>1, <1>2, ResultFacts DEF CallsInv, ReturnOK, Completing
    <3> QED BY <1>2, <1>4, <3>1 DEF ProcessTakesResult, TypesInv, Adopts
  <2>7. TypesInv'
    BY <1>1, <2>2, <2>3, <2>5, <2>6 DEF TypesInv, promiseVars, tree
  <2> QED BY <1>1, <2>3, <2>7, ExtendsBelow, BecomesKeeps
<1> QED BY <1>1, <1>3, <1>4, ResultFacts

\* The C stack stays well formed by process_frame that swaps the rebuilt
\* array in and counts what still waits.
LEMMA ProcessEndsCalls ==
  ASSUME TypesInv, CallsInv, NEW b \in Blocks, ProcessEnds(b)
  PROVE  TypesInv' /\ CallsInv'
<1>1. /\ ret = None /\ Running("process") /\ Innermost.block = b /\ stack # <<>>
      /\ Innermost.at = "process" /\ ~Running("drain") /\ At(Len(stack), "process")
      /\ Len(stack) \in Depths /\ Innermost.next \in Seq(EntrySet)
      /\ UNCHANGED <<answer, promise, life, link, tree, lists, draining, ret,
                     response>>
  BY HereProcess, Here DEF ProcessEnds, InProcessLoop
<1>2. PICK next \in Seq(EntrySet) : next = Innermost.next /\ ArmFrame(b, next)
  BY <1>1 DEF ProcessEnds
<1>3. /\ entries' \in [Blocks -> Seq(EntrySet)]
      /\ \A c \in Blocks : c # b => entries'[c] = entries[c]
      /\ unresolved' \in [Blocks -> Nat]
      /\ ctx' \in [Fields -> Nat]
      /\ subs' \in [Promises -> SUBSET Positions]
      /\ Len(entries'[b]) = Len(next)
  BY <1>2, ArmFacts
<1>4. Extends(Len(stack) - 1)
  <2>1. \A n \in 1 .. Len(stack) - 1 : n \in Depths /\ ~At(n, "process")
    <3>1. \A n \in 1 .. Len(stack) - 1 : n \in Depths /\ n # Len(stack)
      BY <1>1, Shorter DEF Depths
    <3> QED BY <1>1, <3>1, OneProcess
  <2> QED BY <2>1 DEF Extends
<1>5. ready' \in Seq(Blocks \cup {None})
  <2>1. ready' = Enqueued(b, ready) \/ ready' = ready
    BY DEF ProcessEnds
  <2> QED BY ZenonT(60), <2>1, QueueFacts DEF TypesInv
<1>6. CASE stack' = Pop
  <2>1. stack' \in Seq(Calls) /\ Leaves
    BY <1>1, <1>6, PopFacts
  <2>2. TypesInv'
    BY <1>1, <1>3, <1>5, <2>1 DEF TypesInv, tree, lists
  <2>3. CanReturn
    BY <1>1 DEF CanReturn
  <2> QED BY <1>1, <1>4, <2>1, <2>2, <2>3, LeavesKeeps
<1>7. CASE stack' # Pop
  <2>0. ResolveCall(b) \in Calls /\ ProcessLoop(b, 0, <<>>) \in Calls
    BY MadeCalls, StartedProcess
  <2>1. PICK t \in Calls : /\ stack' = Top(t)
                           /\ t = ResolveCall(b) \/ t = ProcessLoop(b, 0, <<>>)
    BY <1>2, <1>7, <2>0 DEF ProcessEnds
  <2>2. \/ t.at = "resolve" /\ t.block = b
        \/ t.at = "process" /\ t.block = b /\ t.index = 0 /\ Len(t.next) = 0
    BY <2>1, MadeOthers, MadeProcess
  <2>3. stack' \in Seq(Calls) /\ Becomes(t)
    BY <1>1, <2>1, TopFacts
  <2>4. Len(entries'[b]) \in Nat
    BY <1>3
  <2>5. SameCall(t) /\ IndexFits(t, entries')
    BY <1>1, <2>2, <2>4 DEF SameCall, IndexFits
  <2>6. TypesInv'
    BY <1>1, <1>3, <1>5, <2>3 DEF TypesInv, tree, lists
  <2> QED BY <1>1, <1>4, <2>3, <2>5, <2>6, BecomesKeeps
<1> QED BY <1>6, <1>7

\* The promise of an item resolves: the calls and the types.
LEMMA ItemResolvesFacts ==
  ASSUME TypesInv, NEW b \in Items, NEW null, NEW raised \in BOOLEAN, NEW newStack,
         ItemResolves(b, null, raised, newStack)
  PROVE  /\ item' \in [Items -> ItemSet]
         /\ errors' \in [{"raised", "nonnull"} \X Positions -> Nat]
         /\ Dequeued(b) \in Seq(Blocks \cup {None})
         /\ ListOf(b) \in Lists /\ Home(ListOf(b)) \in Blocks
         /\ \E wanted \in BOOLEAN :
              /\ EnqueueAndDrain(wanted, Home(ListOf(b)), Dequeued(b), newStack)
              /\ wanted => ListOf(b) \in owned
<1>1. ListOf(b) \in Lists /\ Home(ListOf(b)) \in Blocks /\ b \in Blocks
  BY ChildFacts, HomeFacts
<1>2. Dequeued(b) \in Seq(Blocks \cup {None})
  BY <1>1, DequeuedFacts
<1>3. item[b].promised \in BOOLEAN
  BY DEF TypesInv, ItemSet
<1>4. PICK slot \in ItemSet : item' = [item EXCEPT ![b] = slot]
  BY <1>3, SlotFacts DEF ItemResolves
<1>5. errors' \in [{"raised", "nonnull"} \X Positions -> Nat]
  <2>1. errors' = errors \/ errors' = Bump(errors, {<<"raised", b>>})
    BY DEF ItemResolves
  <2> QED BY <2>1, BumpFacts DEF TypesInv
<1>6. PICK wanted \in BOOLEAN :
        wanted = (/\ left[ListOf(b)] # None
                  /\ (IF left[ListOf(b)] # None /\ left[ListOf(b)] > 0
                      THEN left[ListOf(b)] - 1 ELSE 0) = 0
                  /\ ListOf(b) \in owned)
  OBVIOUS
<1>7. EnqueueAndDrain(wanted, Home(ListOf(b)), Dequeued(b), newStack)
  BY <1>6 DEF ItemResolves
<1>8. item' \in [Items -> ItemSet]
  BY <1>4 DEF TypesInv
<1> QED BY <1>1, <1>2, <1>5, <1>6, <1>7, <1>8

\* Roots and items are blocks.
LEMMA RootOrItem ==
  Roots \subseteq Blocks /\ Items \subseteq Blocks
BY TypesAssumption, ChildFacts

\* The C stack stays well formed by resolve_frame that stores a block's
\* outcome in its parent and enqueues it.
LEMMA ResolveFrameCalls ==
  ASSUME TypesInv, CallsInv, NEW b \in Blocks, ResolveFrame(b)
  PROVE  TypesInv' /\ CallsInv'
<1>1. /\ Running("resolve") /\ stack # <<>> /\ ret = None /\ draining /\ ~Running("drain")
      /\ life' = [life EXCEPT ![b] = "done"]
      /\ UNCHANGED <<answer, promiseVars, link, ctx, values, nulled, ret>>
  BY Here, OneProcess DEF ResolveFrame
<1>2. life' \in [Blocks -> {"none", "running", "suspended", "done"}]
  BY <1>1 DEF TypesInv
<1>3. PICK k \in Nat : k = Len(stack) - 1 /\ k <= Len(stack)
  BY <1>1, Shorter
<1>4. Dequeued(b) \in Seq(Blocks \cup {None})
  BY DequeuedFacts
<1>5. ASSUME stack' = Pop, draining' = draining, Extends(k), TypesInv'
      PROVE  CallsInv'
  <2>1. Leaves
    BY <1>1, <1>5, PopFacts
  <2>2. CanReturn
    BY <1>1 DEF CanReturn
  <2> QED BY <1>1, <1>3, <1>5, <2>1, <2>2, LeavesKeeps
<1>6. CASE \E f \in Fields \ Lists :
             /\ b \in Range(Children[f])
             /\ ResolveIntoParent(b, CHOOSE g \in Fields : b \in Range(Children[g]))
             /\ UNCHANGED <<lists, errors, draining, response>>
  <2>1. PICK f \in Fields :
          f = (CHOOSE g \in Fields : b \in Range(Children[g]))
    BY <1>6
  <2>2. PICK p \in Blocks : p = Home(f)
    BY HomeFacts
  <2>3. /\ ResolveIntoParent(b, f)
        /\ UNCHANGED <<lists, errors, draining, response>>
    BY <1>6, <2>1
  <2>4. stack' = Pop /\ stack' \in Seq(Calls)
    BY <1>1, <2>3, PopFacts DEF ResolveIntoParent
  <2>5. unresolved' \in [Blocks -> Nat]
    <3>1. unresolved[p] \in Nat
      BY DEF TypesInv
    <3>2. PICK n \in Nat : n = IF unresolved[p] > 0 THEN unresolved[p] - 1 ELSE 0
      BY <3>1
    <3>3. unresolved' = [unresolved EXCEPT ![p] = n]
      BY <2>2, <2>3, <3>2 DEF ResolveIntoParent
    <3> QED BY <3>3 DEF TypesInv
  <2>6. ready' \in Seq(Blocks \cup {None})
    BY <1>4, <2>2, <2>3, QueueFacts DEF ResolveIntoParent
  <2>7. entries' \in [Blocks -> Seq(EntrySet)] /\ Extends(k)
    <3>1. CASE link[b] \in 1 .. Len(entries[p])
      <4>1. entries' = [entries EXCEPT ![p] = Stored(entries[p], link[b])]
        BY <2>2, <2>3, <3>1 DEF ResolveIntoParent
      <4> QED BY <1>3, <3>1, <4>1, StoredInFacts
    <3>2. CASE link[b] \notin 1 .. Len(entries[p])
      <4>1. entries' = entries
        BY <2>2, <2>3, <3>2 DEF ResolveIntoParent
      <4> QED BY <1>3, <4>1, ExtendsSame DEF TypesInv
    <3> QED BY <3>1, <3>2
  <2>8. TypesInv'
    BY <1>1, <1>2, <2>3, <2>4, <2>5, <2>6, <2>7 DEF TypesInv, promiseVars, lists
  <2> QED BY <1>5, <2>3, <2>4, <2>7, <2>8
<1>7. CASE /\ b \in Items
           /\ ItemResolves(b, nulled[b], FALSE, Pop)
           /\ UNCHANGED <<entries, unresolved, owned, response>>
  <2>1. /\ item' \in [Items -> ItemSet]
        /\ errors' \in [{"raised", "nonnull"} \X Positions -> Nat]
        /\ Home(ListOf(b)) \in Blocks
    BY <1>7, ItemResolvesFacts
  <2>2. PICK wanted \in BOOLEAN :
          EnqueueAndDrain(wanted, Home(ListOf(b)), Dequeued(b), Pop)
    BY <1>7, ItemResolvesFacts
  <2>3. /\ stack' = Pop /\ draining' = draining
        /\ ready' \in Seq(Blocks \cup {None})
    BY <1>1, <1>4, <2>1, <2>2, QueueFacts DEF EnqueueAndDrain, TypesInv
  <2>4. stack' \in Seq(Calls) /\ Extends(k)
    BY <1>1, <1>3, <1>7, <2>3, PopFacts, ExtendsSame
  <2>5. TypesInv'
    BY <1>1, <1>2, <1>7, <2>1, <2>3, <2>4 DEF TypesInv, promiseVars
  <2> QED BY <1>5, <2>3, <2>4, <2>5
<1>8. CASE /\ b \in Roots
           /\ response' = IF nulled[b] THEN "null" ELSE "data"
           /\ stack' = Pop
           /\ ready' = Dequeued(b)
           /\ UNCHANGED <<entries, unresolved, lists, errors, draining>>
  <2>1. stack' \in Seq(Calls) /\ Extends(k)
    BY <1>1, <1>3, <1>8, PopFacts, ExtendsSame
  <2>2. TypesInv'
    BY <1>1, <1>2, <1>4, <1>8, <2>1 DEF TypesInv, promiseVars, lists
  <2> QED BY <1>5, <1>8, <2>1, <2>2
<1> QED BY <1>6, <1>7, <1>8 DEF ResolveFrame

\* The C stack stays well formed by a promise that settles while user code
\* runs.
LEMMA SettlePromiseCalls ==
  ASSUME TypesInv, CallsInv, NEW p \in Promises, SettlePromise(p)
  PROVE  TypesInv' /\ CallsInv'
<1>1. /\ stack = <<>> \/ (ret = None /\ Running("block"))
      /\ promise' = [promise EXCEPT ![p] = "settled"]
      /\ subs' = [subs EXCEPT ![p] = {}]
      /\ UNCHANGED <<answer, frames, tree, lists, ready, draining, ret, response>>
  BY DEF SettlePromise, InOpLoop
<1>2. ret = None
  BY <1>1, OneProcess
<1>3. PICK u \in Calls : u = SettleLoop(subs[p], None)
  BY MadeCalls DEF TypesInv
<1>4. u.at = "settle"
  BY <1>3, MadeSettle
<1>5. stack' \in Seq(Calls) /\ Enters(u)
  BY <1>3, PushFacts DEF SettlePromise
<1>6. TypesInv'
  BY <1>1, <1>5 DEF TypesInv, frames, tree, lists
<1>7. CanEnter(u)
  BY <1>1, <1>4 DEF CanEnter
<1>8. Extends(Len(stack))
  BY <1>1, InnermostFacts, ExtendsSame DEF frames
<1> QED BY <1>1, <1>2, <1>5, <1>6, <1>7, <1>8, EntersKeeps

\* A callback has run: the loop over the subscribers goes on.
LEMMA AfterSubscriberFacts ==
  ASSUME TypesInv, CallsInv, Running("settle"), NEW x, NEW c \in Items \cup {None}
  PROVE  \E t \in Calls : /\ t = SettleLoop(Innermost.waiting \ {x}, c)
                          /\ AfterSubscriber(x, c) = Top(t) /\ SameCall(t)
                          /\ t.at = "settle" /\ t.current = c
                          /\ t.waiting = Innermost.waiting \ {x}
                          /\ \A es : IndexFits(t, es)
<1>1. Innermost.at = "settle" /\ Innermost.waiting \subseteq Positions
  BY Here, HereSettle
<1>2. PICK w \in SUBSET Positions : w = Innermost.waiting \ {x}
  BY <1>1
<1>3. PICK t \in Calls : t = SettleLoop(w, c)
  BY MadeCalls
<1>4. t.at = "settle" /\ t.current = c /\ t.waiting = w
  BY <1>3, MadeSettle
<1>5. AfterSubscriber(x, c) = Top(t)
  BY <1>2, <1>3 DEF AfterSubscriber
<1>6. SameCall(t) /\ \A es : IndexFits(t, es)
  BY <1>1, <1>4 DEF SameCall, IndexFits
<1> QED BY <1>2, <1>3, <1>4, <1>5, <1>6

\* The C stack stays well formed by the callback of an entry, which stores
\* the value and enqueues its frame.
LEMMA SettleEntryCalls ==
  ASSUME TypesInv, CallsInv, NEW f \in Fields, SettleEntry(f)
  PROVE  TypesInv' /\ CallsInv'
<1>1. /\ ret = None /\ Running("settle") /\ stack # <<>>
      /\ UNCHANGED <<answer, promiseVars, life, link, tree, lists, ret, response>>
  BY Here DEF SettleEntry, InSettleLoop
<1>2. PICK b \in Blocks : b = Home(f)
  BY HomeFacts
<1>3. PICK t \in Calls : /\ AfterSubscriber(f, None) = Top(t) /\ SameCall(t)
                         /\ t.at = "settle" /\ \A es : IndexFits(t, es)
  BY <1>1, AfterSubscriberFacts
<1>4. CASE ctx[f] \in 1 .. Len(entries[b])
  <2>1. PICK n \in Nat :
          /\ entries' = [entries EXCEPT ![b] = Stored(entries[b], ctx[f])]
          /\ unresolved' = [unresolved EXCEPT ![b] = n]
          /\ ctx' = [ctx EXCEPT ![f] = 0]
          /\ EnqueueAndDrain(n = 0, b, ready, Top(t))
    <3>1. unresolved[b] \in Nat
      BY DEF TypesInv
    <3>2. PICK n \in Nat : n = IF unresolved[b] > 0 THEN unresolved[b] - 1 ELSE 0
      BY <3>1
    <3> QED BY <1>2, <1>3, <1>4, <3>2 DEF SettleEntry
  <2>2. PICK wanted \in BOOLEAN : wanted = (n = 0) /\ EnqueueAndDrain(wanted, b, ready, Top(t))
    BY <2>1
  <2>3. ready \in Seq(Blocks \cup {None})
    BY DEF TypesInv
  <2>4. /\ stack' \in Seq(Calls)
        /\ ready' \in Seq(Blocks \cup {None})
        /\ draining' \in BOOLEAN
        /\ \/ Becomes(t) /\ draining' = draining
           \/ BecomesAndEnters(t, DrainLoop) /\ ~draining /\ draining'
    BY <1>1, <2>2, <2>3, EnqueueAndDrainFacts
  <2>5. entries' \in [Blocks -> Seq(EntrySet)] /\ Extends(Len(stack) - 1)
    BY <1>1, <1>4, <2>1, StoredInFacts, Shorter
  <2>6. TypesInv'
    BY <1>1, <2>1, <2>4, <2>5 DEF TypesInv, promiseVars, tree, lists
  <2> QED BY <1>1, <1>3, <2>4, <2>5, <2>6, EnqueueAndDrainKeeps
<1>5. CASE ctx[f] \notin 1 .. Len(entries[b])
  <2>1. stack' = Top(t) /\ UNCHANGED <<entries, unresolved, ctx, ready, draining>>
    BY <1>2, <1>3, <1>5 DEF SettleEntry
  <2>2. stack' \in Seq(Calls) /\ Becomes(t)
    BY <1>1, <2>1, TopFacts
  <2>3. TypesInv'
    BY <1>1, <2>1, <2>2 DEF TypesInv, promiseVars, tree, lists
  <2> QED BY <1>1, <1>3, <2>1, <2>2, <2>3, ExtendsBelow, BecomesKeeps
<1> QED BY <1>4, <1>5

\* The promise of an item resolves from the callback that runs.
LEMMA SettledItemKeeps ==
  ASSUME TypesInv, CallsInv, Running("settle"), NEW b \in Items, NEW null,
         NEW raised \in BOOLEAN, NEW x,
         ItemResolves(b, null, raised, AfterSubscriber(x, None)), ret' = None,
         UNCHANGED <<answer, promise, subs, entries, unresolved, link, ctx, life, values,
                     nulled, owned, response>>
  PROVE  TypesInv' /\ CallsInv'
<1>1. stack # <<>> /\ Extends(Len(stack) - 1)
  BY Here, ExtendsBelow
<1>2. PICK t \in Calls : /\ AfterSubscriber(x, None) = Top(t) /\ SameCall(t)
                         /\ t.at = "settle" /\ \A es : IndexFits(t, es)
  BY AfterSubscriberFacts
<1>3. /\ item' \in [Items -> ItemSet]
      /\ errors' \in [{"raised", "nonnull"} \X Positions -> Nat]
      /\ Dequeued(b) \in Seq(Blocks \cup {None})
      /\ Home(ListOf(b)) \in Blocks
  BY ItemResolvesFacts
<1>4. PICK wanted \in BOOLEAN :
        EnqueueAndDrain(wanted, Home(ListOf(b)), Dequeued(b), Top(t))
  BY <1>2, ItemResolvesFacts
<1>5. /\ stack' \in Seq(Calls)
      /\ ready' \in Seq(Blocks \cup {None})
      /\ draining' \in BOOLEAN
      /\ \/ Becomes(t) /\ draining' = draining
         \/ BecomesAndEnters(t, DrainLoop) /\ ~draining /\ draining'
  BY <1>1, <1>3, <1>4, EnqueueAndDrainFacts
<1>6. TypesInv'
  BY <1>3, <1>5 DEF TypesInv
<1> QED BY <1>1, <1>2, <1>5, <1>6, EnqueueAndDrainKeeps

\* The C stack stays well formed by the callback of a list item.
LEMMA SettleItemCalls ==
  ASSUME TypesInv, CallsInv, NEW b \in Blocks, SettleItem(b)
  PROVE  TypesInv' /\ CallsInv'
<1>1. /\ ret = None /\ Running("settle") /\ stack # <<>> /\ b \in Items
      /\ UNCHANGED <<answer, promiseVars, entries, unresolved, link, ctx, values,
                     nulled, ret, response>>
  BY Here DEF SettleItem, InSettleLoop
<1>2. CASE answer[b] = "value"
  <2>1. /\ stack' = Append(AfterSubscriber(b, b), OpLoop(b, 0))
        /\ life' = [life EXCEPT ![b] = "running"]
        /\ UNCHANGED <<lists, errors, ready, draining>>
    BY <1>2 DEF SettleItem
  <2>2. PICK t \in Calls : /\ AfterSubscriber(b, b) = Top(t) /\ SameCall(t)
                           /\ t.at = "settle" /\ t.current = b
    BY ZenonT(60), <1>1, AfterSubscriberFacts
  <2>3. OpLoop(b, 0) \in Calls
    BY MadeCalls
  <2>4. stack' \in Seq(Calls) /\ BecomesAndEnters(t, OpLoop(b, 0))
    BY <1>1, <2>1, <2>2, <2>3, TopPushFacts
  <2>5. life' \in [Blocks -> {"none", "running", "suspended", "done"}]
    BY <2>1 DEF TypesInv
  <2>6. TypesInv'
    BY <1>1, <2>1, <2>4, <2>5 DEF TypesInv, promiseVars, lists
  <2> QED BY <1>1, <2>1, <2>2, <2>4, <2>6, ExtendsBelow, BecomesAndEntersBlock
<1>3. CASE answer[b] # "value"
  <2>1. /\ ItemResolves(b, TRUE, answer[b] = "error", AfterSubscriber(b, None))
        /\ UNCHANGED <<owned, life>>
    BY <1>3 DEF SettleItem
  <2>2. PICK raised \in BOOLEAN : raised = (answer[b] = "error")
    OBVIOUS
  <2>3. ItemResolves(b, TRUE, raised, AfterSubscriber(b, None))
    BY <2>1, <2>2
  <2> QED BY <1>1, <2>1, <2>3, SettledItemKeeps DEF promiseVars
<1> QED BY <1>2, <1>3

\* The C stack stays well formed by the item callback that takes the frame or
\* outcome of the item's block.
LEMMA SettleTakesResultCalls ==
  ASSUME TypesInv, CallsInv, SettleTakesResult
  PROVE  TypesInv' /\ CallsInv'
<1>1. /\ ret # None /\ ret' = None /\ Running("settle") /\ stack # <<>>
      /\ Innermost.current \in Items
      /\ UNCHANGED <<answer, promiseVars, frames, owned, values, nulled, response>>
  BY Here, HereSettle DEF SettleTakesResult
<1>2. CASE ret.kind = "outcome"
  <2>1. PICK b \in Items : b = Innermost.current
    BY <1>1
  <2>2. ItemResolves(b, ret.null, FALSE, AfterSubscriber(None, None))
    BY <1>2, <2>1 DEF SettleTakesResult
  <2> QED BY <1>1, <2>2, SettledItemKeeps DEF promiseVars, frames
<1>3. CASE ret.kind # "outcome"
  <2>1. PICK t \in Calls : /\ AfterSubscriber(None, None) = Top(t) /\ SameCall(t)
                           /\ t.at = "settle" /\ \A es : IndexFits(t, es)
    BY <1>1, AfterSubscriberFacts
  <2>2. stack' = Top(t) /\ UNCHANGED <<item, left, errors, ready, draining>>
    BY <1>3, <2>1 DEF SettleTakesResult
  <2>3. stack' \in Seq(Calls) /\ Becomes(t)
    BY <1>1, <2>2, TopFacts
  <2>4. TypesInv'
    BY <1>1, <2>2, <2>3 DEF TypesInv, promiseVars, frames
  <2> QED BY <1>1, <2>1, <2>2, <2>3, <2>4, ExtendsBelow, BecomesKeeps DEF frames
<1> QED BY <1>2, <1>3

\* The C stack stays well formed by the return of a settled promise when its
\* callbacks have run.
LEMMA SettleReturnsCalls ==
  ASSUME TypesInv, CallsInv, SettleReturns
  PROVE  TypesInv' /\ CallsInv'
<1>1. /\ ret = None /\ Running("settle") /\ stack # <<>> /\ ~Running("drain") /\ stack' = Pop
      /\ UNCHANGED <<answer, promiseVars, frames, tree, lists, ready, draining,
                     ret, response>>
  BY Here DEF SettleReturns, InSettleLoop
<1>2. stack' \in Seq(Calls) /\ Leaves
  BY <1>1, PopFacts
<1>3. TypesInv'
  BY <1>1, <1>2 DEF TypesInv, promiseVars, frames, tree, lists
<1>4. CanReturn
  BY <1>1 DEF CanReturn
<1> QED BY <1>1, <1>2, <1>3, <1>4, ExtendsBelow, LeavesKeeps DEF frames

-----------------------------------------------------------------------------
(* The theorem                                                             *)

\* The C stack stays well formed by the initial state.
LEMMA InitCalls ==
  ASSUME Init
  PROVE  TypesInv /\ CallsInv
<1>1. PICK root \in Roots :
        /\ answer \in [Positions -> AnswerSet]
        /\ life \in [Blocks -> {"none", "running", "suspended", "done"}]
        /\ stack = <<OpLoop(root, 0)>>
  <2>1. PICK root \in Roots :
          /\ \E given \in [PositionsOf(root) -> AnswerSet] :
               answer = [x \in Positions |->
                           IF x \in PositionsOf(root) THEN given[x] ELSE "value"]
          /\ life = [b \in Blocks |-> IF b = root THEN "running" ELSE "none"]
          /\ stack = <<OpLoop(root, 0)>>
    BY DEF Init
  <2>2. PICK given \in [PositionsOf(root) -> AnswerSet] :
          answer = [x \in Positions |->
                      IF x \in PositionsOf(root) THEN given[x] ELSE "value"]
    BY <2>1
  <2>3. answer \in [Positions -> AnswerSet]
    BY <2>2 DEF AnswerSet
  <2> QED BY <2>1, <2>3
<1>2. root \in Blocks
  BY RootOrItem
<1>3. PICK a \in Calls : a = OpLoop(root, 0)
  BY <1>2, MadeCalls
<1>4. a.at = "block" /\ a.block = root /\ a.index = 0
  BY <1>3, MadeBlock
<1>5. stack \in Seq(Calls) /\ Len(stack) = 1 /\ stack[1] = a
  BY <1>1, <1>3
<1>6. item \in [Items -> ItemSet]
  BY SlotFacts DEF Init
<1>11. /\ entries \in [Blocks -> Seq(EntrySet)] /\ ready \in Seq(Blocks \cup {None})
  BY DEF Init
<1>12. /\ promise \in [Promises -> {"pending", "settled"}]
       /\ subs \in [Promises -> SUBSET Positions]
       /\ unresolved \in [Blocks -> Nat] /\ nulled \in [Blocks -> BOOLEAN]
       /\ link \in [Blocks -> Nat] /\ ctx \in [Fields -> Nat]
       /\ owned \subseteq Lists /\ draining \in BOOLEAN
       /\ ret \in Results \cup {None} /\ response \in {None, "data", "null"}
  BY DEF Init
<1>13. /\ values \in [Fields -> {"unset", "null", "value"}]
       /\ errors \in [{"raised", "nonnull"} \X Positions -> Nat]
  BY DEF Init
<1>7. TypesInv
  BY <1>1, <1>5, <1>6, <1>11, <1>12, <1>13 DEF TypesInv
<1>8. Depths = {1} /\ (\A at : At(1, at) <=> at = "block") /\ ~Calling(1)
  BY <1>4, <1>5 DEF Depths, At, Calling, Init
<1>9. IndexOK(1) /\ CallerOK(1)
  <2>1. Len(Ops[root]) \in Nat
    BY <1>2, TypesAssumption
  <2> QED BY <1>4, <1>5, <1>8, <2>1 DEF IndexOK, CallerOK
<1>10. ReturnOK /\ OneDrain
  BY <1>8 DEF ReturnOK, OneDrain, Init
<1> QED BY <1>7, <1>8, <1>9, <1>10 DEF CallsInv

\* The C stack stays well formed by a step that changes nothing.
LEMMA SameCalls ==
  ASSUME TypesInv, CallsInv, UNCHANGED vars
  PROVE  TypesInv' /\ CallsInv'
<1>1. TypesInv'
  BY DEF vars, TypesInv
<1>2. UNCHANGED <<stack, ret, entries, draining>>
  BY DEF vars
<1>3. Depths' = Depths /\ \A n, at : At(n, at)' <=> At(n, at)
  BY <1>2 DEF Depths, At
<1>4. \A n : FieldOf(n)' = FieldOf(n) /\ (Calling(n)' <=> Calling(n))
  BY <1>2 DEF FieldOf, Calling
<1>5. \A n, b : Executes(n, b)' <=> Executes(n, b)
  BY <1>2, <1>3, <1>4 DEF Executes, IsChild
<1>6. \A n, f : Completing(n, f)' <=> Completing(n, f)
  BY <1>3, <1>4 DEF Completing
<1>7. \A n : Within(n)' <=> Within(n)
  BY <1>2, <1>3 DEF Within
<1>8. ASSUME NEW n \in Depths
      PROVE  IndexOK(n)' /\ CallerOK(n)'
  <2>1. IndexOK(n) /\ CallerOK(n) /\ stack'[n] = stack[n]
    BY <1>2 DEF CallsInv
  <2>2. IndexOK(n)'
    BY <2>1, <1>2, <1>3, <1>4, <1>7 DEF IndexOK
  <2>3. CallerOK(n)'
    BY <2>1, <1>3, <1>5, <1>6 DEF CallerOK
  <2> QED BY <2>2, <2>3
<1>9. OneDrain'
  BY <1>2, <1>3 DEF CallsInv, OneDrain
<1>10. ReturnOK'
  <2>1. ReturnOK /\ stack' = stack /\ ret' = ret
    BY <1>2 DEF CallsInv
  <2> QED BY <2>1, <1>3, <1>5, <1>6 DEF ReturnOK
<1> QED BY <1>1, <1>3, <1>8, <1>9, <1>10 DEF CallsInv

\* The C stack stays well formed by every step.
LEMMA StepCalls ==
  ASSUME TypesInv, CallsInv, Next
  PROVE  TypesInv' /\ CallsInv'
<1>1. ASSUME NEW b \in Blocks, ResolverReturnsValue(b) PROVE TypesInv' /\ CallsInv'
  BY <1>1, ResolverReturnsValueCalls
<1>2. ASSUME NEW b \in Blocks, ResolverReturnsPromise(b) PROVE TypesInv' /\ CallsInv'
  BY <1>2, ResolverReturnsPromiseCalls
<1>3. ASSUME NEW b \in Blocks, BlockTakesResult(b) PROVE TypesInv' /\ CallsInv'
  BY <1>3, BlockTakesResultCalls
<1>4. ASSUME NEW b \in Blocks, FinalizeComplete(b) PROVE TypesInv' /\ CallsInv'
  BY <1>4, FinalizeCompleteCalls
<1>5. ASSUME NEW b \in Blocks, FinalizeSuspends(b) PROVE TypesInv' /\ CallsInv'
  BY <1>5, FinalizeSuspendsCalls
<1>6. ASSUME NEW b \in Blocks, FinalizeReturns(b) PROVE TypesInv' /\ CallsInv'
  BY <1>6, FinalizeReturnsCalls
<1>7. ASSUME NEW b \in Blocks, ProcessMoves(b) PROVE TypesInv' /\ CallsInv'
  BY <1>7, ProcessMovesCalls
<1>8. ASSUME NEW b \in Blocks, ProcessConsumes(b) PROVE TypesInv' /\ CallsInv'
  BY <1>8, ProcessConsumesCalls
<1>9. ASSUME NEW b \in Blocks, ProcessTakesResult(b) PROVE TypesInv' /\ CallsInv'
  BY <1>9, ProcessTakesResultCalls
<1>10. ASSUME NEW b \in Blocks, ProcessEnds(b) PROVE TypesInv' /\ CallsInv'
  BY <1>10, ProcessEndsCalls
<1>11. ASSUME NEW b \in Blocks, ResolveFrame(b) PROVE TypesInv' /\ CallsInv'
  BY <1>11, ResolveFrameCalls
<1>12. ASSUME NEW b \in Blocks, SettleItem(b) PROVE TypesInv' /\ CallsInv'
  BY <1>12, SettleItemCalls
<1>13. ASSUME NEW f \in Fields, ItemIsValue(f) PROVE TypesInv' /\ CallsInv'
  BY <1>13, ItemIsValueCalls
<1>14. ASSUME NEW f \in Fields, ItemIsPromise(f) PROVE TypesInv' /\ CallsInv'
  BY <1>14, ItemIsPromiseCalls
<1>15. ASSUME NEW f \in Fields, ListTakesResult(f) PROVE TypesInv' /\ CallsInv'
  BY <1>15, ListTakesResultCalls
<1>16. ASSUME NEW f \in Fields, ListComplete(f) PROVE TypesInv' /\ CallsInv'
  BY <1>16, ListCompleteCalls
<1>17. ASSUME NEW f \in Fields, ListPends(f) PROVE TypesInv' /\ CallsInv'
  BY <1>17, ListPendsCalls
<1>18. ASSUME NEW f \in Fields, SettleEntry(f) PROVE TypesInv' /\ CallsInv'
  BY <1>18, SettleEntryCalls
<1>19. CASE DrainNext
  BY <1>19, DrainNextCalls
<1>20. CASE SettleTakesResult
  BY <1>20, SettleTakesResultCalls
<1>21. CASE SettleReturns
  BY <1>21, SettleReturnsCalls
<1>22. ASSUME NEW p \in Promises, SettlePromise(p) PROVE TypesInv' /\ CallsInv'
  BY <1>22, SettlePromiseCalls
<1>23. CASE Delivered
  BY <1>23, SameCalls DEF Delivered
<1> QED BY <1>1, <1>2, <1>3, <1>4, <1>5, <1>6, <1>7, <1>8, <1>9, <1>10, <1>11, <1>12, <1>13,
           <1>14, <1>15, <1>16, <1>17, <1>18, <1>19, <1>20, <1>21, <1>22, <1>23
        DEF Next, EngineStep

\* The C call stack of the resumable executor is in order: every call was made
\* by the loop that waits for it, every loop is within the bounds of what it
\* works off, what is returned is what was asked for, and there is one drain at
\* a time, the one async_scheduler_draining tells of (drain, process_frame,
\* resolve_frame, list_pending_handle_sv, the callback pairs).
THEOREM CallsHold == Spec => [](TypesInv /\ CallsInv)
<1>1. Init => TypesInv /\ CallsInv
  BY InitCalls
<1>2. TypesInv /\ CallsInv /\ [Next]_vars => (TypesInv /\ CallsInv)'
  BY StepCalls, SameCalls
<1> QED BY <1>1, <1>2, PTL DEF Spec

===============================================================================
