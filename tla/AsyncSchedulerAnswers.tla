------------------------ MODULE AsyncSchedulerAnswers ------------------------
(***************************************************************************)
(* Proofs about AsyncScheduler, for every selection without lists: the     *)
(* response is what the reference computes from the answers, its errors    *)
(* are one per failure, whatever came as a value or as a promise and in    *)
(* whichever order it settled, and no frame is forgotten.  They rest on    *)
(* the invariants of AsyncSchedulerProofs: who may write a field, and who  *)
(* runs.                                                                   *)
(***************************************************************************)
EXTENDS AsyncSchedulerProofs

-----------------------------------------------------------------------------
(* The reference satisfies its equations                                   *)

\* Whatever reaches a base along a relation is the least solution of the
\* equation it stands for: IsNull and Selected are such equations.
Solvable(X, Base, Succ) ==
  \E S \in SUBSET X : \A x \in X : x \in S <=> x \in Base \/ \E y \in S : y \in Succ[x]

\* Every such equation has a solution, the least closed set.
LEMMA LeastFixpoint ==
  \A X, Base, Succ : Solvable(X, Base, Succ)
<1> SUFFICES ASSUME NEW X, NEW Base, NEW Succ
             PROVE  Solvable(X, Base, Succ)
  OBVIOUS
<1> DEFINE Closed(S) == \A x \in X : x \in Base \/ (\E y \in S : y \in Succ[x]) => x \in S
           Least == {x \in X : \A S \in SUBSET X : Closed(S) => x \in S}
<1>1. Closed(Least)
  <2>1. SUFFICES ASSUME NEW x \in X, x \in Base \/ \E y \in Least : y \in Succ[x],
                        NEW S \in SUBSET X, Closed(S)
                 PROVE  x \in S
    OBVIOUS
  <2>2. \A y \in Least : y \in S
    BY <2>1
  <2> QED BY <2>1, <2>2
<1>2. ASSUME NEW x \in Least
      PROVE  x \in Base \/ \E y \in Least : y \in Succ[x]
  <2>1. SUFFICES ASSUME ~(x \in Base \/ \E y \in Least : y \in Succ[x])
                 PROVE  FALSE
    OBVIOUS
  <2>2. PICK S \in SUBSET X : S = Least \ {x}
    OBVIOUS
  <2>3. Closed(S)
    BY <1>1, <2>1, <2>2
  <2> QED BY <1>2, <2>2, <2>3
<1>3. Least \in SUBSET X
  OBVIOUS
<1> HIDE DEF Least
<1> QED BY <1>1, <1>2, <1>3 DEF Solvable

\* The reference is a solution of its equations, so the equations can be used.
LEMMA NullEquations ==
  IsNull = [x \in Blocks \cup Fields |->
    IF x \in Blocks
    THEN \/ x \in Items /\ answer[x] # "value"
         \/ \E f \in Range(Ops[x]) \cap NonNull : IsNull[f]
    ELSE \/ answer[x] # "value"
         \/ x \notin Lists /\ \E b \in Range(Children[x]) : IsNull[b]
         \/ x \in ItemNonNull /\ \E b \in Range(Children[x]) : IsNull[b]]
<1> DEFINE X == Blocks \cup Fields
           Base == {x \in X : IF x \in Blocks THEN x \in Items /\ answer[x] # "value"
                              ELSE answer[x] # "value"}
           Succ == [x \in X |-> IF x \in Blocks THEN Range(Ops[x]) \cap NonNull
                                ELSE IF x \in Lists /\ x \notin ItemNonNull THEN {}
                                ELSE Range(Children[x])]
<1>1. PICK S \in SUBSET X :
        \A x \in X : x \in S <=> x \in Base \/ \E y \in S : y \in Succ[x]
  <2> HIDE DEF X, Base, Succ
  <2>1. Solvable(X, Base, Succ)
    BY LeastFixpoint
  <2> QED BY <2>1 DEF Solvable
<1>2. /\ \A x \in Blocks : Range(Ops[x]) \cap NonNull \subseteq X
      /\ \A x \in Fields : Range(Children[x]) \subseteq X
  BY TypesAssumption DEF Range
<1>3. PICK N : N = [x \in X |-> x \in S]
  OBVIOUS
<1>4. \A x \in Blocks : x \in S <=> \/ x \in Items /\ answer[x] # "value"
                                    \/ \E f \in Range(Ops[x]) \cap NonNull : f \in S
  BY <1>1
<1>5. \A x \in Fields : x \in S <=> \/ answer[x] # "value"
                                    \/ x \notin Lists /\ \E b \in Range(Children[x]) : b \in S
                                    \/ x \in ItemNonNull /\ \E b \in Range(Children[x]) : b \in S
  BY <1>1, TypesAssumption
<1>6. N = [x \in X |->
        IF x \in Blocks
        THEN \/ x \in Items /\ answer[x] # "value"
             \/ \E f \in Range(Ops[x]) \cap NonNull : N[f]
        ELSE \/ answer[x] # "value"
             \/ x \notin Lists /\ \E b \in Range(Children[x]) : N[b]
             \/ x \in ItemNonNull /\ \E b \in Range(Children[x]) : N[b]]
  <2>1. \A x \in X : N[x] <=> x \in S
    BY <1>3
  <2>2. \A x \in Blocks : x \in S <=> \/ x \in Items /\ answer[x] # "value"
                                      \/ \E f \in Range(Ops[x]) \cap NonNull : N[f]
    BY <1>2, <1>4, <2>1
  <2>3. \A x \in Fields : x \in S <=>
          \/ answer[x] # "value"
          \/ x \notin Lists /\ \E b \in Range(Children[x]) : N[b]
          \/ x \in ItemNonNull /\ \E b \in Range(Children[x]) : N[b]
    BY <1>2, <1>5, <2>1
  <2> DEFINE Right(x) ==
        IF x \in Blocks
        THEN \/ x \in Items /\ answer[x] # "value"
             \/ \E f \in Range(Ops[x]) \cap NonNull : N[f]
        ELSE \/ answer[x] # "value"
             \/ x \notin Lists /\ \E b \in Range(Children[x]) : N[b]
             \/ x \in ItemNonNull /\ \E b \in Range(Children[x]) : N[b]
  <2>4. \A x \in X : x \in S <=> Right(x)
    BY <2>2, <2>3
  <2>5. \A x \in X : Right(x) \in BOOLEAN
    OBVIOUS
  <2>6. N = [x \in X |-> Right(x)]
    <3> HIDE DEF X, Right
    <3> QED BY <1>3, <2>4, <2>5
  <2> QED BY <2>6
<1> QED BY <1>6 DEF IsNull

\* The blocks the answers ask for, likewise.
LEMMA SelectedEquations ==
  \A b \in Blocks :
    Selected[b] <=>
      \/ b = Executed
      \/ \E f \in Fields :
           /\ b \in Range(Children[f])
           /\ Selected[Home(f)]
           /\ answer[f] = "value"
           /\ b \in Items => answer[b] = "value"
<1> DEFINE Base == {Executed}
           Succ == [b \in Blocks |->
             {Home(f) : f \in {g \in Fields : /\ b \in Range(Children[g])
                                              /\ answer[g] = "value"
                                              /\ b \in Items => answer[b] = "value"}}]
<1>1. PICK S \in SUBSET Blocks :
        \A x \in Blocks : x \in S <=> x \in Base \/ \E y \in S : y \in Succ[x]
  <2> HIDE DEF Base, Succ
  <2>1. Solvable(Blocks, Base, Succ)
    BY LeastFixpoint
  <2> QED BY <2>1 DEF Solvable
<1>2. PICK N : N = [b \in Blocks |-> b \in S]
  OBVIOUS
<1>3. \A f \in Fields : Home(f) \in Blocks
  BY HomeFacts
<1>4. \A b \in Blocks : b \in S <=>
        \/ b = Executed
        \/ \E f \in Fields : /\ b \in Range(Children[f])
                             /\ Home(f) \in S
                             /\ answer[f] = "value"
                             /\ b \in Items => answer[b] = "value"
  BY <1>1
<1>5. N = [b \in Blocks |->
        \/ b = Executed
        \/ \E f \in Fields : /\ b \in Range(Children[f])
                             /\ N[Home(f)]
                             /\ answer[f] = "value"
                             /\ b \in Items => answer[b] = "value"]
  <2>1. \A b \in Blocks : N[b] <=> b \in S
    BY <1>2
  <2> DEFINE Right(b) == \/ b = Executed
                         \/ \E f \in Fields : /\ b \in Range(Children[f])
                                              /\ N[Home(f)]
                                              /\ answer[f] = "value"
                                              /\ b \in Items => answer[b] = "value"
  <2>2. \A b \in Blocks : b \in S <=> Right(b)
    BY <1>3, <1>4, <2>1
  <2>3. \A b \in Blocks : Right(b) \in BOOLEAN
    OBVIOUS
  <2>4. N = [b \in Blocks |-> Right(b)]
    <3> HIDE DEF Right
    <3> QED BY <1>2, <2>2, <2>3
  <2> QED BY <2>4
<1>6. Selected = [b \in Blocks |->
        \/ b = Executed
        \/ \E f \in Fields : /\ b \in Range(Children[f])
                             /\ Selected[Home(f)]
                             /\ answer[f] = "value"
                             /\ b \in Items => answer[b] = "value"]
  BY <1>5 DEF Selected
<1> QED BY <1>6

-----------------------------------------------------------------------------
(* What holds of every selection without lists                             *)

\* The request that is executed stays the one it is, and so do its answers.
Answering == Lists = {} /\ TypesInv /\ CallsInv /\ FieldsInv /\ LivesInv /\ RootsInv

\* What field f still has to come to: its operation, or the entry of its frame.
Coming(f) ==
  \E n \in Depths : /\ At(n, "block")
                    /\ \E i \in 1 .. Len(Ops[stack[n].block]) :
                         Ops[stack[n].block][i] = f /\ i > stack[n].index

\* Entry i of the array that is being rebuilt for the frame of f is an armed one
\* of f; or entry i of that frame is, and has not been dealt with.
MovedAt(f, kind, i) ==
  \E n \in Depths : /\ At(n, "process") /\ stack[n].block = Home(f)
                    /\ i \in 1 .. Len(stack[n].next)
                    /\ stack[n].next[i] = Entry(f, kind, "armed")
ArmedAt(f, kind, i) ==
  \/ /\ i \in 1 .. Len(entries[Home(f)])
     /\ entries[Home(f)][i] = Entry(f, kind, "armed")
     /\ ~Handled(Home(f), i)
  \/ MovedAt(f, kind, i)

\* A field of a started block is written, or it is yet to come to.
NothingLost ==
  \A f \in Fields : life[Home(f)] # "none" /\ values[f] = "unset" =>
    Coming(f) \/ Waiting(f) \/ \E kind \in Kinds : Moved(f, kind)

\* A callback pair that is armed holds the index of its own entry, and the block
\* of its field has not been started; a suspended child frame holds the index of
\* its entry, unless it is just being returned.
CallbacksHeld ==
  \A f \in Fields : ctx[f] # 0 =>
    ArmedAt(f, "promise", ctx[f]) /\ \A c \in Blocks : IsChild(c, f) => life[c] = "none"
LinksHeld ==
  \A c \in Blocks, f \in Fields :
    IsChild(c, f) /\ life[c] = "suspended" =>
      ret = Frame(c) \/ ArmedAt(f, "block", link[c])

\* An entry of a child frame is settled once the child is done, and moved on as
\* long as it is not.
ReadyDone ==
  /\ \A b \in Blocks : \A i \in 1 .. Len(entries[b]) :
       entries[b][i].kind = "block" /\ entries[b][i].state = "ready" /\ ~Handled(b, i) =>
         life[Children[entries[b][i].field][1]] = "done"
  /\ \A n \in Depths : At(n, "process") => \A i \in 1 .. Len(stack[n].next) :
       stack[n].next[i].kind = "block" => stack[n].next[i].state = "armed"

\* Only suspended frames are enqueued, processed, resolved or returned.
QueueSuspended ==
  /\ \A b \in Blocks : b \in Range(ready) => life[b] = "suspended"
  /\ \A n \in Depths : At(n, "process") \/ At(n, "resolve") =>
       life[stack[n].block] = "suspended"
  /\ ret # None /\ ret.kind = "frame" => life[ret.of] = "suspended"

\* Only the root drains while it is finalized.
RootDrains ==
  \A n \in Depths : At(n, "block") /\ stack[n].index > Len(Ops[stack[n].block]) =>
    stack[n].block \in Roots

PlacesInv ==
  /\ NothingLost /\ CallbacksHeld /\ LinksHeld /\ ReadyDone /\ QueueSuspended
  /\ RootDrains

\* A child block has been started because its field resolved to a value.
Asked ==
  \A c \in Blocks, f \in Fields : IsChild(c, f) /\ life[c] # "none" => answer[f] = "value"

\* What a block returned says whether it was nulled.
Returned ==
  ret # None /\ ret.kind = "outcome" =>
    \E c \in Blocks : Executes(Len(stack), c) /\ life[c] = "done" /\ ret.null = nulled[c]

\* A block is nulled by its non-null fields, and by nothing else.
NullsOK ==
  \A b \in Blocks : nulled[b] <=> \E f \in Range(Ops[b]) \cap NonNull : values[f] = "null"

\* What is written is what the reference says, and nothing below it goes on.
Written ==
  \A f \in Fields : values[f] # "unset" =>
    /\ values[f] = IF IsNull[f] THEN "null" ELSE "value"
    /\ \A c \in Blocks : IsChild(c, f) /\ answer[f] = "value" => life[c] = "done"

\* The errors recorded so far are those of the fields written so far.
RecordsOK ==
  \A f \in Fields :
    /\ errors[<<"raised", f>>] =
         IF values[f] # "unset" /\ answer[f] = "error" THEN 1 ELSE 0
    /\ errors[<<"nonnull", f>>] =
         IF values[f] # "unset" /\ f \in NonNull /\ answer[f] = "null" THEN 1 ELSE 0

\* The response is there once the root is done, and says whether it was nulled.
Responded ==
  /\ \A b \in Roots : life[b] = "done" => response = IF nulled[b] THEN "null" ELSE "data"
  /\ response # None => \E b \in Roots : life[b] = "done"

ValuesInv == Asked /\ Returned /\ NullsOK /\ Written /\ RecordsOK /\ Responded

AnswersInv == PlacesInv /\ ValuesInv

-----------------------------------------------------------------------------
(* Nothing is a list                                                       *)

\* Without lists nothing adopts one, every position is a field, and no call
\* or result is about a list.
LEMMA NoLists ==
  ASSUME Answering
  PROVE  /\ Lists = {} /\ Items = {} /\ owned = {} /\ Positions = Fields
         /\ TypesInv /\ CallsInv /\ FieldsInv /\ LivesInv
         /\ \A b : ~Adopted(b)
         /\ ItemNonNull = {}
         /\ ret # None => ret.kind \in {"frame", "outcome"}
         /\ ~Running("list")
         /\ Running("settle") => ret = None /\ Innermost.current = None
<1>1. Lists = {} /\ TypesInv /\ CallsInv /\ FieldsInv /\ LivesInv
  BY DEF Answering
<1>2. Items = {} /\ owned = {} /\ ItemNonNull = {}
  BY <1>1, TypesAssumption DEF Items, TypesInv
<1>3. \A b : ~Adopted(b)
  BY <1>2 DEF Adopted
<1>4. ret # None => ret.kind \in {"frame", "outcome"}
  <2>1. ret # None => ret \in Results /\ (ret.kind = "list" => ret.of \in Lists)
    BY <1>1, ResultFacts DEF TypesInv
  <2> QED BY <1>1, <2>1, ResultFacts
<1>5. ~Running("list")
  BY <1>1, HereList
<1>6. Running("settle") => ret = None /\ Innermost.current = None
  BY <1>1, <1>2, HereSettle
<1> QED BY <1>1, <1>2, <1>3, <1>4, <1>5, <1>6 DEF Positions

\* The reference, without lists.
LEMMA NullFacts ==
  ASSUME Lists = {}
  PROVE  /\ \A b \in Blocks :
              IsNull[b] <=> \E f \in Range(Ops[b]) \cap NonNull : IsNull[f]
         /\ \A f \in Fields :
              IsNull[f] <=> \/ answer[f] # "value"
                            \/ \E c \in Blocks : IsChild(c, f) /\ IsNull[c]
<1>1. Items = {} /\ ItemNonNull = {}
  BY TypesAssumption DEF Items
<1>2. \A b \in Blocks : b \in Blocks \cup Fields
  OBVIOUS
<1>3. \A f \in Fields : f \in Blocks \cup Fields /\ f \notin Blocks
  BY TypesAssumption
<1>4. \A f \in Fields : \A c : c \in Range(Children[f]) <=> c \in Blocks /\ IsChild(c, f)
  <2>1. SUFFICES ASSUME NEW f \in Fields, NEW c
                 PROVE  c \in Range(Children[f]) <=> c \in Blocks /\ IsChild(c, f)
    OBVIOUS
  <2>2. Children[f] \in Seq(Blocks) /\ Len(Children[f]) <= 1 /\ Len(Children[f]) \in Nat
    BY TreeAssumption, TypesAssumption, ChildFacts
  <2>3. c \in Range(Children[f]) <=> \E i \in 1 .. Len(Children[f]) : Children[f][i] = c
    BY <2>2 DEF Range
  <2> QED BY <2>2, <2>3 DEF IsChild
<1>5. \A b \in Blocks : IsNull[b] <=> \E f \in Range(Ops[b]) \cap NonNull : IsNull[f]
  BY <1>1, <1>2, NullEquations
<1>6. \A f \in Fields : IsNull[f] <=> \/ answer[f] # "value"
                                      \/ \E c \in Range(Children[f]) : IsNull[c]
  BY <1>1, <1>3, NullEquations
<1> QED BY <1>4, <1>5, <1>6

-----------------------------------------------------------------------------
(* Steps that leave the frame that is processed as it is                   *)

ProcessesStay ==
  /\ \A n \in Depths : At(n, "process") => n \in Depths' /\ stack'[n] = stack[n]
  /\ \A n \in Depths' : At(n, "process")' =>
       \/ n \in Depths /\ stack'[n] = stack[n]
       \/ stack'[n].index = 0 /\ stack'[n].next = <<>>

\* Entries keep their indices.
EntriesHold ==
  \A b \in Blocks :
    /\ Len(entries[b]) <= Len(entries'[b])
    /\ \A i \in 1 .. Len(entries[b]) : entries'[b][i].field = entries[b][i].field

\* Where field f is armed, it stays so.
ArmedStays(f) ==
  \A kind \in Kinds, i \in Nat : ArmedAt(f, kind, i) => ArmedAt(f, kind, i)'

\* A step that only starts loops at their first entry leaves every
\* process_frame loop where it is.
LEMMA MovesStay ==
  ASSUME TypesInv, TypesInv', NEW T, NEW U, Moves(T, U),
         \A t \in T : t.at # "process",
         Running("process") => T = {} /\ Len(stack) \in Depths',
         \A u \in U : u.at = "process" => u.index = 0 /\ u.next = <<>>
  PROVE  ProcessesStay
<1>1. ASSUME NEW n \in Depths, At(n, "process")
      PROVE  n \in Depths' /\ stack'[n] = stack[n]
  <2>1. n = Len(stack) => Running("process")
    BY <1>1, InnermostFacts DEF At, Depths, Running
  <2> QED BY <2>1 DEF Moves, CallStays
<1>2. ASSUME NEW n \in Depths', At(n, "process")'
      PROVE  \/ n \in Depths /\ stack'[n] = stack[n]
             \/ stack'[n].index = 0 /\ stack'[n].next = <<>>
  <2>1. stack'[n].at = "process"
    BY <1>2 DEF At
  <2> QED BY <2>1, MovedCall
<1> QED BY <1>1, <1>2 DEF ProcessesStay

\* While no process_frame loop moves, the entries it has handled and the
\* array it rebuilds stay the same.
LEMMA StayFacts ==
  ASSUME TypesInv, TypesInv', ProcessesStay
  PROVE  /\ \A b \in Blocks, i \in Nat \ {0} : Handled(b, i)' <=> Handled(b, i)
         /\ \A f \in Fields, kind \in Kinds : Moved(f, kind)' <=> Moved(f, kind)
         /\ \A f \in Fields, kind \in Kinds, i \in Nat : MovedAt(f, kind, i) => MovedAt(f, kind, i)'
<1>1. Depths = 1 .. Len(stack) /\ Depths' = 1 .. Len(stack')
  BY DEF Depths
<1>2. ASSUME NEW b \in Blocks, NEW i \in Nat \ {0}, Handled(b, i)
      PROVE  Handled(b, i)'
  <2>1. PICK n \in Depths : At(n, "process") /\ stack[n].block = b /\ i <= stack[n].index
    BY <1>1, <1>2 DEF Handled, At
  <2>2. n \in Depths' /\ stack'[n] = stack[n]
    BY <2>1 DEF ProcessesStay
  <2> QED BY <1>1, <2>1, <2>2 DEF Handled, At
<1>3. ASSUME NEW b \in Blocks, NEW i \in Nat \ {0}, Handled(b, i)'
      PROVE  Handled(b, i)
  <2>1. PICK n \in Depths' : At(n, "process")' /\ stack'[n].block = b /\ i <= stack'[n].index
    BY <1>1, <1>3 DEF Handled, At
  <2>2. n \in Depths /\ stack'[n] = stack[n]
    BY <2>1 DEF ProcessesStay
  <2> QED BY <1>1, <2>1, <2>2 DEF Handled, At
<1>4. ASSUME NEW f \in Fields, NEW kind \in Kinds, Moved(f, kind)
      PROVE  Moved(f, kind)'
  <2>1. PICK n \in Depths : /\ At(n, "process")
                            /\ \E j \in 1 .. Len(stack[n].next) :
                                 stack[n].next[j].field = f /\ stack[n].next[j].kind = kind
    BY <1>4 DEF Moved
  <2>2. n \in Depths' /\ stack'[n] = stack[n]
    BY <2>1 DEF ProcessesStay
  <2> QED BY <2>1, <2>2 DEF Moved, At
<1>5. ASSUME NEW f \in Fields, NEW kind \in Kinds, Moved(f, kind)'
      PROVE  Moved(f, kind)
  <2>1. PICK n \in Depths' : /\ At(n, "process")'
                             /\ \E j \in 1 .. Len(stack'[n].next) :
                                  stack'[n].next[j].field = f /\ stack'[n].next[j].kind = kind
    BY <1>5 DEF Moved
  <2>2. n \in Depths /\ stack'[n] = stack[n]
    BY <2>1 DEF ProcessesStay
  <2> QED BY <2>1, <2>2 DEF Moved, At
<1>6. ASSUME NEW f \in Fields, NEW kind \in Kinds, NEW i \in Nat, MovedAt(f, kind, i)
      PROVE  MovedAt(f, kind, i)'
  <2>1. PICK n \in Depths : /\ At(n, "process") /\ stack[n].block = Home(f)
                            /\ i \in 1 .. Len(stack[n].next)
                            /\ stack[n].next[i] = Entry(f, kind, "armed")
    BY <1>6 DEF MovedAt
  <2>2. n \in Depths' /\ stack'[n] = stack[n]
    BY <2>1 DEF ProcessesStay
  <2> QED BY <2>1, <2>2 DEF MovedAt, At
<1> QED BY <1>2, <1>3, <1>4, <1>5, <1>6

\* An armed entry that is left alone stays armed.
LEMMA ArmedKeeps ==
  ASSUME TypesInv, TypesInv', ProcessesStay, NEW f \in Fields,
         \A i \in 1 .. Len(entries[Home(f)]) :
           entries[Home(f)][i].field = f /\ entries[Home(f)][i].state = "armed"
             /\ ~Handled(Home(f), i) =>
             i \in 1 .. Len(entries'[Home(f)]) /\ entries'[Home(f)][i] = entries[Home(f)][i]
  PROVE  ArmedStays(f)
<1>1. SUFFICES ASSUME NEW kind \in Kinds, NEW i \in Nat, ArmedAt(f, kind, i)
               PROVE  ArmedAt(f, kind, i)'
  BY DEF ArmedStays
<1>2. CASE MovedAt(f, kind, i)
  BY <1>2, StayFacts DEF ArmedAt
<1>3. CASE /\ i \in 1 .. Len(entries[Home(f)])
           /\ entries[Home(f)][i] = Entry(f, kind, "armed")
           /\ ~Handled(Home(f), i)
  <2>1. i \in 1 .. Len(entries'[Home(f)]) /\ entries'[Home(f)][i] = Entry(f, kind, "armed")
    BY <1>3, MadeEntry
  <2>2. Home(f) \in Blocks /\ i # 0
    BY <1>3, HomeFacts
  <2>3. ~Handled(Home(f), i)'
    BY <1>3, <2>2, StayFacts
  <2> QED BY <2>1, <2>3 DEF ArmedAt
<1> QED BY <1>1, <1>2, <1>3 DEF ArmedAt

\* An entry stays armed while no loop moves and no array changes.
LEMMA ArmedKeepAll ==
  ASSUME TypesInv, TypesInv', ProcessesStay, entries' = entries
  PROVE  \A f \in Fields : ArmedStays(f)
<1>1. SUFFICES ASSUME NEW f \in Fields
               PROVE  ArmedStays(f)
  OBVIOUS
<1>2. \A i \in 1 .. Len(entries[Home(f)]) :
        i \in 1 .. Len(entries'[Home(f)]) /\ entries'[Home(f)][i] = entries[Home(f)][i]
  OBVIOUS
<1> QED BY <1>2, ArmedKeeps

\* Nothing is lost as long as what is passed by is written or has an entry.
LEMMA LostKeeps ==
  ASSUME TypesInv, TypesInv', ProcessesStay, EntriesHold, NothingLost,
         \A f \in Fields : values'[f] = "unset" =>
           /\ values[f] = "unset"
           /\ Coming(f) => Coming(f)' \/ Waiting(f)'
           /\ life[Home(f)] = "none" => life'[Home(f)] = "none" \/ Coming(f)'
  PROVE  NothingLost'
<1>1. SUFFICES ASSUME NEW f \in Fields, life'[Home(f)] # "none", values'[f] = "unset",
                      ~Coming(f)', ~Waiting(f)'
               PROVE  \E kind \in Kinds : Moved(f, kind)'
  BY DEF NothingLost
<1>2. life[Home(f)] # "none" /\ values[f] = "unset" /\ ~Coming(f)
  BY <1>1
<1>3. ~Waiting(f)
  <2>1. SUFFICES ASSUME NEW i \in 1 .. Len(entries[Home(f)]), HeldAt(f, i),
                        ~Handled(Home(f), i)
                 PROVE  FALSE
    BY DEF Waiting
  <2>2. Home(f) \in Blocks /\ i \in Nat \ {0}
    BY HomeFacts
  <2>3. /\ i \in 1 .. Len(entries'[Home(f)])
        /\ entries'[Home(f)][i].field = entries[Home(f)][i].field
    BY <2>2 DEF EntriesHold, TypesInv
  <2>4. HeldAt(f, i)' /\ ~Handled(Home(f), i)'
    BY <2>1, <2>2, <2>3, StayFacts DEF HeldAt
  <2> QED BY <1>1, <2>3, <2>4 DEF Waiting
<1>4. PICK kind \in Kinds : Moved(f, kind)
  BY <1>2, <1>3 DEF NothingLost
<1> QED BY <1>4, StayFacts

\* A ready entry of a child frame is an old one, or its child has resolved.
ReadyStays ==
  /\ \A b \in Blocks : \A i \in 1 .. Len(entries'[b]) :
       \/ i \in 1 .. Len(entries[b]) /\ entries'[b][i] = entries[b][i]
       \/ Handled(b, i)
       \/ entries'[b][i].kind # "block" \/ entries'[b][i].state # "ready"
       \/ life'[Children[entries'[b][i].field][1]] = "done"
  /\ \A c \in Blocks : life[c] = "done" => life'[c] = "done"

\* An entry that is ready for a child frame has a child that has resolved,
\* while no process_frame loop moves.
LEMMA ReadyKeeps ==
  ASSUME TypesInv, TypesInv', FieldsInv, ProcessesStay, ReadyDone, ReadyStays
  PROVE  ReadyDone'
<1>1. ASSUME NEW b \in Blocks, NEW i \in 1 .. Len(entries'[b]),
             entries'[b][i].kind = "block", entries'[b][i].state = "ready", ~Handled(b, i)',
             i \in 1 .. Len(entries[b]), entries'[b][i] = entries[b][i]
      PROVE  life'[Children[entries'[b][i].field][1]] = "done"
  <2>1. i \in Nat \ {0}
    OBVIOUS
  <2>2. ~Handled(b, i)
    BY <1>1, <2>1, StayFacts
  <2>3. life[Children[entries[b][i].field][1]] = "done"
    BY <1>1, <2>2 DEF ReadyDone
  <2>4. Children[entries[b][i].field][1] \in Blocks
    <3>1. entries[b][i] \in EntrySet /\ EntryOK(entries[b][i])
      BY <1>1 DEF TypesInv, FieldsInv, ArraysOK, ArrayOK
    <3>2. entries[b][i].field \in Fields /\ Children[entries[b][i].field] # <<>>
      BY <1>1, <3>1, EntryFacts DEF EntryOK
    <3> QED BY <3>2, ChildFacts
  <2> QED BY <1>1, <2>3, <2>4 DEF ReadyStays
<1>2. ASSUME NEW b \in Blocks, NEW i \in 1 .. Len(entries'[b]),
             entries'[b][i].kind = "block", entries'[b][i].state = "ready", ~Handled(b, i)'
      PROVE  life'[Children[entries'[b][i].field][1]] = "done"
  <2>1. i \in Nat \ {0}
    OBVIOUS
  <2>2. ~Handled(b, i)
    BY <1>2, <2>1, StayFacts
  <2> QED BY <1>1, <1>2, <2>2 DEF ReadyStays
<1>3. ASSUME NEW n \in Depths', At(n, "process")', NEW i \in 1 .. Len(stack'[n].next),
             stack'[n].next[i].kind = "block"
      PROVE  stack'[n].next[i].state = "armed"
  <2>1. CASE n \in Depths /\ stack'[n] = stack[n]
    BY <1>3, <2>1 DEF ReadyDone, At
  <2>2. CASE stack'[n].next = <<>>
    BY <1>3, <2>2
  <2> QED BY <1>3, <2>1, <2>2 DEF ProcessesStay
<1> QED BY <1>2, <1>3 DEF ReadyDone

\* A frame that is queued, processed or resolved stays suspended until
\* resolve_frame has run.
LEMMA QueueKeeps ==
  ASSUME TypesInv, TypesInv', QueueSuspended, RootDrains, NEW T, NEW U, Moves(T, U),
         \A b \in Blocks : life[b] = "suspended" => life'[b] = "suspended",
         \A b \in Blocks : b \in Range(ready') => b \in Range(ready) \/ life'[b] = "suspended",
         ret' # None /\ ret'.kind = "frame" => life'[ret'.of] = "suspended",
         \A t \in T : t.at \in {"process", "resolve"} =>
           t.block \in Blocks /\ life'[t.block] = "suspended",
         \A u \in U : u.at \in {"process", "resolve"} =>
           u.block \in Blocks /\ life'[u.block] = "suspended",
         \A t \in T : t.at = "block" => t.index <= Len(Ops[t.block]) \/ t.block \in Roots,
         \A u \in U : u.at = "block" => u.index = 0
  PROVE  QueueSuspended' /\ RootDrains'
<1>1. ASSUME NEW n \in Depths', At(n, "process")' \/ At(n, "resolve")'
      PROVE  life'[stack'[n].block] = "suspended"
  <2>1. stack'[n].at \in {"process", "resolve"}
    BY <1>1 DEF At
  <2>2. CASE n \in Depths /\ stack'[n] = stack[n]
    <3>1. At(n, "process") \/ At(n, "resolve")
      BY <2>1, <2>2 DEF At
    <3>2. stack[n] \in Calls /\ stack[n].at \in {"process", "resolve"}
      BY <2>1, <2>2 DEF TypesInv, Depths
    <3>3. stack[n].block \in Blocks
      BY <3>2, CallTypes
    <3> QED BY <2>2, <3>1, <3>3 DEF QueueSuspended
  <2> QED BY <2>1, <2>2, MovedCall
<1>2. \A b \in Blocks : b \in Range(ready') => life'[b] = "suspended"
  BY DEF QueueSuspended
<1>3. ASSUME NEW n \in Depths', At(n, "block")',
             stack'[n].index > Len(Ops[stack'[n].block])
      PROVE  stack'[n].block \in Roots
  <2>1. stack'[n].at = "block" /\ stack'[n] \in Calls
    BY <1>3, MovedCall DEF At
  <2>2. /\ stack'[n].block \in Blocks /\ stack'[n].index \in Nat
        /\ Len(Ops[stack'[n].block]) \in Nat
    BY <2>1, CallTypes, TypesAssumption
  <2>3. CASE n \in Depths /\ stack'[n] = stack[n]
    BY <1>3, <2>1, <2>3 DEF RootDrains, At
  <2>4. CASE stack'[n] \in T
    BY <1>3, <2>1, <2>2, <2>4
  <2>5. CASE stack'[n] \in U
    BY <1>3, <2>1, <2>2, <2>5
  <2> QED BY <2>3, <2>4, <2>5, MovedCall
<1> QED BY <1>1, <1>2, <1>3 DEF QueueSuspended, RootDrains

\* A loop that goes on has come to what its operation was, and to nothing else.
LEMMA ComingGoes ==
  ASSUME TypesInv, CallsInv, TypesInv', NEW T, NEW U, Moves(T, U),
         Running("block") =>
           \/ Innermost.index >= Len(Ops[Innermost.block])
           \/ Len(stack) \in Depths' /\ \A t \in T : /\ t.at = "block"
                                                     /\ t.block = Innermost.block
                                                     /\ t.index = Innermost.index + 1,
         NEW f \in Fields, Coming(f), ~Coming(f)'
  PROVE  /\ Running("block") /\ Within(Len(stack)) /\ f = FieldOf(Len(stack))
         /\ T # {}
<1>1. PICK n \in Depths : /\ At(n, "block")
                          /\ \E i \in 1 .. Len(Ops[stack[n].block]) :
                               Ops[stack[n].block][i] = f /\ i > stack[n].index
  BY DEF Coming
<1>2. PICK i \in 1 .. Len(Ops[stack[n].block]) : Ops[stack[n].block][i] = f /\ i > stack[n].index
  BY <1>1
<1>3. CASE n \in Depths' /\ stack'[n] = stack[n]
  BY <1>1, <1>2, <1>3 DEF Coming, At
<1>4. CASE n = Len(stack) /\ ~(n \in Depths' /\ stack'[n] = stack[n])
  <2>1. /\ Running("block") /\ Innermost = stack[n] /\ stack # <<>>
    BY <1>1, <1>4, InnermostFacts DEF At, Depths, Running
  <2>2. /\ Innermost.block \in Blocks /\ Innermost.index \in Nat
        /\ Len(Ops[Innermost.block]) \in Nat
        /\ Within(Len(stack)) <=> Innermost.index < Len(Ops[Innermost.block])
        /\ FieldOf(Len(stack)) = CurrentField
    BY <2>1, HereBlock
  <2>3. Innermost.index < Len(Ops[Innermost.block])
    BY <1>2, <2>1, <2>2
  <2>4. n \in Depths' /\ stack'[n] \in T
    BY <1>4, <2>1, <2>2, <2>3 DEF Moves, CallStays
  <2>5. /\ stack'[n].at = "block" /\ stack'[n].block = Innermost.block
        /\ stack'[n].index = Innermost.index + 1
    BY <2>1, <2>2, <2>3, <2>4
  <2>6. i = Innermost.index + 1
    <3>1. ~(i > stack'[n].index)
      BY <1>2, <2>1, <2>4, <2>5 DEF Coming, At
    <3> QED BY <1>2, <2>1, <2>2, <2>5, <3>1
  <2>7. f = CurrentField
    BY <1>2, <2>1, <2>6 DEF CurrentField
  <2> QED BY <2>1, <2>2, <2>3, <2>4, <2>7
<1> QED BY <1>3, <1>4 DEF Moves, CallStays

\* The fields of a block.
LEMMA OpsFacts ==
  /\ \A b \in Blocks : \A f \in Range(Ops[b]) : f \in Fields /\ Home(f) = b
  /\ \A f \in Fields : f \in Range(Ops[Home(f)])
<1>1. ASSUME NEW b \in Blocks
      PROVE  \A f : f \in Range(Ops[b]) <=> \E i \in 1 .. Len(Ops[b]) : Ops[b][i] = f
  <2>1. Ops[b] \in Seq(Fields)
    BY TypesAssumption
  <2>2. Range(Ops[b]) = {Ops[b][i] : i \in DOMAIN Ops[b]} /\ DOMAIN Ops[b] = 1 .. Len(Ops[b])
    BY <2>1 DEF Range
  <2> QED BY <2>2
<1>2. ASSUME NEW b \in Blocks, NEW f, f \in Range(Ops[b])
      PROVE  f \in Fields /\ Home(f) = b
  <2>1. PICK i \in 1 .. Len(Ops[b]) : Ops[b][i] = f
    BY <1>1, <1>2
  <2> QED BY <2>1, HomeFacts
<1>3. ASSUME NEW f \in Fields
      PROVE  f \in Range(Ops[Home(f)])
  BY <1>1, HomeFacts
<1>4. \A b \in Blocks : \A f \in Range(Ops[b]) : f \in Fields /\ Home(f) = b
  <2>1. SUFFICES ASSUME NEW b \in Blocks, NEW f \in Range(Ops[b])
                 PROVE  f \in Fields /\ Home(f) = b
    OBVIOUS
  <2> QED BY <1>2, <2>1
<1>5. \A f \in Fields : f \in Range(Ops[Home(f)])
  BY <1>3
<1> QED BY <1>4, <1>5

\* What a block has returned concerns the block that is executed from here.
LEMMA HereExecutes ==
  ASSUME Answering, Running("block") \/ Running("process"), NEW c, Executes(Len(stack), c)
  PROVE  IsChild(c, FieldOf(Len(stack)))
<1>1. TypesInv /\ CallsInv
  BY NoLists
<1>2. ~At(Len(stack), "list") /\ ~At(Len(stack), "settle")
  BY <1>1, Here
<1> QED BY <1>2 DEF Executes

\* Steps that write no field.
LEMMA QuietValues ==
  ASSUME Answering, TypesInv', ValuesInv, UNCHANGED <<answer, values, nulled, errors>>,
         \A c \in Blocks : /\ life[c] = "done" => life'[c] = "done"
                           /\ life[c] = "none" /\ life'[c] # "none" =>
                                \A f \in Fields : IsChild(c, f) => answer[f] = "value",
         \/ ret' = None
         \/ ret'.kind # "outcome"
         \/ \E c \in Blocks : /\ Executes(Len(stack), c)' /\ life'[c] = "done"
                              /\ ret'.null = nulled[c],
         \/ response' = response /\ \A b \in Roots : life'[b] = "done" => life[b] = "done"
         \/ \E b \in Roots : /\ life'[b] = "done" /\ \A c \in Roots : life[c] # "none" => c = b
                             /\ \A c \in Roots : c # b => life'[c] = life[c]
                             /\ response' = IF nulled[b] THEN "null" ELSE "data"
  PROVE  ValuesInv'
<1>1. Asked'
  BY DEF ValuesInv, Asked, IsChild
<1>2. Returned'
  BY DEF Returned
<1>3. NullsOK'
  BY DEF ValuesInv, NullsOK
<1>4. Written'
  <2>1. IsNull' = IsNull
    BY DEF IsNull, Items
  <2> QED BY <2>1 DEF ValuesInv, Written, IsChild
<1>5. RecordsOK'
  BY DEF ValuesInv, RecordsOK
<1>6. Responded'
  <2>1. Roots \subseteq Blocks
    BY TypesAssumption
  <2>2. CASE response' = response /\ \A b \in Roots : life'[b] = "done" => life[b] = "done"
    BY <2>1, <2>2 DEF ValuesInv, Responded
  <2>3. CASE \E b \in Roots : /\ life'[b] = "done"
                              /\ \A c \in Roots : life[c] # "none" => c = b
                              /\ \A c \in Roots : c # b => life'[c] = life[c]
                              /\ response' = IF nulled[b] THEN "null" ELSE "data"
    <3>1. PICK b \in Roots : /\ life'[b] = "done" /\ \A c \in Roots : life[c] # "none" => c = b
                             /\ \A c \in Roots : c # b => life'[c] = life[c]
                             /\ response' = IF nulled[b] THEN "null" ELSE "data"
      BY <2>3
    <3>2. \A c \in Roots : life'[c] = "done" => c = b
      BY <3>1
    <3> QED BY <3>1, <3>2 DEF Responded
  <2> QED BY <2>2, <2>3
<1> QED BY <1>1, <1>2, <1>3, <1>4, <1>5, <1>6 DEF ValuesInv

\* A field is consumed with what the reference says of it.
LEMMA ConsumeValues ==
  ASSUME Answering, TypesInv', ValuesInv, Running("block") \/ Running("process"),
         Within(Len(stack)), NEW f \in Fields, f = FieldOf(Len(stack)),
         NEW null, NEW carries, NEW raised, Consume(Innermost.block, f, null, carries, raised),
         UNCHANGED <<answer, life, response>>, ret' = None,
         null <=> IsNull[f],
         \A c \in Blocks : IsChild(c, f) /\ answer[f] = "value" => life[c] = "done",
         raised <=> answer[f] = "error",
         ~carries /\ null <=> answer[f] = "null"
  PROVE  ValuesInv'
<1>1. TypesInv /\ CallsInv /\ FieldsInv /\ LivesInv /\ \A b : ~Adopted(b) /\ Positions = Fields
  BY NoLists
<1>2. values[f] = "unset" /\ life[Home(f)] # "done"
  BY <1>1, HereWrites
<1>3. Innermost.block = Home(f) /\ Home(f) \in Blocks
  BY <1>1, HereField, HomeFacts
<1>4. /\ values' = [values EXCEPT ![f] = IF null THEN "null" ELSE "value"]
      /\ nulled' = [nulled EXCEPT ![Home(f)] = @ \/ (null /\ f \in NonNull)]
      /\ errors' = Bump(errors,
           (IF raised THEN {<<"raised", f>>} ELSE {})
             \cup (IF null /\ f \in NonNull /\ ~carries
                   THEN {<<"nonnull", f>>} ELSE {}))
  BY <1>3 DEF Consume
<1>5. /\ values'[f] = IF null THEN "null" ELSE "value"
      /\ \A g \in Fields : g # f => values'[g] = values[g]
  BY <1>1, <1>4 DEF TypesInv
<1>6. /\ nulled'[Home(f)] <=> nulled[Home(f)] \/ (null /\ f \in NonNull)
      /\ \A b \in Blocks : b # Home(f) => nulled'[b] = nulled[b]
  <2>1. nulled \in [Blocks -> BOOLEAN]
    BY <1>1 DEF TypesInv
  <2>2. nulled' = [nulled EXCEPT ![Home(f)] = @ \/ (null /\ f \in NonNull)]
    BY <1>4
  <2> QED BY <2>1, <2>2, <1>3
<1>7. Asked'
  BY DEF ValuesInv, Asked, IsChild
<1>8. Returned'
  BY DEF Returned
<1>9. NullsOK'
  <2>1. \A b \in Blocks : \A g \in Range(Ops[b]) : g \in Fields /\ Home(g) = b
    BY OpsFacts
  <2>2. f \in Range(Ops[Home(f)])
    BY OpsFacts
  <2>3. ASSUME NEW b \in Blocks, b # Home(f)
        PROVE  nulled'[b] <=> \E g \in Range(Ops[b]) \cap NonNull : values'[g] = "null"
    <3>1. \A g \in Range(Ops[b]) : values'[g] = values[g]
      BY <1>5, <2>1, <2>3
    <3> QED BY <1>6, <2>3, <3>1 DEF ValuesInv, NullsOK
  <2>4. nulled'[Home(f)] <=>
          \E g \in Range(Ops[Home(f)]) \cap NonNull : values'[g] = "null"
    <3>1. nulled[Home(f)] <=>
            \E g \in Range(Ops[Home(f)]) \cap NonNull : values[g] = "null"
      BY <1>3 DEF ValuesInv, NullsOK
    <3>2. \A g \in Range(Ops[Home(f)]) : g = f \/ values'[g] = values[g]
      BY <1>3, <1>5, <2>1
    <3> QED BY <1>2, <1>5, <1>6, <2>2, <3>1, <3>2
  <2> QED BY <2>3, <2>4 DEF NullsOK
<1>10. Written'
  <2>1. IsNull' = IsNull
    BY DEF IsNull, Items
  <2>2. ASSUME NEW g \in Fields, g # f, values'[g] # "unset"
        PROVE  /\ values'[g] = IF IsNull[g] THEN "null" ELSE "value"
               /\ \A c \in Blocks : IsChild(c, g) /\ answer[g] = "value" => life[c] = "done"
    BY <1>5, <2>2 DEF ValuesInv, Written
  <2>3. \A g \in Fields : values'[g] # "unset" =>
          /\ values'[g] = IF IsNull[g] THEN "null" ELSE "value"
          /\ \A c \in Blocks : IsChild(c, g) /\ answer[g] = "value" => life[c] = "done"
    BY <1>5, <2>2
  <2> QED BY <2>1, <2>3 DEF Written, IsChild
<1>11. RecordsOK'
  <2>1. \A g \in Fields : \A k \in {"raised", "nonnull"} :
          <<k, g>> \in {"raised", "nonnull"} \X Positions /\ errors[<<k, g>>] \in Nat
    BY <1>1 DEF TypesInv
  <2>2. \A g \in Fields : \A k \in {"raised", "nonnull"} :
          errors'[<<k, g>>] =
            IF <<k, g>> \in (IF raised THEN {<<"raised", f>>} ELSE {})
                 \cup (IF null /\ f \in NonNull /\ ~carries THEN {<<"nonnull", f>>} ELSE {})
            THEN errors[<<k, g>>] + 1 ELSE errors[<<k, g>>]
    <3>1. DOMAIN errors = {"raised", "nonnull"} \X Positions
      BY <1>1 DEF TypesInv
    <3> QED BY <1>4, <2>1, <3>1 DEF Bump
  <2>3. \A g \in Fields : g # f => /\ errors'[<<"raised", g>>] = errors[<<"raised", g>>]
                                   /\ errors'[<<"nonnull", g>>] = errors[<<"nonnull", g>>]
    BY <2>2
  <2>4. /\ errors'[<<"raised", f>>] =
             IF raised THEN errors[<<"raised", f>>] + 1 ELSE errors[<<"raised", f>>]
        /\ errors'[<<"nonnull", f>>] =
             IF null /\ f \in NonNull /\ ~carries THEN errors[<<"nonnull", f>>] + 1
             ELSE errors[<<"nonnull", f>>]
    BY <2>2
  <2>5. errors[<<"raised", f>>] = 0 /\ errors[<<"nonnull", f>>] = 0
    BY <1>2 DEF ValuesInv, RecordsOK
  <2>6. values'[f] # "unset"
    BY <1>5
  <2>7. ASSUME NEW g \in Fields, g # f
        PROVE  /\ errors'[<<"raised", g>>] =
                    IF values'[g] # "unset" /\ answer[g] = "error" THEN 1 ELSE 0
               /\ errors'[<<"nonnull", g>>] =
                    IF values'[g] # "unset" /\ g \in NonNull /\ answer[g] = "null" THEN 1 ELSE 0
    BY <1>5, <2>3, <2>7 DEF ValuesInv, RecordsOK
  <2>8. /\ errors'[<<"raised", f>>] = IF answer[f] = "error" THEN 1 ELSE 0
        /\ errors'[<<"nonnull", f>>] = IF f \in NonNull /\ answer[f] = "null" THEN 1 ELSE 0
    BY <2>4, <2>5
  <2>9. \A g \in Fields :
          /\ errors'[<<"raised", g>>] =
               IF values'[g] # "unset" /\ answer[g] = "error" THEN 1 ELSE 0
          /\ errors'[<<"nonnull", g>>] =
               IF values'[g] # "unset" /\ g \in NonNull /\ answer[g] = "null" THEN 1 ELSE 0
    BY <2>6, <2>7, <2>8
  <2> QED BY <2>9 DEF RecordsOK
<1>12. Responded'
  <2>1. \A b \in Roots : life[b] = "done" => b \in Blocks /\ b # Home(f)
    BY <1>2, TypesAssumption
  <2> QED BY <1>6, <2>1 DEF ValuesInv, Responded
<1> QED BY <1>7, <1>8, <1>9, <1>10, <1>11, <1>12 DEF ValuesInv

\* A block that is done has written all its fields, so it is nulled if and only
\* if the reference says so.
LEMMA DoneIsWritten ==
  ASSUME Answering, AnswersInv, NEW b \in Blocks, life[b] = "done"
  PROVE  /\ \A f \in Fields : Home(f) = b => values[f] # "unset"
         /\ nulled[b] <=> IsNull[b]
<1>1. TypesInv /\ CallsInv /\ FieldsInv /\ LivesInv /\ \A c : ~Adopted(c) /\ Lists = {}
  BY NoLists
<1>2. entries[b] = <<>>
  BY <1>1 DEF LivesInv, DoneEmpty
<1>3. ASSUME NEW f \in Fields, Home(f) = b
      PROVE  values[f] # "unset"
  <2>1. ~Waiting(f)
    BY <1>2, <1>3 DEF Waiting
  <2>2. \A kind : ~Moved(f, kind)
    <3>1. SUFFICES ASSUME NEW kind, Moved(f, kind)
                   PROVE  FALSE
      OBVIOUS
    <3>2. \E i : HeldAt(f, i)
      BY <1>1, <3>1, MovedHeld DEF FieldsInv
    <3> QED BY <1>2, <1>3, <3>2 DEF HeldAt
  <2>3. ~Coming(f)
    <3>1. SUFFICES ASSUME NEW n \in Depths, At(n, "block"),
                          NEW i \in 1 .. Len(Ops[stack[n].block]),
                          Ops[stack[n].block][i] = f, i > stack[n].index
                   PROVE  FALSE
      BY DEF Coming
    <3>2. stack[n].block \in Blocks /\ stack[n].index \in Nat
      BY <1>1, <3>1, CallTypes DEF At, TypesInv, Depths
    <3>3. stack[n].block = b
      BY <1>3, <3>1, <3>2, HomeFacts
    <3>4. Len(Ops[b]) \in Nat
      BY TypesAssumption
    <3>5. LoopRuns(b)
      BY <3>1, <3>2, <3>3, <3>4 DEF LoopRuns
    <3> QED BY <1>1, <3>5 DEF LivesInv, LoopsLive
  <2>4. life[Home(f)] # "none"
    BY <1>3
  <2> QED BY <2>1, <2>2, <2>3, <2>4 DEF AnswersInv, PlacesInv, NothingLost
<1>4. \A f \in Range(Ops[b]) : f \in Fields /\ Home(f) = b
  BY OpsFacts
<1>5. \A f \in Range(Ops[b]) : values[f] = "null" <=> IsNull[f]
  BY <1>3, <1>4 DEF AnswersInv, ValuesInv, Written
<1>6. nulled[b] <=> IsNull[b]
  BY <1>1, <1>5, NullFacts DEF AnswersInv, ValuesInv, NullsOK
<1> QED BY <1>3, <1>6

\* The block whose loop runs is running; there is one root.
LEMMA HereLives ==
  ASSUME Answering, Running("block"), Innermost.index <= Len(Ops[Innermost.block])
  PROVE  Innermost.block \in Blocks /\ life[Innermost.block] = "running"
<1>1. TypesInv /\ CallsInv /\ LivesInv /\ \A b : ~Adopted(b)
  BY NoLists
<1>2. Innermost.block \in Blocks
  BY <1>1, HereBlock
<1>3. LoopRuns(Innermost.block)
  <2>1. Len(stack) \in Depths /\ stack[Len(stack)] = Innermost /\ At(Len(stack), "block")
    BY <1>1, Here
  <2> QED BY <2>1 DEF LoopRuns
<1> QED BY <1>1, <1>2, <1>3 DEF LivesInv, LoopsLive

\* One operation is executed: two roots that have started are one.
LEMMA OneRoot ==
  ASSUME RootsInv, NEW b \in Roots, life[b] # "none", NEW c \in Roots, life[c] # "none"
  PROVE  c = b
<1> QED BY DEF RootsInv

\* Who called the block that returns executes it.
LEMMA CallerExecutes ==
  ASSUME Answering, TypesInv', Running("block"), Innermost.block \notin Roots, Leaves,
         Extends(Len(stack) - 1), NEW c, c = Innermost.block
  PROVE  Executes(Len(stack), c)'
<1>1. TypesInv /\ CallsInv
  BY NoLists
<1>2. PICK L \in Nat : /\ L = Len(stack) /\ L \in Depths /\ stack[L] = Innermost
                       /\ At(L, "block") /\ CallerOK(L) /\ L # 0
  BY <1>1, Here DEF Depths
<1>3. L # 1 /\ Executes(L - 1, c)
  BY <1>2 DEF CallerOK
<1>4. PICK k \in Nat : k = L - 1 /\ k \in Depths /\ k \in 1 .. k
  BY <1>2, <1>3 DEF Depths
<1>5. Calling(k)
  BY <1>2, <1>4 DEF Calling, At
<1>6. k <= Len(stack) /\ k <= Len(stack') /\ SameBelow(k) /\ Extends(k) /\ Len(stack') = k
  BY <1>2, <1>4 DEF Leaves
<1>7. /\ Calling(k) => Within(k)
      /\ Within(k) /\ Executes(k, c) => Executes(k, c)'
  BY <1>1, <1>4, <1>6, CallsKept
<1>8. Executes(k, c)'
  BY <1>3, <1>4, <1>5, <1>7
<1>9. Executes(Len(stack), c)' <=> Executes(k, c)'
  BY <1>6 DEF Executes, At, FieldOf, Depths
<1> QED BY <1>8, <1>9

\* Every field keeps its place when what is armed stays armed, or is armed anew.
LEMMA PlacesGo ==
  ASSUME TypesInv, TypesInv', FieldsInv, PlacesInv, ProcessesStay, EntriesHold, ReadyStays,
         QueueSuspended' /\ RootDrains',
         \A f \in Fields : values'[f] = "unset" =>
           /\ values[f] = "unset"
           /\ Coming(f) => Coming(f)' \/ Waiting(f)'
           /\ life[Home(f)] = "none" => life'[Home(f)] = "none" \/ Coming(f)',
         \A f \in Fields : ctx'[f] # 0 =>
           /\ \/ ctx'[f] = ctx[f] /\ ArmedStays(f)
              \/ ArmedAt(f, "promise", ctx[f])'
           /\ \A c \in Blocks : IsChild(c, f) => life'[c] = "none",
         \A f \in Fields : \A c \in Blocks : IsChild(c, f) /\ life'[c] = "suspended" =>
           \/ ret' = Frame(c)
           \/ ArmedAt(f, "block", link[c])'
           \/ life[c] = "suspended" /\ ret # Frame(c) /\ link'[c] = link[c] /\ ArmedStays(f)
  PROVE  PlacesInv'
<1>1. NothingLost'
  BY LostKeeps DEF PlacesInv
<1>2. CallbacksHeld'
  <2>1. ASSUME NEW f \in Fields, ctx'[f] # 0
        PROVE  ArmedAt(f, "promise", ctx[f])'
    <3>1. CASE ctx'[f] = ctx[f] /\ ArmedStays(f)
      <4>1. PICK i \in Nat : i = ctx[f] /\ i = ctx'[f] /\ i # 0
        BY <2>1, <3>1 DEF TypesInv
      <4>2. ArmedAt(f, "promise", i)
        BY <4>1 DEF PlacesInv, CallbacksHeld
      <4>3. ArmedAt(f, "promise", i)'
        BY <3>1, <4>2 DEF ArmedStays, Kinds
      <4> QED BY <4>1, <4>3
    <3> QED BY <2>1, <3>1
  <2> QED BY <2>1 DEF CallbacksHeld, IsChild
<1>3. LinksHeld'
  <2>1. ASSUME NEW c \in Blocks, NEW f \in Fields, IsChild(c, f), life'[c] = "suspended",
               ret' # Frame(c)
        PROVE  ArmedAt(f, "block", link[c])'
    <3>1. CASE life[c] = "suspended" /\ ret # Frame(c) /\ link'[c] = link[c] /\ ArmedStays(f)
      <4>1. PICK i \in Nat : i = link[c] /\ i = link'[c]
        BY <3>1 DEF TypesInv
      <4>2. ArmedAt(f, "block", i)
        BY <2>1, <3>1, <4>1 DEF PlacesInv, LinksHeld
      <4>3. ArmedAt(f, "block", i)'
        BY <3>1, <4>2 DEF ArmedStays, Kinds
      <4> QED BY <4>1, <4>3
    <3> QED BY <2>1, <3>1
  <2> QED BY <2>1 DEF LinksHeld, IsChild, Frame
<1>4. ReadyDone'
  BY ReadyKeeps DEF PlacesInv
<1> QED BY <1>1, <1>2, <1>3, <1>4 DEF PlacesInv

\* Steps that leave the entries alone, and whoever holds their indices.
LEMMA PlacesCalm ==
  ASSUME Answering, Answering', PlacesInv, NEW T, NEW U, Moves(T, U), ProcessesStay,
         UNCHANGED <<entries, ctx, link>>,
         \A f \in Fields : values'[f] = "unset" =>
           /\ values[f] = "unset"
           /\ Coming(f) => Coming(f)'
           /\ life[Home(f)] = "none" => life'[Home(f)] = "none" \/ Coming(f)',
         \A b \in Blocks : /\ life[b] = "done" => life'[b] = "done"
                           /\ life[b] = "suspended" <=> life'[b] = "suspended"
                           /\ life[b] = "none" => \/ life'[b] = "none"
                                                  \/ \A f \in Fields : IsChild(b, f) => ctx[f] = 0,
         \A c \in Blocks : ret = Frame(c) => ret' = ret,
         \A b \in Blocks : b \in Range(ready') => b \in Range(ready) \/ life'[b] = "suspended",
         ret' # None /\ ret'.kind = "frame" => life'[ret'.of] = "suspended",
         \A t \in T : t.at \in {"process", "resolve"} =>
           t.block \in Blocks /\ life'[t.block] = "suspended",
         \A u \in U : u.at \in {"process", "resolve"} =>
           u.block \in Blocks /\ life'[u.block] = "suspended",
         \A t \in T : t.at = "block" => t.index <= Len(Ops[t.block]) \/ t.block \in Roots,
         \A u \in U : u.at = "block" => u.index = 0
  PROVE  PlacesInv'
<1>1. TypesInv /\ TypesInv' /\ FieldsInv
  BY DEF Answering
<1>2. \A f \in Fields : ArmedStays(f)
  BY <1>1, ArmedKeepAll
<1>3. EntriesHold /\ ReadyStays
  BY <1>1 DEF EntriesHold, ReadyStays, TypesInv
<1>4. QueueSuspended' /\ RootDrains'
  BY <1>1, QueueKeeps DEF PlacesInv
<1>5. \A f \in Fields : ctx'[f] # 0 =>
        ctx'[f] = ctx[f] /\ \A c \in Blocks : IsChild(c, f) => life'[c] = "none"
  BY DEF PlacesInv, CallbacksHeld
<1>6. \A c \in Blocks : life'[c] = "suspended" =>
        \/ ret' = Frame(c)
        \/ life[c] = "suspended" /\ ret # Frame(c) /\ link'[c] = link[c]
  OBVIOUS
<1>7. \A f \in Fields : values'[f] = "unset" =>
        /\ values[f] = "unset"
        /\ Coming(f) => Coming(f)' \/ Waiting(f)'
        /\ life[Home(f)] = "none" => life'[Home(f)] = "none" \/ Coming(f)'
  OBVIOUS
<1> QED BY <1>1, <1>2, <1>3, <1>4, <1>5, <1>6, <1>7, PlacesGo

-----------------------------------------------------------------------------
(* The steps                                                               *)

\* The agreement with the reference is kept by finalize_block of a block
\* nothing of which is pending.
LEMMA FinalizeCompleteAnswers ==
  ASSUME Answering, Answering', AnswersInv, NEW b \in Blocks, FinalizeComplete(b)
  PROVE  AnswersInv'
<1>1. /\ ret = None /\ Running("block") /\ Innermost.block = b
      /\ Innermost.index = Len(Ops[b]) + 0
      /\ life' = [life EXCEPT ![b] = "done"]
      /\ UNCHANGED <<answer, entries, link, ctx, values, nulled, errors, ready>>
      /\ stack' = Pop
      /\ b \in Roots => ret' = ret /\ response' = IF nulled[b] THEN "null" ELSE "data"
      /\ b \notin Roots => ret' = Outcome(nulled[b]) /\ response' = response
  BY DEF FinalizeComplete, Finalizing, Returns, tree
<1>2. /\ TypesInv /\ TypesInv' /\ CallsInv /\ FieldsInv /\ PlacesInv /\ ValuesInv /\ RootsInv
      /\ Len(Ops[b]) \in Nat
  BY TypesAssumption DEF Answering, AnswersInv
<1>3. stack # <<>> /\ ~Running("process") /\ Innermost.at = "block"
  BY <1>1, <1>2, Here
<1>4. b \in Roots => Len(stack) = 1
  BY <1>1, <1>2, HereStarted
<1>5. nulled[b] \in BOOLEAN
  BY <1>2 DEF TypesInv
<1>6. Leaves
  BY <1>1, <1>2, <1>3, PopFacts
<1>7. Moves({}, {})
  <2>1. ret' # None \/ Len(stack) = 1
    BY <1>1, <1>4, <1>5, ResultFacts
  <2> QED BY <1>1, <1>2, <1>3, <1>6, <2>1, ReturnsQuietly
<1>8. ProcessesStay
  BY <1>2, <1>3, <1>7, MovesStay
<1>9. life[b] = "running"
  BY <1>1, <1>2, HereLives
<1>10. life'[b] = "done" /\ \A c \in Blocks : c # b => life'[c] = life[c]
  BY <1>1, <1>2 DEF TypesInv
<1>11. PlacesInv'
  <2>1. \A f \in Fields : Coming(f) => Coming(f)'
    BY <1>1, <1>2, <1>7, ComingGoes
  <2>2. \A f \in Fields : Home(f) \in Blocks
    BY HomeFacts
  <2>3. ret' # None => ret'.kind # "frame"
    BY <1>1, <1>5, ResultFacts
  <2>4. \A c \in Blocks : ret # Frame(c)
    BY <1>1, ResultFacts
  <2> QED BY <1>1, <1>2, <1>7, <1>8, <1>9, <1>10, <2>1, <2>2, <2>3, <2>4, PlacesCalm
<1>12. ValuesInv'
  <2>1. Roots \subseteq Blocks
    BY TypesAssumption
  <2>2. CASE b \in Roots
    <3>1. \A c \in Roots : life[c] # "none" => c = b
      BY <1>2, <1>9, <2>2, OneRoot
    <3> QED BY <1>1, <1>2, <1>9, <1>10, <2>1, <2>2, <3>1, QuietValues
  <2>3. CASE b \notin Roots
    <3>1. Extends(Len(stack) - 1)
      BY <1>1, <1>2, <1>3, ExtendsBelow
    <3>2. Executes(Len(stack), b)'
      BY <1>1, <1>2, <1>6, <2>3, <3>1, CallerExecutes
    <3>3. ret' = Outcome(nulled[b]) /\ ret'.null = nulled[b]
      BY <1>1, <2>3 DEF Outcome
    <3> QED BY <1>1, <1>2, <1>9, <1>10, <2>1, <2>3, <3>2, <3>3, QuietValues
  <2> QED BY <2>2, <2>3
<1> QED BY <1>11, <1>12 DEF AnswersInv

\* The agreement with the reference is kept by the end of finalize_block
\* after the drain it entered.
LEMMA FinalizeReturnsAnswers ==
  ASSUME Answering, Answering', AnswersInv, NEW b \in Blocks, FinalizeReturns(b)
  PROVE  AnswersInv'
<1>1. /\ ret = None /\ Running("block") /\ Innermost.block = b
      /\ Innermost.index = Len(Ops[b]) + 1 \/ Innermost.index = Len(Ops[b]) + 2
      /\ UNCHANGED <<answer, entries, link, ctx, values, nulled, errors, life, response>>
  BY DEF FinalizeReturns, Finalizing, tree, frames
<1>2. /\ TypesInv /\ TypesInv' /\ CallsInv /\ FieldsInv /\ LivesInv /\ PlacesInv /\ ValuesInv
      /\ Len(Ops[b]) \in Nat
  BY TypesAssumption DEF Answering, AnswersInv
<1>3. /\ stack # <<>> /\ ~Running("process") /\ Innermost.at = "block"
      /\ Len(stack) \in Depths /\ At(Len(stack), "block") /\ stack[Len(stack)] = Innermost
  BY <1>1, <1>2, Here
<1>4. b \in Roots /\ Len(stack) = 1
  <2>1. b \in Roots
    BY <1>1, <1>2, <1>3 DEF PlacesInv, RootDrains
  <2> QED BY <1>1, <1>2, <2>1, HereStarted
<1>5. life[b] \in {"suspended", "done"}
  BY <1>1, <1>2, HereFinalized
<1>6. CASE response = None /\ EnqueueAndDrain(TRUE, b, ready, Advance) /\ ret' = ret
           /\ Innermost.index = Len(Ops[b]) + 1
  <2>1. life[b] = "suspended"
    <3>1. response # None => ResponseAssumption
      BY ResponseAssumption
    <3>2. life[b] # "done"
      BY <1>2, <1>4, <1>6, ResponseAssumption DEF ValuesInv, Responded
    <3> QED BY <1>5, <3>2
  <2>2. PICK t \in Calls : /\ t = Advanced(Innermost) /\ t.at = "block" /\ t.block = b
                           /\ t.index = Innermost.index + 1 /\ SameCall(t)
    <3>1. Advanced(Innermost) = OpLoop(b, Innermost.index + 1)
      BY <1>1, <1>3 DEF Advanced
    <3>2. Innermost.index + 1 \in Nat
      BY <1>1, <1>2
    <3> QED BY <1>1, <1>3, <3>1, <3>2, MadeCalls, MadeBlock DEF SameCall
  <2>3. /\ \A c : c \in Range(ready') => c \in Range(ready) \/ c = b
        /\ Becomes(t) \/ BecomesAndEnters(t, DrainLoop)
    <3>1. EnqueueAndDrain(TRUE, b, ready, Top(t))
      BY <1>6, <2>2 DEF Advance
    <3>2. ready \in Seq(Blocks \cup {None})
      BY <1>2 DEF TypesInv
    <3> QED BY <1>2, <1>3, <2>2, <3>1, <3>2, EnqueueAndDrainFacts
  <2>4. PICK U \in {{}, {DrainLoop}} : Moves({t}, U)
    BY <1>1, <1>2, <2>2, <2>3, GoesOnQuietly
  <2>5. \A u \in U : u.at = "drain"
    BY MadeOthers
  <2>6. ProcessesStay
    BY <1>2, <1>3, <2>2, <2>4, <2>5, MovesStay
  <2>7. \A f \in Fields : Coming(f) => Coming(f)'
    <3>1. ~Within(Len(stack))
      BY <1>1, <1>2, HereBlock
    <3> QED BY <1>1, <1>2, <2>4, <3>1, ComingGoes
  <2>8. PlacesInv'
    BY <1>1, <1>2, <1>4, <1>6, <2>1, <2>2, <2>3, <2>4, <2>5, <2>6, <2>7, PlacesCalm
  <2>9. ValuesInv'
    BY <1>1, <1>2, <1>6, QuietValues
  <2> QED BY <2>8, <2>9 DEF AnswersInv
<1>7. CASE stack' = Pop /\ ret' = None /\ ready' = ready
  <2>1. Leaves
    BY <1>2, <1>3, <1>7, PopFacts
  <2>2. Moves({}, {})
    BY <1>2, <1>3, <1>4, <2>1, ReturnsQuietly
  <2>3. ProcessesStay
    BY <1>2, <1>3, <2>2, MovesStay
  <2>4. \A f \in Fields : Coming(f) => Coming(f)'
    BY <1>1, <1>2, <2>2, ComingGoes
  <2>5. PlacesInv'
    BY <1>1, <1>2, <1>7, <2>2, <2>3, <2>4, PlacesCalm
  <2>6. ValuesInv'
    BY <1>1, <1>2, <1>7, QuietValues
  <2> QED BY <2>5, <2>6 DEF AnswersInv
<1>8. \/ response = None /\ EnqueueAndDrain(TRUE, b, ready, Advance) /\ ret' = ret
         /\ Innermost.index = Len(Ops[b]) + 1
      \/ stack' = Pop /\ ret' = None /\ ready' = ready
  BY <1>4 DEF FinalizeReturns, Finalizing
<1> QED BY <1>6, <1>7, <1>8

\* A block has one field above it, and a field one block below it.
LEMMA OneChild ==
  ASSUME NEW f \in Fields, NEW g \in Fields, NEW c \in Blocks, IsChild(c, f), IsChild(c, g)
  PROVE  f = g /\ c \notin Roots
<1>1. 1 \in 1 .. Len(Children[f]) /\ 1 \in 1 .. Len(Children[g])
  BY ChildFacts DEF IsChild
<1> QED BY <1>1, TreeAssumption DEF IsChild

\* What is armed for the field that is completed is the entry that is processed.
LEMMA HereArmed ==
  ASSUME Answering, Running("block") \/ Running("process"), Within(Len(stack)),
         NEW f, f = FieldOf(Len(stack)), NEW kind \in Kinds, NEW i \in Nat, ArmedAt(f, kind, i)
  PROVE  /\ Running("process") /\ i = Innermost.index + 1
         /\ CurrentEntry = Entry(f, kind, "armed")
<1>1. TypesInv /\ CallsInv /\ FieldsInv
  BY NoLists
<1>2. PICK b \in Blocks, k \in Nat \ {0} :
        /\ f \in Fields /\ b = Innermost.block /\ k = Innermost.index + 1 /\ Home(f) = b
        /\ Running("block") => MayHold(f)
        /\ Running("process") => HeldAt(f, k) /\ \A x : ~Moved(f, x)
  BY <1>1, HereField
<1>3. MovedAt(f, kind, i) => Moved(f, kind)
  BY MadeEntry DEF MovedAt, Moved
<1>4. ~MovedAt(f, kind, i) => HeldAt(f, i) /\ entries[Home(f)][i] = Entry(f, kind, "armed")
  BY MadeEntry DEF ArmedAt, HeldAt
<1>5. Running("process")
  <2>1. SUFFICES ASSUME Running("block")
                 PROVE  FALSE
    OBVIOUS
  <2>2. NotHeld(f)
    BY <1>1, <1>2, <2>1 DEF FieldsInv, HoldsKept
  <2>3. ~Moved(f, kind)
    <3>1. SUFFICES ASSUME Moved(f, kind)
                   PROVE  FALSE
      OBVIOUS
    <3>2. \E j : HeldAt(f, j)
      BY <1>1, <1>2, <3>1, MovedHeld DEF FieldsInv
    <3> QED BY <2>2, <3>2 DEF NotHeld, HeldAt
  <2> QED BY <1>3, <1>4, <2>2, <2>3 DEF NotHeld, HeldAt
<1>6. HeldAt(f, i) /\ entries[Home(f)][i] = Entry(f, kind, "armed") /\ HeldAt(f, k)
  BY <1>2, <1>3, <1>4, <1>5
<1>7. i = k
  BY <1>1, <1>2, <1>6, HeldOnce DEF FieldsInv
<1> QED BY <1>2, <1>5, <1>6, <1>7 DEF CurrentEntry

\* The block of a field that is completed has not been started.
LEMMA HereUnstarted ==
  ASSUME Answering, Running("block") \/ Running("process"), Within(Len(stack)), ret = None,
         NEW f \in Fields, f = FieldOf(Len(stack)),
         Running("process") => CurrentEntry.kind = "promise"
  PROVE  \A c \in Blocks : IsChild(c, f) => life[c] = "none"
<1>1. TypesInv /\ CallsInv /\ FieldsInv
  BY NoLists
<1>2. MayComplete(f)
  BY <1>1, HereField DEF MayComplete
<1>3. SUFFICES ASSUME NEW c \in Blocks, IsChild(c, f)
               PROVE  life[c] = "none"
  OBVIOUS
<1>4. ChildOf(c, f)
  BY <1>3, ChildFacts DEF IsChild, ChildOf
<1> QED BY <1>1, <1>2, <1>4 DEF FieldsInv, StartsOK, MayStart

\* A field that resolves to an object executes its block, ...
LEMMA StartAnswers ==
  ASSUME Answering, Answering', AnswersInv, Running("block") \/ Running("process"),
         Within(Len(stack)), ret = None, ret' = None, NEW f \in Fields, f = FieldOf(Len(stack)),
         Running("process") => CurrentEntry.kind = "promise" /\ CurrentEntry.state = "ready",
         NEW c \in Blocks, IsChild(c, f), answer[f] = "value", stack' = Push(OpLoop(c, 0)),
         life' = [life EXCEPT ![c] = "running"],
         UNCHANGED <<answer, entries, link, ctx, values, nulled, errors, ready, response>>
  PROVE  AnswersInv'
<1>1. /\ TypesInv /\ TypesInv' /\ CallsInv /\ FieldsInv /\ PlacesInv /\ ValuesInv
  BY DEF Answering, AnswersInv
<1>2. life[c] = "none" /\ life'[c] = "running" /\ \A d \in Blocks : d # c => life'[d] = life[d]
  BY <1>1, HereUnstarted DEF TypesInv
<1>3. PICK u \in Calls : u = OpLoop(c, 0) /\ u.at = "block" /\ u.block = c /\ u.index = 0
  <2>1. 0 \in Nat
    OBVIOUS
  <2> QED BY <2>1, MadeCalls, MadeBlock
<1>4. Enters(u)
  BY <1>1, <1>3, PushFacts
<1>5. Moves({}, {u})
  BY <1>1, <1>4, EntersMoves
<1>6. Len(stack) \in Depths' /\ stack # <<>>
  BY <1>1, <1>4, Here DEF Enters, Depths
<1>7. ProcessesStay
  BY <1>1, <1>3, <1>5, <1>6, MovesStay
<1>8. \A g \in Fields : Coming(g) => Coming(g)'
  BY <1>1, <1>5, <1>6, ComingGoes
<1>9. \A g \in Fields : Home(g) = c => Coming(g)'
  <2>1. SUFFICES ASSUME NEW g \in Fields, Home(g) = c
                 PROVE  Coming(g)'
    OBVIOUS
  <2>2. PICK i \in 1 .. Len(Ops[c]) : Ops[c][i] = g
    BY <2>1, HomeFacts
  <2>3. PICK n \in Depths' : stack'[n] = u
    BY <1>1, <1>4, InnermostFacts DEF Enters, Depths
  <2> QED BY <1>3, <2>2, <2>3 DEF Coming, At
<1>10. ctx[f] = 0
  <2>1. SUFFICES ASSUME ctx[f] # 0
                 PROVE  FALSE
    OBVIOUS
  <2>2. PICK i \in Nat : i = ctx[f] /\ ArmedAt(f, "promise", i)
    BY <1>1, <2>1 DEF PlacesInv, CallbacksHeld, TypesInv
  <2>3. "promise" \in Kinds
    BY DEF Kinds
  <2> QED BY <2>2, <2>3, HereArmed, MadeEntry
<1>11. \A g \in Fields : IsChild(c, g) => ctx[g] = 0
  BY <1>10, OneChild
<1>12. PlacesInv'
  <2>1. \A g \in Fields : Home(g) \in Blocks
    BY HomeFacts
  <2>2. \A d \in Blocks : ret # Frame(d)
    BY ResultFacts
  <2> QED BY <1>1, <1>2, <1>3, <1>5, <1>7, <1>8, <1>9, <1>11, <2>1, <2>2, PlacesCalm
<1>13. ValuesInv'
  <2>1. \A g \in Fields : IsChild(c, g) => answer[g] = "value"
    BY OneChild
  <2>2. Roots \subseteq Blocks
    BY TypesAssumption
  <2> QED BY <1>1, <1>2, <2>1, <2>2, QuietValues
<1> QED BY <1>12, <1>13 DEF AnswersInv

\* The frame that is processed has dealt with one more entry, and moved it or not.
ProcessGoesOn(t, f) ==
  /\ Becomes(t) /\ t.at = "process" /\ t.block = Innermost.block
  /\ t.index = Innermost.index + 1
  /\ \/ t.next = Innermost.next
     \/ \E e \in EntrySet : /\ t.next = Append(Innermost.next, e) /\ e.field = f
                            /\ e.kind = "block" => e.state = "armed"

\* The process_frame loop that runs is the only one: process_frame does not
\* nest.
LEMMA OnlyProcess ==
  ASSUME TypesInv, CallsInv, Running("process"), NEW L \in Nat, L = Len(stack)
  PROVE  \A n \in Depths : At(n, "process") <=> n = L
<1>1. L \in Depths /\ At(L, "process")
  BY Here
<1> QED BY <1>1, OneProcess

\* What process_frame is after it went on to its next entry: the same call,
\* one entry further.
LEMMA GoesOnFacts ==
  ASSUME Answering, Answering', Running("process"), NEW f \in Fields, NEW t \in Calls,
         ProcessGoesOn(t, f), NEW L \in Nat, L = Len(stack), NEW b \in Blocks,
         b = Innermost.block, NEW k \in Nat \ {0}, k = Innermost.index + 1
  PROVE  /\ L \in Depths /\ L \in Depths' /\ Depths' = Depths /\ stack'[L] = t
         /\ \A n \in Depths : n # L => stack'[n] = stack[n]
         /\ \A n \in Depths : At(n, "process") <=> n = L
         /\ \A n \in Depths : At(n, "process")' <=> n = L
         /\ t.block = b /\ t.index = k
<1>1. TypesInv /\ TypesInv' /\ CallsInv /\ CallsInv'
  BY NoLists DEF Answering
<1>2. L \in Depths /\ stack[L] = Innermost /\ stack # <<>> /\ Innermost.index \in Nat
  BY <1>1, Here, HereProcess
<1>3. Becomes(t)
  BY DEF ProcessGoesOn
<1>4. Len(stack') = L /\ stack'[L] = t /\ \A n \in Depths : n # L => stack'[n] = stack[n]
  BY <1>2, <1>3 DEF Becomes, SameBelow, Depths
<1>5. Depths' = Depths
  BY <1>4 DEF Depths
<1>6. \A n \in Depths : At(n, "process") <=> n = L
  BY <1>1, OnlyProcess
<1>7. t.at = "process" /\ t.block = b /\ t.index = k
  BY DEF ProcessGoesOn
<1>8. \A n \in Depths : At(n, "process")' <=> n = L
  BY <1>4, <1>5, <1>6, <1>7 DEF At
<1> QED BY <1>2, <1>4, <1>5, <1>6, <1>7, <1>8

\* process_frame has then handled exactly the entries up to that one.
LEMMA GoesOnHandled ==
  ASSUME Answering, Answering', Running("process"), NEW f \in Fields, NEW t \in Calls,
         ProcessGoesOn(t, f), NEW L \in Nat, L = Len(stack), NEW b \in Blocks,
         b = Innermost.block, NEW k \in Nat \ {0}, k = Innermost.index + 1
  PROVE  /\ \A c \in Blocks, i \in Nat : Handled(c, i) <=> (c = b /\ i < k)
         /\ \A c \in Blocks, i \in Nat : Handled(c, i)' <=> (c = b /\ i <= k)
<1>1. /\ L \in Depths /\ Depths' = Depths /\ stack'[L] = t /\ t.block = b /\ t.index = k
      /\ \A n \in Depths : At(n, "process") <=> n = L
      /\ \A n \in Depths : At(n, "process")' <=> n = L
  BY GoesOnFacts
<1>2. stack[L] = Innermost /\ Innermost.index \in Nat
  BY Here, HereProcess, NoLists
<1>3. \A c \in Blocks, i \in Nat : Handled(c, i) <=> (c = b /\ i < k)
  BY <1>1, <1>2 DEF Handled, At, Depths
<1>4. \A c \in Blocks, i \in Nat : Handled(c, i)' <=> (c = b /\ i <= k)
  BY <1>1 DEF Handled, At, Depths
<1> QED BY <1>3, <1>4

\* Where another field is armed or waits, it still does.
LEMMA GoesOnArmed ==
  ASSUME Answering, Answering', Running("process"), EntriesLeft, NEW f \in Fields,
         f = FieldOf(Len(stack)), NEW t \in Calls, ProcessGoesOn(t, f), entries' = entries,
         NEW g \in Fields, g # f
  PROVE  /\ ArmedStays(g)
         /\ Waiting(g) => Waiting(g)'
         /\ \A kind : Moved(g, kind) => Moved(g, kind)'
<1>1. TypesInv /\ CallsInv
  BY NoLists
<1>2. PICK L \in Nat, b \in Blocks, k \in Nat \ {0} :
        /\ L = Len(stack) /\ b = Innermost.block /\ k = Innermost.index + 1
        /\ f = entries[b][k].field /\ Innermost = stack[L]
        /\ Innermost.next \in Seq(EntrySet)
  <2>1. /\ Innermost.block \in Blocks /\ Innermost.index + 1 \in Nat \ {0}
        /\ CurrentEntry.field = f
    BY <1>1, HereProcess
  <2> QED BY <1>1, <2>1, Here, HereProcess DEF CurrentEntry
<1>3. /\ L \in Depths /\ Depths' = Depths /\ stack'[L] = t
      /\ \A n \in Depths : At(n, "process") <=> n = L
      /\ \A n \in Depths : At(n, "process")' <=> n = L
      /\ \A c \in Blocks, i \in Nat : Handled(c, i) <=> c = b /\ i < k
      /\ \A c \in Blocks, i \in Nat : Handled(c, i)' <=> c = b /\ i <= k
  <2>1. L = Len(stack) /\ b = Innermost.block /\ k = Innermost.index + 1
    BY <1>2
  <2>2. /\ L \in Depths /\ Depths' = Depths /\ stack'[L] = t
        /\ \A n \in Depths : At(n, "process") <=> n = L
        /\ \A n \in Depths : At(n, "process")' <=> n = L
    BY <2>1, GoesOnFacts
  <2>3. /\ \A c \in Blocks, i \in Nat : Handled(c, i) <=> c = b /\ i < k
        /\ \A c \in Blocks, i \in Nat : Handled(c, i)' <=> c = b /\ i <= k
    BY <2>1, GoesOnHandled
  <2> QED BY <2>2, <2>3
<1>4. /\ t.block = Innermost.block
      /\ \A j \in 1 .. Len(Innermost.next) :
           j \in 1 .. Len(t.next) /\ t.next[j] = Innermost.next[j]
  <2>1. CASE t.next = Innermost.next
    BY <2>1 DEF ProcessGoesOn
  <2>2. CASE \E e \in EntrySet : t.next = Append(Innermost.next, e)
    BY <1>2, <2>2 DEF ProcessGoesOn
  <2> QED BY <2>1, <2>2 DEF ProcessGoesOn
<1>5. \A i \in Nat \ {0} : HeldAt(g, i) /\ ~Handled(Home(g), i) => ~Handled(Home(g), i)'
  <2>1. SUFFICES ASSUME NEW i \in Nat \ {0}, HeldAt(g, i), ~Handled(Home(g), i),
                        Handled(Home(g), i)'
                 PROVE  FALSE
    OBVIOUS
  <2>2. Home(g) = b /\ i = k
    BY <1>3, <2>1, HomeFacts
  <2> QED BY <1>2, <2>1, <2>2 DEF HeldAt
<1>6. ASSUME NEW kind \in Kinds, NEW i \in Nat, ArmedAt(g, kind, i)
      PROVE  ArmedAt(g, kind, i)'
  <2>1. CASE MovedAt(g, kind, i)
    <3>1. /\ Innermost.block = Home(g) /\ i \in 1 .. Len(Innermost.next)
          /\ Innermost.next[i] = Entry(g, kind, "armed")
      BY <1>2, <1>3, <2>1 DEF MovedAt
    <3>2. MovedAt(g, kind, i)'
      BY <1>3, <1>4, <3>1 DEF MovedAt
    <3> QED BY <3>2 DEF ArmedAt
  <2>2. CASE ~MovedAt(g, kind, i)
    <3>1. /\ i \in 1 .. Len(entries[Home(g)]) /\ entries[Home(g)][i] = Entry(g, kind, "armed")
          /\ ~Handled(Home(g), i)
      BY <1>6, <2>2 DEF ArmedAt
    <3>2. HeldAt(g, i) /\ i # 0
      BY <3>1, MadeEntry DEF HeldAt
    <3> QED BY <1>5, <3>1, <3>2 DEF ArmedAt
  <2> QED BY <2>1, <2>2
<1>7. Waiting(g) => Waiting(g)'
  <2>1. \A i \in 1 .. Len(entries[Home(g)]) : i \in Nat \ {0}
    OBVIOUS
  <2> QED BY <1>5, <2>1 DEF Waiting, HeldAt
<1>8. \A kind : Moved(g, kind) => Moved(g, kind)'
  <2>1. SUFFICES ASSUME NEW kind, NEW n \in Depths, At(n, "process"),
                        NEW j \in 1 .. Len(stack[n].next), stack[n].next[j].field = g,
                        stack[n].next[j].kind = kind
                 PROVE  Moved(g, kind)'
    BY DEF Moved
  <2>2. n = L /\ stack[n] = Innermost
    BY <1>2, <1>3, <2>1
  <2>3. j \in 1 .. Len(t.next) /\ t.next[j] = Innermost.next[j]
    BY <1>4, <2>1, <2>2
  <2> QED BY <1>3, <2>1, <2>2, <2>3 DEF Moved
<1> QED BY <1>6, <1>7, <1>8 DEF ArmedStays

\* A frame that has dealt with one more entry has lost nothing.
LEMMA PlacesOn ==
  ASSUME Answering, Answering', PlacesInv, Running("process"), EntriesLeft, ret' = None,
         NEW f \in Fields, f = FieldOf(Len(stack)), NEW t \in Calls, ProcessGoesOn(t, f),
         UNCHANGED <<entries, life>>, OthersPoint(f),
         \A g \in Fields : g # f => values'[g] = values[g],
         values'[f] = "unset" => values[f] = "unset" /\ t.next # Innermost.next,
         ctx'[f] # 0 =>
           MovedAt(f, "promise", ctx[f])' /\ \A c \in Blocks : IsChild(c, f) => life[c] = "none",
         \A c \in Blocks : IsChild(c, f) /\ life[c] = "suspended" =>
           MovedAt(f, "block", link[c])',
         \A b \in Blocks : b \in Range(ready') => b \in Range(ready) \/ life[b] = "suspended"
  PROVE  PlacesInv'
<1>1. /\ TypesInv /\ TypesInv' /\ CallsInv /\ FieldsInv
  BY DEF Answering
<1>2. PICK L \in Nat, b \in Blocks, k \in Nat \ {0} :
        /\ L = Len(stack) /\ b = Innermost.block /\ k = Innermost.index + 1
        /\ Innermost = stack[L] /\ At(L, "process") /\ L \in Depths
        /\ Innermost.next \in Seq(EntrySet)
  <2>1. Innermost.block \in Blocks /\ Innermost.index + 1 \in Nat \ {0}
    BY <1>1, HereProcess
  <2> QED BY <1>1, <2>1, Here, HereProcess
<1>3. /\ Depths' = Depths /\ stack'[L] = t /\ t.block = b /\ t.index = k
      /\ \A n \in Depths : n # L => stack'[n] = stack[n]
      /\ \A n \in Depths : At(n, "process") <=> n = L
      /\ \A n \in Depths : At(n, "process")' <=> n = L
  BY <1>2, GoesOnFacts
<1>4. \A g \in Fields : g # f =>
        /\ ArmedStays(g)
        /\ Waiting(g) => Waiting(g)'
        /\ \A kind : Moved(g, kind) => Moved(g, kind)'
  BY GoesOnArmed
<1>5. NothingLost'
  <2>1. ASSUME NEW g \in Fields, Coming(g)
        PROVE  Coming(g)'
    <3>1. PICK n \in Depths : At(n, "block") /\ \E i \in 1 .. Len(Ops[stack[n].block]) :
                                Ops[stack[n].block][i] = g /\ i > stack[n].index
      BY <2>1 DEF Coming
    <3>2. n \in Depths' /\ stack'[n] = stack[n]
      BY <1>2, <1>3, <3>1 DEF At
    <3> QED BY <3>1, <3>2 DEF Coming, At
  <2>2. ASSUME NEW g \in Fields, g # f, life[Home(g)] # "none", values'[g] = "unset"
        PROVE  Coming(g)' \/ Waiting(g)' \/ \E kind \in Kinds : Moved(g, kind)'
    <3>1. values[g] = "unset"
      BY <2>2
    <3>2. Coming(g) \/ Waiting(g) \/ \E kind \in Kinds : Moved(g, kind)
      BY <2>2, <3>1 DEF PlacesInv, NothingLost
    <3> QED BY <1>4, <2>1, <2>2, <3>2
  <2>3. ASSUME values'[f] = "unset"
        PROVE  \E kind \in Kinds : Moved(f, kind)'
    <3>1. PICK e \in EntrySet : t.next = Append(Innermost.next, e) /\ e.field = f
      BY <2>3 DEF ProcessGoesOn
    <3>2. /\ Len(Innermost.next) + 1 \in 1 .. Len(t.next)
          /\ t.next[Len(Innermost.next) + 1] = e
      BY <1>2, <3>1
    <3>3. Moved(f, e.kind)'
      BY <1>2, <1>3, <3>1, <3>2 DEF Moved
    <3> QED BY <3>1, <3>3, EntryFacts
  <2> QED BY <2>2, <2>3 DEF NothingLost
<1>6. CallbacksHeld'
  <2>1. ASSUME NEW g \in Fields, g # f, ctx'[g] # 0
        PROVE  ArmedAt(g, "promise", ctx[g])' /\ \A c \in Blocks : IsChild(c, g) => life[c] = "none"
    <3>1. PICK i \in Nat : i = ctx[g] /\ i = ctx'[g] /\ i # 0
      BY <1>1, <2>1 DEF TypesInv, OthersPoint
    <3>2. ArmedAt(g, "promise", i) /\ \A c \in Blocks : IsChild(c, g) => life[c] = "none"
      BY <3>1 DEF PlacesInv, CallbacksHeld
    <3>3. ArmedAt(g, "promise", i)'
      BY <1>4, <2>1, <3>2 DEF ArmedStays, Kinds
    <3> QED BY <3>1, <3>2, <3>3
  <2>2. \A g \in Fields : ctx'[g] # 0 =>
          ArmedAt(g, "promise", ctx[g])' /\ \A c \in Blocks : IsChild(c, g) => life[c] = "none"
    BY <2>1 DEF ArmedAt
  <2> QED BY <2>2 DEF CallbacksHeld, IsChild
<1>7. LinksHeld'
  <2>1. ASSUME NEW c \in Blocks, NEW g \in Fields, IsChild(c, g), life[c] = "suspended", g # f
        PROVE  ArmedAt(g, "block", link[c])'
    <3>1. ~IsChild(c, f)
      BY <2>1, OneChild
    <3>2. ret # Frame(c)
      <4>1. SUFFICES ASSUME ret = Frame(c)
                     PROVE  FALSE
        OBVIOUS
      <4>2. ret # None /\ ret.kind = "frame" /\ ret.of = c
        BY <4>1, ResultFacts
      <4>3. Executes(Len(stack), c)
        BY <1>1, <4>2 DEF CallsInv, ReturnOK
      <4> QED BY <3>1, <4>3, HereExecutes
    <3>3. PICK i \in Nat : i = link[c] /\ i = link'[c]
      BY <1>1, <3>1 DEF TypesInv, OthersPoint
    <3>4. ArmedAt(g, "block", i)
      BY <2>1, <3>2, <3>3 DEF PlacesInv, LinksHeld
    <3>5. ArmedAt(g, "block", i)'
      BY <1>4, <2>1, <3>4 DEF ArmedStays, Kinds
    <3> QED BY <3>3, <3>5
  <2>2. \A c \in Blocks, g \in Fields : IsChild(c, g) /\ life[c] = "suspended" =>
          ArmedAt(g, "block", link[c])'
    BY <2>1 DEF ArmedAt
  <2> QED BY <2>2 DEF LinksHeld, IsChild
<1>8. ReadyDone'
  <2>1. \A c \in Blocks, i \in Nat : Handled(c, i) => Handled(c, i)'
    BY <1>2, GoesOnHandled
  <2>2. ASSUME NEW j \in 1 .. Len(t.next), t.next[j].kind = "block"
        PROVE  t.next[j].state = "armed"
    <3>1. \A i \in 1 .. Len(Innermost.next) :
            Innermost.next[i].kind = "block" => Innermost.next[i].state = "armed"
      BY <1>2 DEF PlacesInv, ReadyDone
    <3>2. CASE t.next = Innermost.next
      BY <2>2, <3>1, <3>2
    <3>3. CASE t.next # Innermost.next
      <4>1. PICK e \in EntrySet : /\ t.next = Append(Innermost.next, e)
                                  /\ e.kind = "block" => e.state = "armed"
        BY <3>3 DEF ProcessGoesOn
      <4>2. t.next[j] = e \/ (j \in 1 .. Len(Innermost.next) /\ t.next[j] = Innermost.next[j])
        BY <1>2, <4>1
      <4> QED BY <2>2, <3>1, <4>1, <4>2
    <3> QED BY <3>2, <3>3
  <2>3. \A b1 \in Blocks : \A i \in 1 .. Len(entries[b1]) : i \in Nat
    OBVIOUS
  <2>4. ASSUME NEW n \in Depths', At(n, "process")', NEW j \in 1 .. Len(stack'[n].next),
               stack'[n].next[j].kind = "block"
        PROVE  stack'[n].next[j].state = "armed"
    BY <1>3, <2>2, <2>4
  <2>5. ASSUME NEW c \in Blocks, NEW i \in 1 .. Len(entries[c]),
               entries[c][i].kind = "block", entries[c][i].state = "ready", ~Handled(c, i)'
        PROVE  life[Children[entries[c][i].field][1]] = "done"
    BY <2>1, <2>3, <2>5 DEF PlacesInv, ReadyDone
  <2> QED BY <2>4, <2>5 DEF ReadyDone
<1>9. QueueSuspended' /\ RootDrains'
  <2>1. Becomes(t) /\ t.at = "process" /\ SameCall(t)
    BY <1>1, Here DEF ProcessGoesOn, SameCall
  <2>2. PICK T : T = {t}
    OBVIOUS
  <2>3. Moves(T, {})
    BY <1>1, <2>1, <2>2, BecomesMoves
  <2>4. life[t.block] = "suspended" /\ t.block \in Blocks
    BY <1>2, <1>3 DEF PlacesInv, QueueSuspended
  <2> QED BY <1>1, <2>1, <2>2, <2>3, <2>4, QueueKeeps DEF PlacesInv
<1> QED BY <1>5, <1>6, <1>7, <1>8, <1>9 DEF PlacesInv

\* A loop that has consumed a field goes on, and nothing else moves.
LEMMA ConsumedPlaces ==
  ASSUME Answering, Answering', PlacesInv, Running("block") \/ Running("process"),
         Within(Len(stack)), ret' = None, NEW f \in Fields, f = FieldOf(Len(stack)),
         \A g \in Fields : g # f => values'[g] = values[g], values'[f] # "unset",
         stack' = Advance, UNCHANGED <<entries, link, ctx, life, ready>>,
         \A c \in Blocks : ret # Frame(c),
         Running("process") =>
           ctx[f] = 0 /\ \A c \in Blocks : IsChild(c, f) => life[c] # "suspended"
  PROVE  PlacesInv'
<1>1. /\ TypesInv /\ TypesInv' /\ CallsInv /\ FieldsInv
  BY DEF Answering
<1>2. Becomes(Advanced(Innermost))
  BY <1>1, AdvanceBecomes
<1>3. CASE Running("process")
  <2>1. PICK t \in Calls : t = Advanced(Innermost) /\ ProcessGoesOn(t, f)
    <3>1. /\ Innermost.at = "process" /\ Innermost.block \in Blocks /\ Innermost.index + 1 \in Nat
          /\ Innermost.next \in Seq(EntrySet)
      BY <1>1, <1>3, Here, HereProcess
    <3>2. Advanced(Innermost) = ProcessLoop(Innermost.block, Innermost.index + 1, Innermost.next)
      BY <3>1 DEF Advanced
    <3>3. Advanced(Innermost) \in Calls
      BY <3>1, <3>2, MadeCalls
    <3> QED BY <1>2, <3>2, <3>3, MadeProcess DEF ProcessGoesOn
  <2>2. EntriesLeft
    BY <1>1, <1>3, HereProcess
  <2>3. OthersPoint(f)
    BY <1>1 DEF OthersPoint, TypesInv, Answering
  <2>4. owned' = owned
    BY NoLists DEF Answering, TypesInv
  <2> QED BY <1>3, <2>1, <2>2, <2>3, PlacesOn
<1>4. CASE Running("block")
  <2>1. PICK t \in Calls : /\ t = Advanced(Innermost) /\ t.at = "block"
                           /\ t.block = Innermost.block /\ t.index = Innermost.index + 1
                           /\ SameCall(t)
    <3>1. Innermost.at = "block" /\ Innermost.block \in Blocks /\ Innermost.index + 1 \in Nat
      BY <1>1, <1>4, Here, HereBlock
    <3>2. Advanced(Innermost) = OpLoop(Innermost.block, Innermost.index + 1)
      BY <3>1 DEF Advanced
    <3> QED BY <3>1, <3>2, MadeCalls, MadeBlock DEF SameCall
  <2>2. PICK T : T = {t}
    OBVIOUS
  <2>3. Moves(T, {})
    BY <1>1, <1>2, <2>1, <2>2, BecomesMoves
  <2>4. ~Running("process") /\ Len(stack) \in Depths'
    BY <1>1, <1>2, <1>4, Here DEF Becomes, Depths
  <2>5. ProcessesStay
    BY <1>1, <2>1, <2>2, <2>3, <2>4, MovesStay
  <2>6. \A g \in Fields : g # f => (Coming(g) => Coming(g)')
    BY <1>1, <1>4, <2>1, <2>2, <2>3, <2>4, ComingGoes
  <2>7. t.index <= Len(Ops[t.block])
    BY <1>1, <1>4, <2>1, HereBlock
  <2>8. \A g \in Fields : values'[g] = "unset" => values[g] = "unset" /\ (Coming(g) => Coming(g)')
    BY <2>6
  <2> QED BY <1>1, <2>1, <2>2, <2>3, <2>5, <2>7, <2>8, PlacesCalm
<1> QED BY <1>3, <1>4

\* A field whose block is done is null if that block was nulled.
LEMMA OutcomeAnswers ==
  ASSUME Answering, Answering', AnswersInv, Running("block") \/ Running("process"),
         Within(Len(stack)), ret' = None, NEW f \in Fields, f = FieldOf(Len(stack)),
         NEW c \in Blocks, IsChild(c, f), life[c] = "done",
         Consume(Innermost.block, f, nulled[c], TRUE, FALSE), stack' = Advance,
         UNCHANGED <<answer, entries, link, ctx, life, ready, response>>,
         \A d \in Blocks : ret # Frame(d)
  PROVE  AnswersInv'
<1>1. /\ TypesInv /\ TypesInv' /\ CallsInv /\ FieldsInv /\ PlacesInv /\ ValuesInv /\ Lists = {}
  BY DEF Answering, AnswersInv
<1>2. \A d \in Blocks : IsChild(d, f) => d = c
  BY DEF IsChild
<1>3. answer[f] = "value"
  BY <1>1 DEF ValuesInv, Asked
<1>4. PICK null : null = nulled[c] /\ (null <=> IsNull[f])
  <2>1. nulled[c] <=> IsNull[c]
    BY DoneIsWritten
  <2> QED BY <1>1, <1>2, <1>3, <2>1, NullFacts
<1>5. PICK raised \in BOOLEAN : raised = FALSE
  OBVIOUS
<1>6. PICK carries \in BOOLEAN : carries = TRUE
  OBVIOUS
<1>7. Consume(Innermost.block, f, null, carries, raised)
  BY <1>4, <1>5, <1>6
<1>8. ValuesInv'
  <2>1. \A d \in Blocks : IsChild(d, f) /\ answer[f] = "value" => life[d] = "done"
    BY <1>2
  <2>2. (raised <=> answer[f] = "error") /\ (~carries /\ null <=> answer[f] = "null")
    BY <1>3, <1>5, <1>6
  <2> QED BY <1>1, <1>4, <1>7, <2>1, <2>2, ConsumeValues
<1>9. values'[f] # "unset" /\ \A g \in Fields : g # f => values'[g] = values[g]
  <2>1. Innermost.block \in Blocks
    BY <1>1, HereField
  <2> QED BY <1>1, <1>7, <2>1, ConsumeFacts
<1>10. ctx[f] = 0
  BY <1>1 DEF PlacesInv, CallbacksHeld
<1>11. PlacesInv'
  BY <1>1, <1>2, <1>9, <1>10, ConsumedPlaces
<1> QED BY <1>8, <1>11 DEF AnswersInv

\* A field that resolved to an error, to null or to a leaf is consumed at once.
LEMMA LeafAnswers ==
  ASSUME Answering, Answering', AnswersInv, Running("block") \/ Running("process"),
         Within(Len(stack)), ret = None, ret' = None, NEW f \in Fields, f = FieldOf(Len(stack)),
         Running("process") => CurrentEntry.kind = "promise" /\ CurrentEntry.state = "ready",
         answer[f] = "value" => Children[f] = <<>>,
         Consume(Innermost.block, f, answer[f] # "value", answer[f] = "error",
                 answer[f] = "error"),
         stack' = Advance, UNCHANGED <<answer, entries, link, ctx, life, ready, response>>
  PROVE  AnswersInv'
<1>1. /\ TypesInv /\ TypesInv' /\ CallsInv /\ FieldsInv /\ PlacesInv /\ ValuesInv /\ Lists = {}
  BY DEF Answering, AnswersInv
<1>2. answer[f] = "value" => \A c \in Blocks : ~IsChild(c, f)
  BY DEF IsChild
<1>3. PICK null \in BOOLEAN : null = (answer[f] # "value")
  OBVIOUS
<1>4. PICK raised \in BOOLEAN : raised = (answer[f] = "error")
  OBVIOUS
<1>5. PICK carries \in BOOLEAN : carries = (answer[f] = "error")
  OBVIOUS
<1>6. Consume(Innermost.block, f, null, carries, raised)
  BY <1>3, <1>4, <1>5
<1>7. null <=> IsNull[f]
  BY <1>1, <1>2, <1>3, NullFacts
<1>8. ~carries /\ null <=> answer[f] = "null"
  <2>1. answer[f] \in {"value", "null", "error"}
    <3>1. f \in Positions
      BY DEF Positions
    <3> QED BY <1>1, <3>1 DEF TypesInv, AnswerSet
  <2> QED BY <1>3, <1>5, <2>1
<1>9. ValuesInv'
  BY <1>1, <1>2, <1>4, <1>6, <1>7, <1>8, ConsumeValues
<1>10. values'[f] # "unset" /\ \A g \in Fields : g # f => values'[g] = values[g]
  <2>1. Innermost.block \in Blocks
    BY <1>1, HereField
  <2> QED BY <1>1, <1>6, <2>1, ConsumeFacts
<1>11. ctx[f] = 0
  <2>1. SUFFICES ASSUME ctx[f] # 0
                 PROVE  FALSE
    OBVIOUS
  <2>2. PICK i \in Nat : i = ctx[f] /\ ArmedAt(f, "promise", i)
    BY <1>1, <2>1 DEF PlacesInv, CallbacksHeld, TypesInv
  <2>3. "promise" \in Kinds
    BY DEF Kinds
  <2> QED BY <2>2, <2>3, HereArmed, MadeEntry
<1>12. \A c \in Blocks : IsChild(c, f) => life[c] # "suspended"
  BY HereUnstarted
<1>13. \A d \in Blocks : ret # Frame(d)
  BY ResultFacts
<1>14. PlacesInv'
  BY <1>1, <1>10, <1>11, <1>12, <1>13, ConsumedPlaces
<1> QED BY <1>9, <1>14 DEF AnswersInv

\* Completing a field with a value, null or error writes what the reference
\* computes for it.
LEMMA CompletionAnswers ==
  ASSUME Answering, Answering', AnswersInv, Running("block") \/ Running("process"),
         Within(Len(stack)), ret = None, ret' = None, NEW f \in Fields, f = FieldOf(Len(stack)),
         Running("process") => CurrentEntry.kind = "promise" /\ CurrentEntry.state = "ready",
         CompleteField(Innermost.block, f, answer[f]),
         UNCHANGED <<answer, entries, link, ctx, ready, response>>
  PROVE  AnswersInv'
<1>1. Lists = {}
  BY DEF Answering
<1>2. CASE answer[f] = "value" /\ Children[f] # <<>>
  <2>1. PICK c \in Blocks : c = Children[f][1] /\ IsChild(c, f)
    BY <1>1, <1>2, ChildFacts DEF IsChild
  <2>2. /\ stack' = Push(OpLoop(c, 0)) /\ life' = [life EXCEPT ![c] = "running"]
        /\ UNCHANGED <<values, nulled, errors>>
    BY <1>1, <1>2, <2>1 DEF CompleteField, tree
  <2> QED BY <1>2, <2>1, <2>2, StartAnswers
<1>3. CASE ~(answer[f] = "value" /\ Children[f] # <<>>)
  <2>1. /\ Consume(Innermost.block, f, answer[f] # "value", answer[f] = "error",
                   answer[f] = "error")
        /\ stack' = Advance /\ life' = life
    BY <1>1, <1>3 DEF CompleteField
  <2> QED BY <1>3, <2>1, LeafAnswers
<1> QED BY <1>2, <1>3

\* The agreement with the reference is kept by a resolver that returns a
\* value, a null or dies.
LEMMA ResolverReturnsValueAnswers ==
  ASSUME Answering, Answering', AnswersInv, NEW b \in Blocks, ResolverReturnsValue(b)
  PROVE  AnswersInv'
<1>1. /\ ret = None /\ ret' = None /\ Running("block") /\ Innermost.block = b
      /\ Innermost.index < Len(Ops[b])
      /\ CompleteField(b, CurrentField, answer[CurrentField])
      /\ UNCHANGED <<answer, entries, link, ctx, ready, response>>
  BY DEF ResolverReturnsValue, InOpLoop
<1>2. TypesInv /\ CallsInv
  BY DEF Answering
<1>3. Within(Len(stack)) /\ CurrentField \in Fields /\ CurrentField = FieldOf(Len(stack))
  BY <1>1, <1>2, HereBlock
<1>4. ~Running("process")
  BY <1>1, <1>2, Here
<1>5. PICK f \in Fields : f = CurrentField
  BY <1>3
<1> QED BY <1>1, <1>3, <1>4, <1>5, CompletionAnswers

\* The agreement with the reference is kept by process_frame that completes a
\* ready entry with a value.
LEMMA ProcessConsumesAnswers ==
  ASSUME Answering, Answering', AnswersInv, NEW b \in Blocks, ProcessConsumes(b)
  PROVE  AnswersInv'
<1>1. /\ ret = None /\ ret' = None /\ Running("process") /\ Innermost.block = b /\ EntriesLeft
      /\ UNCHANGED <<answer, entries, link, ctx, ready, response>>
  BY DEF ProcessConsumes, InProcessLoop
<1>2. TypesInv /\ CallsInv /\ FieldsInv /\ Lists = {}
  BY DEF Answering
<1>3. PICK f \in Fields, e \in EntrySet, k \in Nat \ {0} :
        /\ f = FieldOf(Len(stack)) /\ e = CurrentEntry /\ e.field = f
        /\ Within(Len(stack)) /\ EntryOK(e) /\ ~Handled(b, k)
        /\ k \in 1 .. Len(entries[b]) /\ e = entries[b][k]
  <2>1. /\ Within(Len(stack)) /\ CurrentEntry \in EntrySet
        /\ CurrentEntry.field = FieldOf(Len(stack))
        /\ Innermost.index + 1 \in 1 .. Len(entries[b])
        /\ CurrentEntry = entries[b][Innermost.index + 1]
    BY <1>1, <1>2, HereProcess DEF CurrentEntry
  <2>2. EntryOK(CurrentEntry)
    BY <1>1, <1>2, <2>1 DEF FieldsInv, ArraysOK, ArrayOK
  <2>3. Innermost.index + 1 \in Nat \ {0} /\ ~Handled(b, Innermost.index + 1)
    BY <1>1, <1>2, <2>1, HereField
  <2> QED BY <2>1, <2>2, <2>3, EntryFacts
<1>4. CASE e.kind = "promise" /\ e.state = "ready" /\ CompleteField(b, f, answer[f])
  BY <1>1, <1>3, <1>4, CompletionAnswers
<1>5. CASE /\ e.kind = "block" /\ e.state = "ready"
           /\ Consume(b, f, nulled[Children[f][1]], TRUE, FALSE)
           /\ stack' = Advance /\ life' = life
  <2>1. PICK c \in Blocks : c = Children[f][1] /\ IsChild(c, f)
    BY <1>2, <1>3, <1>5, ChildFacts DEF IsChild, EntryOK
  <2>2. life[c] = "done"
    BY <1>3, <1>5, <2>1 DEF AnswersInv, PlacesInv, ReadyDone
  <2>3. Consume(Innermost.block, f, nulled[c], TRUE, FALSE)
    BY <1>1, <1>5, <2>1
  <2>4. \A d \in Blocks : ret # Frame(d)
    BY <1>1, ResultFacts
  <2> QED BY <1>1, <1>3, <1>5, <2>1, <2>2, <2>3, <2>4, OutcomeAnswers
<1>6. e.kind # "list"
  BY <1>2, <1>3 DEF EntryOK
<1>7. \/ /\ e.kind = "promise" /\ e.state = "ready"
         /\ CompleteField(b, f, answer[f])
      \/ /\ e.kind = "block" /\ e.state = "ready"
         /\ Consume(b, f, nulled[Children[f][1]], TRUE, FALSE)
         /\ stack' = Advance
         /\ life' = life
  BY <1>3, <1>6 DEF ProcessConsumes
<1> QED BY <1>4, <1>5, <1>7


\* A step that neither writes nor arms anything, ...
LEMMA CalmAnswers ==
  ASSUME Answering, Answering', AnswersInv, NEW T, NEW U, Moves(T, U),
         ret = None, ret' = None, ~Running("block") \/ ~Within(Len(stack)) \/ T = {},
         \A t \in T : t.at = "settle",
         \A u \in U : /\ u.at \notin {"block", "resolve"}
                      /\ u.at = "process" => /\ u.block \in Blocks /\ life[u.block] = "suspended"
                                             /\ u.index = 0 /\ u.next = <<>>,
         Running("process") => T = {} /\ Len(stack) \in Depths',
         Running("block") => Len(stack) \in Depths' /\ T = {},
         UNCHANGED <<answer, entries, ctx, link, life, values, nulled, errors, response>>,
         \A b \in Blocks : b \in Range(ready') => b \in Range(ready) \/ life[b] = "suspended"
  PROVE  AnswersInv'
<1>1. TypesInv /\ TypesInv' /\ CallsInv /\ PlacesInv /\ ValuesInv
  BY DEF Answering, AnswersInv
<1>2. ProcessesStay
  BY <1>1, MovesStay
<1>3. \A f \in Fields : Coming(f) => Coming(f)'
  BY <1>1, ComingGoes
<1>4. \A c \in Blocks : ret # Frame(c)
  BY ResultFacts
<1>5. PlacesInv'
  BY <1>1, <1>2, <1>3, <1>4, PlacesCalm
<1>6. ValuesInv'
  BY <1>1, QuietValues
<1> QED BY <1>5, <1>6 DEF AnswersInv

\* The agreement with the reference is kept by the return of a settled
\* promise when its callbacks have run.
LEMMA SettleReturnsAnswers ==
  ASSUME Answering, Answering', AnswersInv, SettleReturns
  PROVE  AnswersInv'
<1>1. /\ ret = None /\ Running("settle") /\ stack' = Pop /\ ret' = ret
      /\ UNCHANGED <<answer, life, entries, ctx, link, ready, values, nulled, errors, response>>
  BY DEF SettleReturns, InSettleLoop, lists, frames, tree
<1>2. TypesInv /\ TypesInv' /\ CallsInv
  BY DEF Answering
<1>3. stack # <<>> /\ Innermost.at = "settle" /\ ~Running("process") /\ ~Running("block")
  BY <1>1, <1>2, Here
<1>4. Moves({}, {})
  BY <1>1, <1>2, <1>3, PopFacts, ReturnsQuietly
<1> QED BY <1>1, <1>3, <1>4, CalmAnswers

\* The agreement with the reference is kept by drain_scheduler that takes the
\* last frame of the queue, or finds it empty.
LEMMA DrainNextAnswers ==
  ASSUME Answering, Answering', AnswersInv, DrainNext
  PROVE  AnswersInv'
<1>1. TypesInv /\ TypesInv' /\ CallsInv /\ QueueSuspended
  BY DEF Answering, AnswersInv, PlacesInv
<1>2. /\ Running("drain") /\ ret' = ret
      /\ UNCHANGED <<answer, life, entries, ctx, link, values, nulled, errors, response>>
  BY DEF DrainNext, lists, frames, tree
<1>3. /\ ret = None /\ stack # <<>> /\ Innermost.at = "drain" /\ ~Running("process")
      /\ ~Running("block")
  BY <1>1, <1>2, Here, OneProcess
<1>4. ready \in Seq(Blocks \cup {None})
  BY <1>1 DEF TypesInv
<1>5. CASE ready = <<>>
  <2>1. stack' = Pop /\ ready' = ready
    BY <1>5 DEF DrainNext
  <2>2. Moves({}, {})
    BY <1>1, <1>3, <2>1, PopFacts, ReturnsQuietly
  <2> QED BY <1>2, <1>3, <2>1, <2>2, CalmAnswers
<1>6. CASE ready # <<>>
  <2>1. PICK n \in Nat : n = Len(ready) /\ n # 0
    BY <1>4, <1>6
  <2>2. /\ ready' = SubSeq(ready, 1, n - 1)
        /\ stack' = IF ready[n] = None THEN stack ELSE Push(ProcessLoop(ready[n], 0, <<>>))
    BY <1>6, <2>1 DEF DrainNext
  <2>3. \A c : c \in Range(ready') => c \in Range(ready)
    <3>1. /\ n - 1 \in 0 .. Len(ready)
          /\ \A i \in 1 .. n - 1 : i \in 1 .. Len(ready)
      BY <2>1
    <3>2. Len(ready') = n - 1 /\ \A i \in 1 .. n - 1 : ready'[i] = ready[i]
      BY <1>4, <2>1, <2>2, <3>1
    <3>3. ready' \in Seq(Blocks \cup {None})
      BY <1>1 DEF TypesInv
    <3>4. SUFFICES ASSUME NEW c, c \in Range(ready')
                   PROVE  c \in Range(ready)
      OBVIOUS
    <3>5. PICK i \in 1 .. n - 1 : c = ready'[i]
      BY <3>2, <3>3, <3>4 DEF Range
    <3>6. i \in 1 .. Len(ready) /\ c = ready[i]
      BY <3>1, <3>2, <3>5
    <3> QED BY <1>4, <3>6 DEF Range
  <2>4. CASE ready[n] = None
    <3>1. Moves({}, {})
      BY <1>1, <1>2, <2>2, <2>4, StaysMoves
    <3> QED BY <1>2, <1>3, <2>3, <3>1, CalmAnswers
  <2>5. CASE ready[n] # None
    <3>1. PICK b \in Blocks : b = ready[n] /\ b \in Range(ready)
      <4>1. n \in 1 .. Len(ready)
        BY <2>1
      <4>2. ready[n] \in Blocks \cup {None} /\ ready[n] \in Range(ready)
        BY <1>4, <4>1 DEF Range
      <4> QED BY <2>5, <4>2
    <3>2. PICK u \in Calls : u = ProcessLoop(b, 0, <<>>)
      BY StartedProcess
    <3>3. u.at = "process" /\ u.block = b /\ u.index = 0 /\ u.next = <<>>
      BY <3>2, MadeProcess
    <3>4. Enters(u)
      BY <1>1, <2>2, <2>5, <3>1, <3>2, PushFacts
    <3>5. Moves({}, {u})
      BY <1>1, <1>3, <3>4, EntersMoves
    <3>6. life[b] = "suspended"
      BY <1>1, <3>1 DEF QueueSuspended
    <3> QED BY <1>2, <1>3, <2>3, <3>3, <3>5, <3>6, CalmAnswers
  <2> QED BY <2>4, <2>5
<1> QED BY <1>5, <1>6

\* The agreement with the reference is kept by a promise that settles while
\* user code runs.
LEMMA SettlePromiseAnswers ==
  ASSUME Answering, Answering', AnswersInv, NEW p \in Promises, SettlePromise(p)
  PROVE  AnswersInv'
<1>1. /\ stack = <<>> \/ (ret = None /\ Running("block"))
      /\ UNCHANGED <<answer, entries, life, ctx, link, ready, ret, values, nulled, errors, response>>
  BY DEF SettlePromise, InOpLoop, frames, lists, tree
<1>2. TypesInv /\ TypesInv' /\ CallsInv
  BY DEF Answering
<1>3. ret = None
  BY <1>1, <1>2, OneProcess
<1>4. PICK w \in SUBSET Positions : w = subs[p]
  BY <1>2 DEF TypesInv
<1>5. PICK u \in Calls : u = SettleLoop(w, None) /\ u.at = "settle"
  BY MadeCalls, MadeSettle
<1>6. Enters(u)
  BY <1>2, <1>4, <1>5, PushFacts DEF SettlePromise
<1>7. Moves({}, {u})
  BY <1>2, <1>3, <1>6, EntersMoves
<1>8. ~Running("process")
  <2>1. CASE stack = <<>>
    BY <2>1 DEF Running
  <2>2. CASE Running("block")
    BY <1>2, <2>2, Here
  <2> QED BY <1>1, <2>1, <2>2
<1>9. Running("block") => Len(stack) \in Depths'
  BY <1>2, <1>6, InnermostFacts DEF Enters, Depths
<1> QED BY <1>1, <1>3, <1>5, <1>7, <1>8, <1>9, CalmAnswers

\* So does a step that changes nothing.
LEMMA SameAnswers ==
  ASSUME Answering, Answering', AnswersInv, UNCHANGED vars
  PROVE  AnswersInv'
<1>1. UNCHANGED <<answer, entries, ctx, link, life, values, nulled, errors, response, stack,
                  ret, ready>>
  BY DEF vars
<1>2. /\ NothingLost' /\ CallbacksHeld' /\ LinksHeld' /\ ReadyDone' /\ QueueSuspended'
      /\ RootDrains'
  <2>1. PlacesInv
    BY DEF AnswersInv
  <2>2. NothingLost'
    <3>1. NothingLost
      BY <2>1 DEF PlacesInv
    <3> QED BY <1>1, <3>1 DEF NothingLost, Coming, Waiting, Moved, At, Depths, HeldAt, Handled
  <2>3. CallbacksHeld'
    <3>1. CallbacksHeld
      BY <2>1 DEF PlacesInv
    <3> QED BY <1>1, <3>1 DEF CallbacksHeld, ArmedAt, MovedAt, At, Depths, Handled
  <2>4. LinksHeld'
    <3>1. LinksHeld
      BY <2>1 DEF PlacesInv
    <3> QED BY <1>1, <3>1 DEF LinksHeld, ArmedAt, MovedAt, At, Depths, Handled
  <2>5. ReadyDone'
    <3>1. ReadyDone
      BY <2>1 DEF PlacesInv
    <3> QED BY <1>1, <3>1 DEF ReadyDone, At, Depths, Handled
  <2>6. QueueSuspended' /\ RootDrains'
    <3>1. QueueSuspended /\ RootDrains
      BY <2>1 DEF PlacesInv
    <3> QED BY <1>1, <3>1 DEF QueueSuspended, RootDrains, At, Depths
  <2> QED BY <2>2, <2>3, <2>4, <2>5, <2>6
<1>3. ValuesInv'
  <2>1. ValuesInv
    BY DEF AnswersInv
  <2>2. Returned'
    BY <1>1, <2>1 DEF ValuesInv, Returned, Executes, At, Depths, FieldOf, IsChild
  <2>3. \/ ret' = None
        \/ ret'.kind # "outcome"
        \/ \E c \in Blocks : /\ Executes(Len(stack), c)' /\ life'[c] = "done"
                             /\ ret'.null = nulled[c]
    BY <1>1, <2>2 DEF Returned
  <2> QED BY <1>1, <2>1, <2>3, QuietValues DEF Answering
<1> QED BY <1>2, <1>3 DEF AnswersInv, PlacesInv


\* A callback that stores its value stores it in the entry of its field: in the array of
\* the frame, or in a slot the rebuilding has already dealt with.
LEMMA CallbackSlot ==
  ASSUME TypesInv, CallsInv, NEW f \in Fields, NEW b \in Blocks, b = Home(f),
         NEW k \in Nat, ArmedAt(f, "promise", k)
  PROVE  entries[b][k] = Entry(f, "promise", "armed") \/ Handled(b, k)
<1>1. SUFFICES ASSUME MovedAt(f, "promise", k)
               PROVE  Handled(b, k)
  BY DEF ArmedAt
<1>2. PICK n \in Depths : /\ At(n, "process") /\ stack[n].block = b
                          /\ k \in 1 .. Len(stack[n].next)
  BY <1>1 DEF MovedAt
<1>3. k <= stack[n].index
  <2>1. /\ stack[n].index \in Nat /\ stack[n].next \in Seq(EntrySet)
        /\ Len(stack[n].next) <= stack[n].index
    BY <1>2, CallingProcess DEF CallsInv, IndexOK
  <2> QED BY <1>2, <2>1
<1> QED BY <1>2, <1>3 DEF Handled, At, Depths

\* The agreement with the reference is kept by the callback of an entry,
\* which stores the value and enqueues its frame.
LEMMA SettleEntryAnswers ==
  ASSUME Answering, Answering', AnswersInv, NEW f \in Fields, SettleEntry(f)
  PROVE  AnswersInv'
<1>1. /\ TypesInv /\ TypesInv' /\ CallsInv /\ FieldsInv /\ LivesInv /\ PlacesInv /\ ValuesInv
      /\ \A b : ~Adopted(b)
  BY NoLists DEF Answering, AnswersInv
<1>2. /\ ret = None /\ ret' = ret /\ Running("settle") /\ f \in Innermost.waiting
      /\ UNCHANGED <<answer, life, link, values, nulled, errors, response>>
  BY DEF SettleEntry, InSettleLoop, tree
<1>3. stack # <<>> /\ Innermost.at = "settle" /\ ~Running("block") /\ ~Running("process")
  BY <1>1, <1>2, Here
<1>4. PICK b \in Blocks : b = Home(f)
  BY HomeFacts
<1>5. PICK t \in Calls : /\ AfterSubscriber(f, None) = Top(t) /\ SameCall(t)
                         /\ t.at = "settle"
  <2>1. None \in Items \cup {None} /\ TypesInv /\ CallsInv /\ Running("settle")
    BY <1>1, <1>2
  <2>2. \E t \in Calls : /\ t = SettleLoop(Innermost.waiting \ {f}, None)
                        /\ AfterSubscriber(f, None) = Top(t) /\ SameCall(t)
                        /\ t.at = "settle" /\ t.current = None
                        /\ t.waiting = Innermost.waiting \ {f}
                        /\ \A es : IndexFits(t, es)
    BY <2>1, AfterSubscriberFacts
  <2> QED BY <2>2
<1>6. CASE ctx[f] \notin 1 .. Len(entries[b])
  <2>1. stack' = Top(t) /\ entries' = entries /\ ctx' = ctx /\ ready' = ready
    BY <1>4, <1>5, <1>6 DEF SettleEntry
  <2>2. Becomes(t)
    BY <1>1, <1>3, <2>1, TopFacts
  <2>3. PICK T : T = {t}
    OBVIOUS
  <2>4. Moves(T, {})
    BY <1>1, <1>5, <2>2, <2>3, BecomesMoves
  <2> QED BY <1>2, <1>3, <1>5, <2>1, <2>3, <2>4, CalmAnswers
<1>7. CASE ctx[f] \in 1 .. Len(entries[b])
  <2>1. PICK k \in Nat \ {0} : k = ctx[f] /\ k \in 1 .. Len(entries[b])
    BY <1>7
  <2>2. /\ entries[b][k] = Entry(f, "promise", "armed") \/ Handled(b, k)
        /\ \A c \in Blocks : IsChild(c, f) => life[c] = "none"
    BY <1>1, <1>4, <2>1, CallbackSlot DEF PlacesInv, CallbacksHeld
  <2>3. PICK wanted \in BOOLEAN :
          wanted = ((IF unresolved[b] > 0 THEN unresolved[b] - 1 ELSE 0) = 0)
    OBVIOUS
  <2>4. /\ entries' = [entries EXCEPT ![b] = Stored(entries[b], k)]
        /\ ctx' = [ctx EXCEPT ![f] = 0]
        /\ EnqueueAndDrain(wanted, b, ready, Top(t))
    BY <1>4, <1>5, <1>7, <2>1, <2>3 DEF SettleEntry
  <2>5. /\ \A c \in Blocks : c # b => entries'[c] = entries[c]
        /\ Len(entries'[b]) = Len(entries[b])
        /\ \A j \in 1 .. Len(entries[b]) :
             /\ entries'[b][j].field = entries[b][j].field
             /\ entries'[b][j].kind = entries[b][j].kind
             /\ j # k => entries'[b][j] = entries[b][j]
    <3>1. TypesInv
      BY <1>1
    <3>2. k \in 1 .. Len(entries[b])
      BY <2>1
    <3>3. entries' = [entries EXCEPT ![b] = Stored(entries[b], k)]
      BY <2>4
    <3>4. OthersKeep(b, k)
      BY <3>1, <3>2, <3>3, StoredInKeeps
    <3> QED BY <3>4 DEF OthersKeep
  <2>6. /\ ctx'[f] = 0 /\ \A g \in Fields : g # f => ctx'[g] = ctx[g]
    BY <1>1, <2>4 DEF TypesInv
  <2>7. life[b] = "suspended"
    <3>1. Rests(b)
      BY <1>1, <1>4, <2>1 DEF LivesInv, WaitsRest
    <3>2. entries[b] # <<>>
      BY <2>1
    <3> QED BY <1>1, <3>1, <3>2 DEF Rests, LivesInv, DoneEmpty
  <2>8. /\ \A c : c \in Range(ready') => c \in Range(ready) \/ c = b
        /\ Becomes(t) \/ BecomesAndEnters(t, DrainLoop)
    <3>1. ready \in Seq(Blocks \cup {None})
      BY <1>1 DEF TypesInv
    <3> QED BY <1>1, <1>3, <2>4, <3>1, EnqueueAndDrainFacts
  <2>9. PICK U \in {{}, {DrainLoop}} : Moves({t}, U)
    <3>1. TypesInv /\ CallsInv /\ TypesInv' /\ SameCall(t) /\ Running("settle")
      BY <1>1, <1>2, <1>5
    <3> QED BY <1>5, <2>8, <3>1, GoesOnQuietly
  <2>10. \A u \in U : u.at = "drain"
    BY MadeOthers
  <2>11. ProcessesStay
    BY <1>1, <1>3, <1>5, <2>9, <2>10, MovesStay
  <2>12. \A g \in Fields : Coming(g) => Coming(g)'
    BY <1>1, <1>3, <2>9, ComingGoes
  <2>13. \A g \in Fields : g # f => ArmedStays(g)
    <3>1. SUFFICES ASSUME NEW g \in Fields, g # f
                   PROVE  ArmedStays(g)
      OBVIOUS
    <3>2. ASSUME NEW i \in 1 .. Len(entries[Home(g)]), entries[Home(g)][i].field = g,
                 ~Handled(Home(g), i)
          PROVE  i \in 1 .. Len(entries'[Home(g)]) /\ entries'[Home(g)][i] = entries[Home(g)][i]
      <4>1. Home(g) # b \/ i # k
        BY <2>2, <3>1, <3>2, MadeEntry
      <4> QED BY <2>5, <3>2, <4>1, HomeFacts
    <3> QED BY <1>1, <2>11, <3>2, ArmedKeeps
  <2>14. EntriesHold
    <3>1. \A c \in Blocks : Len(entries[c]) \in Nat
      BY <1>1 DEF TypesInv
    <3> QED BY <2>5, <3>1 DEF EntriesHold
  <2>15. ReadyStays
    <3>1. entries'[b][k].kind = "promise" \/ Handled(b, k)
      BY <2>1, <2>2, <2>5, MadeEntry
    <3>2. ASSUME NEW c \in Blocks, NEW i \in 1 .. Len(entries'[c])
          PROVE  \/ i \in 1 .. Len(entries[c]) /\ entries'[c][i] = entries[c][i]
                 \/ Handled(c, i)
                 \/ entries'[c][i].kind # "block"
      <4>1. CASE c = b /\ i = k
        BY <3>1, <4>1
      <4>2. CASE ~(c = b /\ i = k)
        BY <2>5, <3>2, <4>2
      <4> QED BY <4>1, <4>2
    <3> QED BY <1>2, <3>2 DEF ReadyStays
  <2>16. QueueSuspended' /\ RootDrains'
    <3>1. QueueSuspended /\ RootDrains
      BY <1>1 DEF PlacesInv
    <3> QED BY <1>1, <1>2, <1>5, <2>7, <2>8, <2>9, <2>10, <3>1, QueueKeeps
  <2>17. \A c \in Blocks : ret # Frame(c)
    BY <1>2, ResultFacts
  <2>18. PlacesInv'
    <3>1. \A g \in Fields : ctx'[g] # 0 =>
            /\ ctx'[g] = ctx[g] /\ ArmedStays(g)
            /\ \A c \in Blocks : IsChild(c, g) => life'[c] = "none"
      BY <1>1, <1>2, <2>6, <2>13 DEF PlacesInv, CallbacksHeld
    <3>2. \A g \in Fields : \A c \in Blocks : IsChild(c, g) /\ life'[c] = "suspended" =>
            life[c] = "suspended" /\ ret # Frame(c) /\ link'[c] = link[c] /\ ArmedStays(g)
      BY <1>2, <2>2, <2>13, <2>17
    <3> QED BY <1>1, <1>2, <2>11, <2>12, <2>14, <2>15, <2>16, <3>1, <3>2, PlacesGo
  <2>19. ValuesInv'
    BY <1>1, <1>2, QuietValues
  <2> QED BY <2>18, <2>19 DEF AnswersInv
<1> QED BY <1>6, <1>7


\* The array of a frame gets one more entry, at the index k.
Grows(b, e, k) ==
  /\ k = Len(entries[b]) + 1 /\ k \in Nat \ {0}
  /\ \A c \in Blocks : c # b => entries'[c] = entries[c]
  /\ Len(entries[b]) \in Nat /\ Len(entries'[b]) = k
  /\ \A i \in 1 .. Len(entries[b]) : entries'[b][i] = entries[b][i]
  /\ entries'[b][k] = e /\ k \in 1 .. Len(entries'[b])

\* entry_append_armed adds one entry at the end of one array and changes
\* nothing else.
LEMMA AppendGrows ==
  ASSUME TypesInv, NEW b \in Blocks, NEW e \in EntrySet, NEW k, k = Len(entries[b]) + 1,
         entries' = [entries EXCEPT ![b] = Append(entries[b], e)]
  PROVE  Grows(b, e, k)
<1>1. /\ \A c \in Blocks : c # b => entries'[c] = entries[c]
      /\ Len(entries[b]) \in Nat /\ Len(entries'[b]) = Len(entries[b]) + 1
      /\ \A i \in 1 .. Len(entries[b]) : entries'[b][i] = entries[b][i]
      /\ entries'[b][Len(entries[b]) + 1] = e
  BY AppendedFacts
<1> QED BY <1>1 DEF Grows

\* A block that appends the entry of the field it is at holds that field there.
LEMMA AppendAnswers ==
  ASSUME Answering, Answering', AnswersInv, Running("block"), Within(Len(stack)), ret' = None,
         NEW b \in Blocks, b = Innermost.block, NEW f \in Fields, f = FieldOf(Len(stack)),
         NEW e \in EntrySet, e.field = f, e.state # "ready", NEW k, Grows(b, e, k),
         \/ Becomes(Advanced(Innermost))
         \/ BecomesAndEnters(Advanced(Innermost), DrainLoop),
         UNCHANGED <<answer, life, ctx, values, nulled, errors, response>>,
         \A c \in Blocks : ~IsChild(c, f) => link'[c] = link[c] /\ ret # Frame(c),
         \A c \in Blocks : IsChild(c, f) /\ life[c] = "suspended" =>
           e = Entry(f, "block", "armed") /\ link'[c] = k,
         \A c \in Blocks : c \in Range(ready') => c \in Range(ready) \/ life[c] = "suspended"
  PROVE  AnswersInv'
<1>1. TypesInv /\ TypesInv' /\ CallsInv /\ FieldsInv /\ PlacesInv /\ ValuesInv
  BY DEF Answering, AnswersInv
<1>3. /\ k \in Nat \ {0}
      /\ \A c \in Blocks : c # b => entries'[c] = entries[c]
      /\ Len(entries[b]) \in Nat /\ Len(entries'[b]) = k /\ k = Len(entries[b]) + 1
      /\ \A i \in 1 .. Len(entries[b]) : entries'[b][i] = entries[b][i]
      /\ entries'[b][k] = e /\ k \in 1 .. Len(entries'[b])
  BY DEF Grows
<1>4. /\ Home(f) = b /\ ~Running("process") /\ \A i : ~Handled(b, i)
      /\ Innermost.at = "block" /\ Innermost.index < Len(Ops[b])
      /\ Innermost.index \in Nat /\ Len(Ops[b]) \in Nat /\ Len(stack) \in Depths
  BY <1>1, HereField, HereUnhandled, HereBlock, Here
<1>5. PICK t \in Calls : /\ t = Advanced(Innermost) /\ t.at = "block" /\ t.block = b
                         /\ t.index = Innermost.index + 1 /\ SameCall(t)
  <2>1. Advanced(Innermost) = OpLoop(b, Innermost.index + 1)
    BY <1>4 DEF Advanced
  <2>2. Innermost.index + 1 \in Nat
    BY <1>4
  <2> QED BY <1>4, <2>1, <2>2, MadeCalls, MadeBlock DEF SameCall
<1>6. PICK U \in {{}, {DrainLoop}} : Moves({t}, U)
  BY <1>1, <1>5, GoesOnQuietly
<1>7. \A u \in U : u.at = "drain"
  BY <1>6, MadeOthers
<1>8. ProcessesStay
  BY <1>1, <1>4, <1>5, <1>6, <1>7, MovesStay
<1>9. \A c \in Blocks, i \in Nat \ {0} : Handled(c, i)' <=> Handled(c, i)
  BY <1>1, <1>8, StayFacts
<1>10. Waiting(f)'
  BY <1>3, <1>4, <1>9 DEF Waiting, HeldAt
<1>11. \A g \in Fields : Coming(g) => Coming(g)' \/ Waiting(g)'
  <2>1. Len(stack) \in Depths'
    BY <1>1, <1>4, <1>5, <1>6, InnermostFacts DEF Becomes, BecomesAndEnters, Depths
  <2> QED BY <1>1, <1>4, <1>5, <1>6, <1>10, <2>1, ComingGoes
<1>12. \A g \in Fields : ArmedStays(g)
  <2>1. SUFFICES ASSUME NEW g \in Fields
                 PROVE  ArmedStays(g)
    OBVIOUS
  <2>2. \A i \in 1 .. Len(entries[Home(g)]) :
          /\ i \in 1 .. Len(entries'[Home(g)])
          /\ entries'[Home(g)][i] = entries[Home(g)][i]
    <3>1. CASE Home(g) = b
      BY <1>3, <3>1
    <3>2. CASE Home(g) # b
      BY <1>3, <3>2, HomeFacts
    <3> QED BY <3>1, <3>2
  <2> QED BY <1>1, <1>8, <2>2, ArmedKeeps
<1>13. EntriesHold /\ ReadyStays
  <2>1. \A c \in Blocks : Len(entries[c]) \in Nat
    BY <1>1 DEF TypesInv
  <2>2. EntriesHold
    BY <1>3, <2>1 DEF EntriesHold
  <2>3. ASSUME NEW c \in Blocks, NEW i \in 1 .. Len(entries'[c])
        PROVE  \/ i \in 1 .. Len(entries[c]) /\ entries'[c][i] = entries[c][i]
               \/ entries'[c][i].state # "ready"
    <3>1. CASE c = b /\ i = k
      BY <1>3, <3>1
    <3>2. CASE ~(c = b /\ i = k)
      <4>1. CASE c = b
        <5>1. i \in 1 .. k /\ i # k
          BY <1>3, <2>3, <3>2, <4>1
        <5>2. i \in 1 .. Len(entries[b])
          BY <1>3, <5>1
        <5> QED BY <1>3, <4>1, <5>2
      <4>2. CASE c # b
        <5>1. entries'[c] = entries[c]
          BY <1>3, <4>2
        <5> QED BY <2>3, <5>1
      <4> QED BY <4>1, <4>2
    <3> QED BY <3>1, <3>2
  <2>4. ReadyStays
    BY <2>3 DEF ReadyStays
  <2> QED BY <2>2, <2>4
<1>14. QueueSuspended' /\ RootDrains'
  <2>1. QueueSuspended /\ RootDrains
    BY <1>1 DEF PlacesInv
  <2>2. t.index <= Len(Ops[t.block])
    BY <1>4, <1>5
  <2> QED BY <1>1, <1>5, <1>6, <1>7, <2>1, <2>2, QueueKeeps
<1>15. PlacesInv'
  <2>1. \A g \in Fields : ctx'[g] # 0 =>
          /\ ctx'[g] = ctx[g] /\ ArmedStays(g)
          /\ \A c \in Blocks : IsChild(c, g) => life'[c] = "none"
    BY <1>1, <1>12 DEF PlacesInv, CallbacksHeld
  <2>2. ASSUME NEW c \in Blocks, IsChild(c, f), life[c] = "suspended"
        PROVE  ArmedAt(f, "block", link[c])'
    <3>1. link'[c] = k /\ entries'[b][k] = Entry(f, "block", "armed")
      BY <1>3, <2>2
    <3>2. ~Handled(b, k)'
      BY <1>3, <1>4, <1>9
    <3> QED BY <1>3, <1>4, <3>1, <3>2 DEF ArmedAt, Entry
  <2>3. \A g \in Fields : \A c \in Blocks : IsChild(c, g) /\ life'[c] = "suspended" =>
          \/ ArmedAt(g, "block", link[c])'
          \/ life[c] = "suspended" /\ ret # Frame(c) /\ link'[c] = link[c] /\ ArmedStays(g)
    <3>1. SUFFICES ASSUME NEW g \in Fields, NEW c \in Blocks, IsChild(c, g),
                          life[c] = "suspended"
                   PROVE  \/ ArmedAt(g, "block", link[c])'
                          \/ ret # Frame(c) /\ link'[c] = link[c] /\ ArmedStays(g)
      OBVIOUS
    <3>2. CASE g = f
      BY <2>2, <3>1, <3>2
    <3>3. CASE g # f
      BY <1>12, <3>1, <3>3, OneChild
    <3> QED BY <3>2, <3>3
  <2> QED BY <1>1, <1>8, <1>11, <1>13, <1>14, <2>1, <2>3, PlacesGo
<1>16. ValuesInv'
  BY <1>1, QuietValues
<1> QED BY <1>15, <1>16 DEF AnswersInv

\* The agreement with the reference is kept by a resolver that returns a
\* promise, for which an entry is appended and armed.
LEMMA ResolverReturnsPromiseAnswers ==
  ASSUME Answering, Answering', AnswersInv, NEW b \in Blocks, ResolverReturnsPromise(b)
  PROVE  AnswersInv'
<1>1. TypesInv /\ TypesInv' /\ CallsInv /\ FieldsInv
  BY DEF Answering
<1>2. /\ ret = None /\ ret' = None /\ Running("block") /\ Innermost.block = b
      /\ Innermost.index < Len(Ops[b])
      /\ entries' = [entries EXCEPT ![b] = Append(@, Entry(CurrentField, "promise", "unarmed"))]
      /\ stack' = Advance
      /\ UNCHANGED <<answer, life, link, ctx, values, nulled, errors, ready, response>>
  BY DEF ResolverReturnsPromise, InOpLoop, tree
<1>3. /\ Within(Len(stack)) /\ ~Running("process")
  BY <1>1, <1>2, HereBlock, Here
<1>4. PICK f \in Fields : f = CurrentField /\ f = FieldOf(Len(stack))
  BY <1>1, <1>2, <1>3, HereBlock
<1>5. PICK e \in EntrySet : e = Entry(f, "promise", "unarmed") /\ e.field = f /\ e.state = "unarmed"
  BY EntryFacts, MadeEntry DEF Kinds
<1>6. Becomes(Advanced(Innermost))
  BY <1>1, <1>2, <1>3, AdvanceBecomes
<1>7. \A c \in Blocks : IsChild(c, f) => life[c] = "none"
  BY <1>2, <1>3, <1>4, HereUnstarted
<1>8. \A c \in Blocks : ret # Frame(c)
  BY <1>2, ResultFacts
<1>9. \A c \in Blocks : IsChild(c, f) => life[c] # "suspended"
  BY <1>7
<1>10. PICK k : k = Len(entries[b]) + 1 /\ Grows(b, e, k)
  <2>1. entries' = [entries EXCEPT ![b] = Append(entries[b], e)]
    BY <1>2, <1>4, <1>5
  <2> QED BY <1>1, <2>1, AppendGrows
<1>11. e.state # "ready"
  BY <1>5
<1> QED BY <1>2, <1>3, <1>4, <1>5, <1>6, <1>8, <1>9, <1>10, <1>11, AppendAnswers

\* The outcome that a child block returns on the stack is consumed by the call
\* that executed it (consume_current_result_now, process_frame).
LEMMA TakesOutcomeAnswers ==
  ASSUME Answering, Answering', AnswersInv, Running("block") \/ Running("process"),
         ret # None, ret' = None, ret.kind = "outcome",
         NEW f \in Fields, f = FieldOf(Len(stack)),
         Consume(Innermost.block, f, ret.null, TRUE, FALSE), stack' = Advance,
         UNCHANGED <<answer, entries, link, ctx, life, ready, response>>
  PROVE  AnswersInv'
<1>1. TypesInv /\ CallsInv /\ ValuesInv /\ Within(Len(stack))
  BY Here DEF Answering, AnswersInv
<1>2. PICK c \in Blocks : Executes(Len(stack), c) /\ life[c] = "done" /\ ret.null = nulled[c]
  BY <1>1 DEF ValuesInv, Returned
<1>3. IsChild(c, f)
  BY <1>2, HereExecutes
<1>4. \A d \in Blocks : ret # Frame(d)
  BY ResultFacts
<1>5. Consume(Innermost.block, f, nulled[c], TRUE, FALSE)
  BY <1>2
<1> QED BY <1>1, <1>2, <1>3, <1>4, <1>5, OutcomeAnswers

\* The agreement with the reference is kept by the operation loop that takes
\* a child's frame, list or outcome.
LEMMA BlockTakesResultAnswers ==
  ASSUME Answering, Answering', AnswersInv, NEW b \in Blocks, BlockTakesResult(b)
  PROVE  AnswersInv'
<1>1. TypesInv /\ TypesInv' /\ CallsInv /\ FieldsInv /\ PlacesInv /\ ValuesInv
  BY DEF Answering, AnswersInv
<1>2. /\ ret # None /\ ret' = None /\ Running("block") /\ Innermost.block = b
      /\ UNCHANGED <<answer, response>>
  BY DEF BlockTakesResult
<1>3. /\ stack # <<>> /\ Within(Len(stack)) /\ ret \in Results /\ CallsInv /\ ReturnOK
  BY <1>1, <1>2, Here DEF TypesInv, CallsInv
<1>4. PICK f \in Fields : f = CurrentField /\ f = FieldOf(Len(stack))
  BY <1>1, <1>2, <1>3, HereBlock
<1>5. ret.kind \in {"frame", "outcome"} /\ ~Running("process")
  BY <1>1, <1>2, NoLists, Here
<1>6. CASE ret.kind = "outcome"
  <2>1. /\ Consume(Innermost.block, f, ret.null, TRUE, FALSE) /\ stack' = Advance
        /\ UNCHANGED <<entries, link, ctx, life, ready>>
    BY <1>2, <1>4, <1>6 DEF BlockTakesResult, frames
  <2> QED BY <1>2, <1>4, <1>6, <2>1, TakesOutcomeAnswers
<1>7. CASE ret.kind = "frame"
  <2>1. PICK c \in Blocks : c = ret.of /\ Executes(Len(stack), c) /\ life[c] = "suspended"
    <3>1. ret.of \in Blocks /\ Executes(Len(stack), ret.of)
      BY <1>2, <1>3, <1>7, ResultFacts DEF ReturnOK
    <3>2. life[ret.of] = "suspended"
      BY <1>1, <1>2, <1>7 DEF PlacesInv, QueueSuspended
    <3> QED BY <3>1, <3>2
  <2>2. IsChild(c, f)
    BY <1>2, <1>4, <2>1, HereExecutes
  <2>3. \A d \in Blocks : IsChild(d, f) => d = c
    BY <2>2 DEF IsChild
  <2>4. PICK e \in EntrySet : /\ e = AdoptedEntry(f) /\ e = Entry(f, "block", "armed")
                              /\ e.field = f /\ e.state = "armed"
    <3>1. AdoptedEntry(f) = Entry(f, "block", "armed")
      BY <1>7 DEF AdoptedEntry
    <3> QED BY <3>1, EntryFacts, MadeEntry DEF Kinds
  <2>5. PICK wanted \in BOOLEAN : wanted = (unresolved[c] = 0)
    OBVIOUS
  <2>6. PICK t \in Calls : t = Advanced(Innermost)
    BY <1>1, <1>2, <1>3, AdvancedFacts
  <2>7. /\ entries' = [entries EXCEPT ![b] = Append(entries[b], e)]
        /\ link' = [link EXCEPT ![c] = Len(entries'[b])]
        /\ EnqueueAndDrain(wanted, c, ready, Top(t))
        /\ UNCHANGED <<ctx, life, values, nulled, errors>>
    BY <1>4, <1>7, <2>1, <2>4, <2>5, <2>6 DEF BlockTakesResult, Advance, tree
  <2>8. /\ \A x : x \in Range(ready') => x \in Range(ready) \/ x = c
        /\ Becomes(t) \/ BecomesAndEnters(t, DrainLoop)
    <3>1. ready \in Seq(Blocks \cup {None})
      BY <1>1 DEF TypesInv
    <3> QED BY <1>1, <1>3, <2>7, <3>1, EnqueueAndDrainFacts
  <2>9. PICK k : Grows(b, e, k) /\ k = Len(entries'[b])
    <3>1. PICK k : k = Len(entries[b]) + 1
      OBVIOUS
    <3>2. Grows(b, e, k)
      BY <1>1, <2>7, <3>1, AppendGrows
    <3> QED BY <3>2 DEF Grows
  <2>10. link'[c] = k /\ \A d \in Blocks : d # c => link'[d] = link[d]
    BY <1>1, <2>7, <2>9 DEF TypesInv
  <2>11. \A d \in Blocks : d # c => ret # Frame(d)
    BY <2>1, ResultFacts
  <2>12. \A d \in Blocks : ~IsChild(d, f) => link'[d] = link[d] /\ ret # Frame(d)
    BY <2>2, <2>10, <2>11
  <2>13. \A d \in Blocks : IsChild(d, f) =>
           e = Entry(f, "block", "armed") /\ link'[d] = k
    BY <2>3, <2>4, <2>10
  <2>14. \A d \in Blocks : d \in Range(ready') => d \in Range(ready) \/ life[d] = "suspended"
    BY <2>1, <2>8
  <2>15. e.state # "ready"
    BY <2>4
  <2> QED BY <1>2, <1>3, <1>4, <2>4, <2>6, <2>7, <2>8, <2>9, <2>12, <2>13, <2>14, <2>15, AppendAnswers
<1> QED BY <1>5, <1>6, <1>7


\* An entry that is moved to the rebuilt array stands at the next index there.
LEMMA MoveGoesOn ==
  ASSUME TypesInv, CallsInv, Running("process"), EntriesLeft,
         NEW f \in Fields, f = FieldOf(Len(stack)), NEW e \in EntrySet, e.field = f,
         e.kind = "block" => e.state = "armed", stack' = MoveTo(e),
         NEW k \in Nat, k = NextIndex
  PROVE  \E t \in Calls :
           /\ ProcessGoesOn(t, f) /\ t.next # Innermost.next
           /\ \A kind : e = Entry(f, kind, "armed") /\ Home(f) = Innermost.block =>
                MovedAt(f, kind, k)'
<1>1. PICK t \in Calls :
        /\ t.at = "process" /\ t.block = Innermost.block /\ t.index = Innermost.index + 1
        /\ t.next = Append(Innermost.next, e) /\ Becomes(t)
  BY MoveToFacts
<1>2. ProcessGoesOn(t, f)
  BY <1>1 DEF ProcessGoesOn
<1>3. Innermost.next \in Seq(EntrySet) /\ Len(Innermost.next) + 1 = k
  BY HereProcess DEF NextIndex
<1>4. /\ t.next # Innermost.next /\ k \in 1 .. Len(t.next) /\ t.next[k] = e
  BY <1>1, <1>3
<1>5. PICK L \in Nat : L = Len(stack) /\ L \in Depths' /\ stack'[L] = t
  BY <1>1, Here DEF Becomes, Depths
<1>6. \A kind : e = Entry(f, kind, "armed") /\ Home(f) = Innermost.block => MovedAt(f, kind, k)'
  BY <1>1, <1>4, <1>5 DEF MovedAt, At, Entry
<1> QED BY <1>2, <1>4, <1>6

\* Whoever settles an entry that moves is told its new index, be it a callback
\* pair or a child frame (process_frame).
LEMMA MovedAnswers ==
  ASSUME Answering, Answering', AnswersInv, Running("process"), EntriesLeft, ret' = None,
         NEW f \in Fields, f = FieldOf(Len(stack)), NEW e \in EntrySet, e.field = f,
         e.kind = "block" => e.state = "armed", stack' = MoveTo(e),
         NEW k \in Nat, k = NextIndex, OthersPoint(f),
         UNCHANGED <<answer, entries, life, values, nulled, errors, response>>,
         ctx'[f] # 0 => ctx[f] # 0 /\ ctx'[f] = k /\ e = Entry(f, "promise", "armed"),
         \A c \in Blocks : IsChild(c, f) /\ life[c] = "suspended" =>
           e = Entry(f, "block", "armed") /\ link'[c] = k,
         \A c \in Blocks : c \in Range(ready') => c \in Range(ready) \/ life[c] = "suspended"
  PROVE  AnswersInv'
<1>1. TypesInv /\ TypesInv' /\ CallsInv /\ FieldsInv /\ PlacesInv /\ ValuesInv
  BY DEF Answering, AnswersInv
<1>2. PICK t \in Calls :
        /\ ProcessGoesOn(t, f) /\ t.next # Innermost.next
        /\ \A kind : e = Entry(f, kind, "armed") /\ Home(f) = Innermost.block =>
             MovedAt(f, kind, k)'
  BY <1>1, MoveGoesOn
<1>3. Home(f) = Innermost.block
  <2>1. Within(Len(stack))
    BY <1>1, HereProcess
  <2> QED BY <1>1, <2>1, HereField
<1>4. PICK i \in Nat : i = ctx'[f]
  BY <1>1 DEF TypesInv
<1>5. i # 0 => MovedAt(f, "promise", i)' /\ \A c \in Blocks : IsChild(c, f) => life[c] = "none"
  BY <1>1, <1>2, <1>3, <1>4 DEF PlacesInv, CallbacksHeld
<1>6. ctx'[f] # 0 =>
        MovedAt(f, "promise", ctx[f])' /\ \A c \in Blocks : IsChild(c, f) => life[c] = "none"
  BY <1>4, <1>5 DEF MovedAt
<1>7. \A c \in Blocks : IsChild(c, f) /\ life[c] = "suspended" => MovedAt(f, "block", k)'
  BY <1>2, <1>3
<1>8. \A c \in Blocks : IsChild(c, f) /\ life[c] = "suspended" => MovedAt(f, "block", link[c])'
  BY <1>7 DEF MovedAt
<1>9. PlacesInv'
  BY <1>1, <1>2, <1>6, <1>8, PlacesOn
<1>10. ValuesInv'
  BY <1>1, QuietValues
<1> QED BY <1>9, <1>10 DEF AnswersInv

\* The agreement with the reference is kept by process_frame that takes the
\* frame or outcome of the block a ready entry started.
LEMMA ProcessTakesResultAnswers ==
  ASSUME Answering, Answering', AnswersInv, NEW b \in Blocks, ProcessTakesResult(b)
  PROVE  AnswersInv'
<1>1. /\ TypesInv /\ TypesInv' /\ CallsInv /\ FieldsInv /\ PlacesInv /\ owned' = owned
  BY NoLists DEF Answering, AnswersInv, TypesInv
<1>2. /\ ret # None /\ ret' = None /\ Running("process") /\ ret \in Results
      /\ Within(Len(stack)) /\ EntriesLeft /\ Innermost.block = b
      /\ FieldOf(Len(stack)) = CurrentEntry.field /\ CurrentEntry.field \in Fields
      /\ Len(Innermost.next) \in Nat /\ UNCHANGED <<answer, entries, ctx, life, response>>
  BY <1>1, HereProcess, Here DEF ProcessTakesResult, TypesInv
<1>3. PICK f \in Fields : f = CurrentEntry.field /\ f = FieldOf(Len(stack))
  BY <1>2
<1>4. CASE ret.kind = "outcome"
  <2>1. /\ Consume(Innermost.block, f, ret.null, TRUE, FALSE) /\ stack' = Advance
        /\ UNCHANGED <<answer, entries, link, ctx, life, ready, response>>
    BY <1>2, <1>3, <1>4 DEF ProcessTakesResult
  <2> QED BY <1>2, <1>3, <1>4, <2>1, TakesOutcomeAnswers
<1>5. CASE ret.kind = "frame"
  <2>1. PICK c \in Blocks : c = ret.of /\ Executes(Len(stack), c) /\ life[c] = "suspended"
    <3>1. ret.of \in Blocks /\ Executes(Len(stack), ret.of)
      BY <1>1, <1>2, <1>5, ResultFacts DEF CallsInv, ReturnOK
    <3>2. life[ret.of] = "suspended"
      BY <1>1, <1>2, <1>5 DEF PlacesInv, QueueSuspended
    <3> QED BY <3>1, <3>2
  <2>2. IsChild(c, f)
    BY <1>2, <1>3, <2>1, HereExecutes
  <2>3. \A d \in Blocks : IsChild(d, f) => d = c
    BY <2>2 DEF IsChild
  <2>4. PICK e \in EntrySet : /\ e = AdoptedEntry(f) /\ e = Entry(f, "block", "armed")
                              /\ e.field = f /\ e.state = "armed"
    <3>1. AdoptedEntry(f) = Entry(f, "block", "armed")
      BY <1>5 DEF AdoptedEntry
    <3> QED BY <3>1, EntryFacts, MadeEntry DEF Kinds
  <2>5. PICK k \in Nat : k = NextIndex
    BY <1>2 DEF NextIndex
  <2>6. /\ stack' = MoveTo(e) /\ link' = [link EXCEPT ![c] = k]
        /\ ready' = Enqueued(c, ready) \/ ready' = ready
        /\ UNCHANGED <<values, nulled, errors>>
    BY <1>3, <1>5, <2>1, <2>4, <2>5 DEF ProcessTakesResult, tree
  <2>7. link'[c] = k /\ \A d \in Blocks : d # c => link'[d] = link[d]
    BY <1>1, <2>6 DEF TypesInv
  <2>8. OthersPoint(f)
    BY <1>1, <1>2, <2>2, <2>7 DEF OthersPoint
  <2>9. \A d \in Blocks : d \in Range(ready') => d \in Range(ready) \/ life[d] = "suspended"
    <3>1. ready \in Seq(Blocks \cup {None})
      BY <1>1 DEF TypesInv
    <3>2. \A d : d \in Range(ready') => d \in Range(ready) \/ d = c
      BY <2>6, <3>1, QueueFacts
    <3> QED BY <2>1, <3>2
  <2>10. ctx[f] = 0
    BY <1>1, <2>1, <2>2 DEF PlacesInv, CallbacksHeld
  <2>11. ctx'[f] = 0
    BY <1>2, <2>10
  <2>12. \A d \in Blocks : IsChild(d, f) => link'[d] = k
    BY <2>3, <2>7
  <2> QED BY <1>2, <1>3, <2>4, <2>5, <2>6, <2>8, <2>9, <2>11, <2>12, MovedAnswers
<1> QED BY <1>2, <1>4, <1>5, NoLists

\* The agreement with the reference is kept by process_frame that keeps an
\* entry that is not ready in the rebuilt array.
LEMMA ProcessMovesAnswers ==
  ASSUME Answering, Answering', AnswersInv, NEW b \in Blocks, ProcessMoves(b)
  PROVE  AnswersInv'
<1>1. /\ TypesInv /\ TypesInv' /\ CallsInv /\ FieldsInv /\ PlacesInv /\ owned' = owned
  BY NoLists DEF Answering, AnswersInv, TypesInv
<1>2. /\ ret = None /\ ret' = None /\ Running("process") /\ EntriesLeft /\ Within(Len(stack))
      /\ FieldOf(Len(stack)) = CurrentEntry.field /\ CurrentEntry.field \in Fields
      /\ Innermost.block \in Blocks /\ Innermost.block = b
      /\ Innermost.index + 1 \in 1 .. Len(entries[Innermost.block])
      /\ Len(Innermost.next) \in Nat /\ CurrentEntry \in EntrySet
      /\ UNCHANGED <<answer, entries, life, ready, values, nulled, errors, response>>
  BY <1>1, HereProcess DEF ProcessMoves, InProcessLoop, tree
<1>3. PICK f \in Fields, e \in EntrySet :
        e = CurrentEntry /\ f = e.field /\ f = FieldOf(Len(stack)) /\ EntryOK(e)
  <2>1. EntryOK(CurrentEntry)
    BY <1>1, <1>2 DEF FieldsInv, ArraysOK, ArrayOK, CurrentEntry
  <2> QED BY <1>2, <2>1
<1>4. PICK k \in Nat : k = NextIndex /\ k # 0
  BY <1>2 DEF NextIndex
<1>5. /\ stack' = MoveTo(e) /\ e.state # "ready"
      /\ link' = IF e.kind = "block" THEN [link EXCEPT ![Children[f][1]] = k] ELSE link
      /\ ctx' = IF e.kind = "promise" /\ ctx[f] # 0 THEN [ctx EXCEPT ![f] = k] ELSE ctx
  BY <1>3, <1>4 DEF ProcessMoves, StillWaits
<1>6. e.kind = "block" => e.state = "armed"
  BY <1>3, <1>5, EntryFacts DEF EntryOK
<1>7. OthersPoint(f)
  <2>1. \A g \in Fields : g # f => ctx'[g] = ctx[g]
    BY <1>1, <1>5 DEF TypesInv
  <2>2. \A c \in Blocks : ~IsChild(c, f) => link'[c] = link[c]
    <3>1. CASE e.kind = "block"
      <4>1. IsChild(Children[f][1], f)
        BY <1>3, <3>1 DEF EntryOK, IsChild
      <4> QED BY <1>1, <1>5, <3>1, <4>1 DEF TypesInv
    <3>2. CASE e.kind # "block"
      BY <1>5, <3>2
    <3> QED BY <3>1, <3>2
  <2> QED BY <1>1, <2>1, <2>2 DEF OthersPoint
<1>8. ctx'[f] # 0 => ctx[f] # 0 /\ ctx'[f] = k /\ e = Entry(f, "promise", "armed")
  <2>1. SUFFICES ASSUME ctx'[f] # 0
                 PROVE  ctx[f] # 0 /\ ctx'[f] = k /\ e = Entry(f, "promise", "armed")
    OBVIOUS
  <2>2. PICK i \in Nat : i = ctx[f]
    BY <1>1 DEF TypesInv
  <2>3. ctx[f] # 0
    BY <1>1, <1>5, <2>1 DEF TypesInv
  <2>4. ArmedAt(f, "promise", i)
    BY <1>1, <2>2, <2>3 DEF PlacesInv, CallbacksHeld
  <2>5. e = Entry(f, "promise", "armed")
    BY <1>2, <1>3, <2>4, HereArmed DEF Kinds
  <2>6. e.kind = "promise"
    BY <2>5, MadeEntry
  <2> QED BY <1>1, <1>5, <2>3, <2>5, <2>6 DEF TypesInv
<1>9. ASSUME NEW c \in Blocks, IsChild(c, f), life[c] = "suspended"
      PROVE  e = Entry(f, "block", "armed") /\ link'[c] = k
  <2>1. PICK i \in Nat : i = link[c]
    BY <1>1 DEF TypesInv
  <2>2. ret # Frame(c)
    BY <1>2, ResultFacts
  <2>3. ArmedAt(f, "block", i)
    BY <1>1, <1>9, <2>1, <2>2 DEF PlacesInv, LinksHeld
  <2>4. e = Entry(f, "block", "armed")
    BY <1>2, <1>3, <2>3, HereArmed DEF Kinds
  <2>5. e.kind = "block" /\ Children[f][1] = c
    BY <1>9, <2>4, MadeEntry DEF IsChild
  <2> QED BY <1>1, <1>5, <2>4, <2>5 DEF TypesInv
<1>10. \A c \in Blocks : c \in Range(ready') => c \in Range(ready) \/ life[c] = "suspended"
  BY <1>2
<1> QED BY <1>2, <1>3, <1>4, <1>5, <1>6, <1>7, <1>8, <1>9, <1>10, MovedAnswers


\* Arming stores the entry of a promise that has settled, gives any other
\* unarmed one a callback pair with its index, and leaves the armed ones alone.
LEMMA ArmedEntries ==
  ASSUME TypesInv, NEW b \in Blocks, NEW es \in Seq(EntrySet), ArmFrame(b, es),
         ArrayOK(es), \A i \in 1 .. Len(es) : Home(es[i].field) = b
  PROVE  /\ Len(entries'[b]) = Len(es)
         /\ \A i \in 1 .. Len(es) :
              \/ es[i].state # "unarmed" /\ entries'[b][i] = es[i]
              \/ /\ es[i].state = "unarmed" /\ es[i].kind = "promise"
                 /\ entries'[b][i].kind = "promise"
         /\ \A i \in 1 .. Len(es) : entries'[b][i].field = es[i].field
         /\ \A c \in Blocks : c # b => entries'[c] = entries[c]
         /\ \A f \in Fields :
              \/ ctx'[f] = ctx[f]
              \/ \E i \in 1 .. Len(es) :
                   /\ ctx'[f] = i /\ es[i].field = f /\ es[i].kind = "promise" /\ Home(f) = b
                   /\ entries'[b][i] = Entry(f, "promise", "armed")
<1>1. /\ Len(entries'[b]) = Len(es)
      /\ \A i \in 1 .. Len(es) : /\ entries'[b][i] = ArmedEntry(es[i])
                                 /\ entries'[b][i].field = es[i].field
                                 /\ entries'[b][i].kind = es[i].kind
      /\ \A c \in Blocks : c # b => entries'[c] = entries[c]
  BY ArmFacts
<1>2. \A i \in 1 .. Len(es) : es[i] \in EntrySet /\ EntryOK(es[i])
  BY DEF ArrayOK
<1>3. \A i \in 1 .. Len(es) :
        \/ es[i].state # "unarmed" /\ entries'[b][i] = es[i]
        \/ /\ es[i].state = "unarmed" /\ es[i].kind = "promise"
           /\ entries'[b][i].kind = "promise"
  BY <1>1, <1>2 DEF ArmedEntry, EntryOK
<1>4. ASSUME NEW f \in Fields, ctx'[f] # ctx[f]
      PROVE  \E i \in 1 .. Len(es) :
               /\ ctx'[f] = i /\ es[i].field = f /\ es[i].kind = "promise" /\ Home(f) = b
               /\ entries'[b][i] = Entry(f, "promise", "armed")
  <2>1. ArmsAt(es, f) # {} /\ ctx'[f] = CHOOSE i \in ArmsAt(es, f) : TRUE
    BY <1>4 DEF ArmFrame
  <2>2. ctx'[f] \in ArmsAt(es, f)
    BY <2>1
  <2>3. PICK i \in 1 .. Len(es) : /\ i = ctx'[f] /\ es[i].field = f
                                  /\ es[i].state = "unarmed" /\ Waits(es[i])
    BY <2>2 DEF ArmsAt
  <2>4. ~SettledAtOnce(es[i]) /\ es[i].kind = "promise"
    BY <1>2, <2>3 DEF Waits, EntryOK
  <2>5. entries'[b][i] = Entry(f, "promise", "armed")
    BY <1>1, <2>3, <2>4 DEF ArmedEntry
  <2> QED BY <2>3, <2>4, <2>5
<1> QED BY <1>1, <1>3, <1>4

\* While a frame is armed, what waits in it keeps its place.
LEMMA ArmedPlaces ==
  ASSUME Answering, Answering', PlacesInv, ProcessesStay, NEW b \in Blocks,
         NEW es \in Seq(EntrySet), es = entries[b], ArmFrame(b, es)
  PROVE  /\ EntriesHold
         /\ \A f \in Fields : ArmedStays(f)
         /\ \A c \in Blocks : \A i \in 1 .. Len(entries'[c]) :
              \/ i \in 1 .. Len(entries[c]) /\ entries'[c][i] = entries[c][i]
              \/ entries'[c][i].kind # "block"
<1>1. TypesInv /\ TypesInv' /\ FieldsInv
  BY DEF Answering
<1>2. ArrayOK(es) /\ \A i \in 1 .. Len(es) : Home(es[i].field) = b
  BY <1>1 DEF FieldsInv, ArraysOK
<1>3. /\ Len(entries'[b]) = Len(es)
      /\ \A i \in 1 .. Len(es) :
           \/ es[i].state # "unarmed" /\ entries'[b][i] = es[i]
           \/ /\ es[i].state = "unarmed" /\ es[i].kind = "promise"
              /\ entries'[b][i].kind = "promise"
      /\ \A i \in 1 .. Len(es) : entries'[b][i].field = es[i].field
      /\ \A c \in Blocks : c # b => entries'[c] = entries[c]
  BY <1>1, <1>2, ArmedEntries
<1>4. \A c \in Blocks : Len(entries[c]) \in Nat
  BY <1>1 DEF TypesInv
<1>5. EntriesHold
  BY <1>3, <1>4 DEF EntriesHold
<1>6. ASSUME NEW f \in Fields
      PROVE  ArmedStays(f)
  <2>1. ASSUME NEW i \in 1 .. Len(entries[Home(f)]), entries[Home(f)][i].state = "armed"
        PROVE  /\ i \in 1 .. Len(entries'[Home(f)])
               /\ entries'[Home(f)][i] = entries[Home(f)][i]
    <3>1. CASE Home(f) = b
      BY <1>3, <2>1, <3>1
    <3>2. CASE Home(f) # b
      BY <1>3, <2>1, <3>2, HomeFacts
    <3> QED BY <3>1, <3>2
  <2> QED BY <1>1, <2>1, ArmedKeeps
<1>7. ASSUME NEW c \in Blocks, NEW i \in 1 .. Len(entries'[c])
      PROVE  \/ i \in 1 .. Len(entries[c]) /\ entries'[c][i] = entries[c][i]
             \/ entries'[c][i].kind # "block"
  <2>1. CASE c = b
    BY <1>3, <1>7, <2>1
  <2>2. CASE c # b
    BY <1>3, <1>7, <2>2
  <2> QED BY <2>1, <2>2
<1> QED BY <1>5, <1>6, <1>7

\* The agreement with the reference is kept by finalize_block of a block that
\* waits, armed and queued if something is ready.
LEMMA FinalizeSuspendsAnswers ==
  ASSUME Answering, Answering', AnswersInv, NEW b \in Blocks, FinalizeSuspends(b)
  PROVE  AnswersInv'
<1>1. /\ TypesInv /\ TypesInv' /\ CallsInv /\ FieldsInv /\ PlacesInv /\ ValuesInv /\ Items = {}
  BY NoLists DEF Answering, AnswersInv
<1>2. /\ ret = None /\ Running("block") /\ Innermost.block = b
      /\ Innermost.index = Len(Ops[b]) /\ entries[b] # <<>>
      /\ life' = [life EXCEPT ![b] = "suspended"]
      /\ UNCHANGED <<answer, link, values, nulled, errors, response>>
  BY <1>1, HereBlock DEF FinalizeSuspends, Finalizing, tree
<1>3. PICK es \in Seq(EntrySet) : es = entries[b] /\ ArmFrame(b, es)
  BY <1>1 DEF FinalizeSuspends, TypesInv
<1>4. /\ stack # <<>> /\ ~Running("process") /\ Innermost.at = "block" /\ Len(Ops[b]) \in Nat
      /\ ~Within(Len(stack))
      /\ b \in Roots => Len(stack) = 1
  BY <1>1, <1>2, Here, HereBlock, HereStarted
<1>5. life[b] = "running" /\ life'[b] = "suspended" /\ \A c \in Blocks : c # b => life'[c] = life[c]
  <2>1. life[b] = "running"
    BY <1>2, <1>4, HereLives
  <2> QED BY <1>1, <1>2, <2>1 DEF TypesInv
<1>6. /\ \/ stack' = Pop /\ ret' = IF b \in Roots THEN None ELSE Frame(b)
         \/ b \in Roots /\ ret' = None /\ stack' = Append(Advance, DrainLoop)
      /\ ready' = Enqueued(b, ready) \/ ready' = ready
  BY <1>1, <1>2 DEF FinalizeSuspends, Returns
<1>7. \A c \in Blocks : c \in Range(ready') => c \in Range(ready) \/ c = b
  <2>1. ready \in Seq(Blocks \cup {None})
    BY <1>1 DEF TypesInv
  <2> QED BY <1>6, <2>1, QueueFacts
<1>8. ret' = None \/ ret' = Frame(b)
  BY <1>6
<1>9. ValuesInv'
  <2>1. ret' = None \/ ret'.kind # "outcome"
    BY <1>8, ResultFacts
  <2>2. Roots \subseteq Blocks
    BY TypesAssumption
  <2> QED BY <1>1, <1>2, <1>5, <2>1, <2>2, QuietValues
<1>10. ASSUME NEW T \in SUBSET Calls, NEW U, Moves(T, U), \A u \in U : u.at = "drain",
              \A t \in T : t.at = "block" /\ t.block \in Roots
       PROVE  PlacesInv'
  <2>1. ProcessesStay
    BY <1>1, <1>4, <1>10, MovesStay
  <2>2. /\ EntriesHold
        /\ \A f \in Fields : ArmedStays(f)
        /\ \A c \in Blocks : \A i \in 1 .. Len(entries'[c]) :
             \/ i \in 1 .. Len(entries[c]) /\ entries'[c][i] = entries[c][i]
             \/ entries'[c][i].kind # "block"
    BY <1>1, <1>3, <2>1, ArmedPlaces
  <2>3. ReadyStays
    <3>1. \A c \in Blocks : life[c] = "done" => life'[c] = "done"
      BY <1>5
    <3> QED BY <2>2, <3>1 DEF ReadyStays
  <2>4. QueueSuspended' /\ RootDrains'
    <3>1. \A c \in Blocks : life[c] = "suspended" => life'[c] = "suspended"
      BY <1>5
    <3>2. \A c \in Blocks : c \in Range(ready') => c \in Range(ready) \/ life'[c] = "suspended"
      BY <1>5, <1>7
    <3>3. ret' # None /\ ret'.kind = "frame" => life'[ret'.of] = "suspended"
      BY <1>5, <1>8, ResultFacts
    <3>4. QueueSuspended /\ RootDrains
      BY <1>1 DEF PlacesInv
    <3>5. /\ \A t \in T : t.at \notin {"process", "resolve"}
          /\ \A u \in U : u.at \notin {"process", "resolve", "block"}
      BY <1>10
    <3> QED BY <1>1, <1>10, <3>1, <3>2, <3>3, <3>4, <3>5, QueueKeeps
  <2>5. \A f \in Fields : Coming(f) => Coming(f)'
    BY <1>1, <1>2, <1>4, <1>10, ComingGoes
  <2>6. \A f \in Fields : life[Home(f)] = "none" => life'[Home(f)] = "none"
    BY <1>5, HomeFacts
  <2>7. ASSUME NEW f \in Fields, ctx'[f] # 0
        PROVE  /\ \/ ctx'[f] = ctx[f] /\ ArmedStays(f)
                  \/ ArmedAt(f, "promise", ctx[f])'
               /\ \A c \in Blocks : IsChild(c, f) => life'[c] = "none"
    <3>1. CASE ctx'[f] = ctx[f]
      <4>1. \A c \in Blocks : IsChild(c, f) => life[c] = "none"
        BY <1>1, <2>7, <3>1 DEF PlacesInv, CallbacksHeld
      <4> QED BY <1>5, <2>2, <3>1, <4>1
    <3>2. CASE ctx'[f] # ctx[f]
      <4>1. ArrayOK(es) /\ \A i \in 1 .. Len(es) : Home(es[i].field) = b
        BY <1>1, <1>3 DEF FieldsInv, ArraysOK
      <4>2. PICK i \in 1 .. Len(es) :
              /\ ctx'[f] = i /\ es[i].field = f /\ es[i].kind = "promise" /\ Home(f) = b
              /\ entries'[b][i] = Entry(f, "promise", "armed")
        BY <1>1, <1>3, <3>2, <4>1, ArmedEntries
      <4>3. /\ \A j : ~Handled(b, j)
            /\ \A n \in Depths : At(n, "process") => stack[n].block # b
        <5>1. \A j : ~Handled(b, j)
          BY <1>1, <1>2, HereUnhandled
        <5>2. \A n \in Depths : At(n, "process") => stack[n].block # b
          <6>1. SUFFICES ASSUME NEW n \in Depths, At(n, "process"), stack[n].block = b
                         PROVE  FALSE
            OBVIOUS
          <6>2. stack[n].index \in Nat
            BY <1>1, <6>1, CallingProcess
          <6>3. Handled(b, 0)
            BY <6>1, <6>2 DEF Handled, At, Depths
          <6> QED BY <5>1, <6>3
        <5> QED BY <5>1, <5>2
      <4>4. i \in Nat \ {0} /\ i \in 1 .. Len(entries'[b])
        BY <1>1, <1>3, <4>1, <4>2, ArmedEntries
      <4>5. ~Handled(b, i)'
        BY <1>1, <2>1, <4>3, <4>4, StayFacts
      <4>6. ArmedAt(f, "promise", i)'
        BY <4>2, <4>4, <4>5 DEF ArmedAt
      <4>7. ArmedAt(f, "promise", ctx[f])'
        BY <4>2, <4>6 DEF ArmedAt, MovedAt
      <4>8. MayComplete(f)
        BY <1>3, <4>2, <4>3 DEF MayComplete, Asleep, HeldAt, InHand
      <4>9. \A c \in Blocks : IsChild(c, f) => life[c] = "none"
        <5>1. SUFFICES ASSUME NEW c \in Blocks, IsChild(c, f)
                       PROVE  life[c] = "none"
          OBVIOUS
        <5>2. ChildOf(c, f)
          BY <5>1, ChildFacts DEF IsChild, ChildOf
        <5> QED BY <1>1, <4>8, <5>2 DEF FieldsInv, StartsOK, MayStart
      <4> QED BY <1>5, <4>7, <4>9
    <3> QED BY <3>1, <3>2
  <2>8. ASSUME NEW f \in Fields, NEW c \in Blocks, IsChild(c, f), life'[c] = "suspended"
        PROVE  \/ ret' = Frame(c)
               \/ life[c] = "suspended" /\ ret # Frame(c) /\ link'[c] = link[c] /\ ArmedStays(f)
    <3>1. CASE c = b
      BY <1>6, <2>8, <3>1, OneChild
    <3>2. CASE c # b
      BY <1>2, <1>5, <2>2, <2>8, <3>2, ResultFacts
    <3> QED BY <3>1, <3>2
  <2>9. \A f \in Fields : values'[f] = "unset" =>
          /\ values[f] = "unset"
          /\ Coming(f) => Coming(f)'
          /\ life[Home(f)] = "none" => life'[Home(f)] = "none"
    BY <1>2, <2>5, <2>6
  <2> QED BY <1>1, <2>1, <2>2, <2>3, <2>4, <2>7, <2>8, <2>9, PlacesGo
<1>11. PlacesInv'
  <2>1. CASE stack' = Pop
    <3>1. Leaves
      BY <1>1, <1>4, <2>1, PopFacts
    <3>2. ret' # None \/ Len(stack) = 1
      BY <1>4, <1>6, ResultFacts
    <3>3. PICK T \in SUBSET Calls : T = {}
      OBVIOUS
    <3>4. Moves(T, T)
      BY <1>1, <1>4, <3>1, <3>2, <3>3, ReturnsQuietly
    <3> QED BY <1>10, <3>3, <3>4
  <2>2. CASE b \in Roots /\ stack' = Append(Advance, DrainLoop)
    <3>1. PICK t \in Calls : t = Advanced(Innermost) /\ t = OpLoop(b, Innermost.index + 1)
      BY <1>1, <1>2, <1>4, HereBlock, MadeCalls DEF Advanced
    <3>2. t.at = "block" /\ t.block = b /\ t.index = Innermost.index + 1
      BY <3>1, MadeBlock
    <3>3. SameCall(t)
      BY <1>2, <1>4, <3>2 DEF SameCall
    <3>4. BecomesAndEnters(t, DrainLoop)
      BY <1>1, <1>4, <2>2, <3>1, TopPushFacts, MadeCalls DEF Advance
    <3>5. PICK U \in {{}, {DrainLoop}} : Moves({t}, U)
      BY <1>1, <1>2, <3>2, <3>3, <3>4, GoesOnQuietly
    <3>6. PICK T \in SUBSET Calls : T = {t}
      OBVIOUS
    <3>7. \A u \in U : u.at = "drain"
      BY <3>5, MadeOthers
    <3>8. Moves(T, U) /\ \A s \in T : s.at = "block" /\ s.block \in Roots
      BY <2>2, <3>2, <3>5, <3>6
    <3> QED BY <1>10, <3>7, <3>8
  <2> QED BY <1>6, <2>1, <2>2
<1> QED BY <1>9, <1>11 DEF AnswersInv


\* Once process_frame is through the old array, no entry counts as handled.
LEMMA EndsUnhandled ==
  ASSUME TypesInv, CallsInv, TypesInv', NEW b \in Blocks, ProcessEnds(b)
  PROVE  \A c \in Blocks, i \in Nat \ {0} : ~Handled(c, i)'
<1>1. PICK L \in Nat : /\ L = Len(stack) /\ L \in Depths /\ At(L, "process")
                       /\ stack # <<>> /\ Innermost.at = "process"
  BY Here DEF ProcessEnds, InProcessLoop
<1>2. \A n \in Depths : n # L => ~At(n, "process")
  BY <1>1, OneProcess
<1>3. \/ stack' = Pop
      \/ \E a \in Calls : /\ stack' = Top(a)
                          /\ a.at = "process" => a.index = 0
  <2>1. \/ stack' = Pop \/ stack' = Top(ResolveCall(b)) \/ stack' = Top(ProcessLoop(b, 0, <<>>))
    BY DEF ProcessEnds
  <2>2. ResolveCall(b) \in Calls /\ ResolveCall(b).at = "resolve"
    BY MadeCalls, MadeOthers
  <2>3. ProcessLoop(b, 0, <<>>) \in Calls /\ ProcessLoop(b, 0, <<>>).index = 0
    <3>1. PICK u \in Calls : u = ProcessLoop(b, 0, <<>>)
      BY StartedProcess
    <3>2. u.index = 0
      BY <3>1, MadeProcess
    <3> QED BY <3>1, <3>2
  <2> QED BY <2>1, <2>2, <2>3
<1>4. \A n \in Depths' : At(n, "process")' => stack'[n].index = 0
  <2>1. CASE stack' = Pop
    <3>1. Leaves
      BY <1>1, <2>1, PopFacts
    <3> QED BY <1>1, <1>2, <3>1 DEF Leaves, SameBelow, At, Depths
  <2>2. ASSUME NEW a \in Calls, stack' = Top(a), a.at = "process" => a.index = 0
        PROVE  \A n \in Depths' : At(n, "process")' => stack'[n].index = 0
    <3>1. Becomes(a)
      BY <1>1, <2>2, TopFacts
    <3> QED BY <1>1, <1>2, <2>2, <3>1 DEF Becomes, SameBelow, At, Depths
  <2> QED BY <1>3, <2>1, <2>2
<1> QED BY <1>4 DEF Handled, At, Depths

\* The agreement with the reference is kept by process_frame that swaps the
\* rebuilt array in and counts what still waits.
LEMMA ProcessEndsAnswers ==
  ASSUME Answering, Answering', AnswersInv, NEW b \in Blocks, ProcessEnds(b)
  PROVE  AnswersInv'
<1>1. /\ TypesInv /\ TypesInv' /\ CallsInv /\ FieldsInv /\ PlacesInv /\ ValuesInv
  BY NoLists DEF Answering, AnswersInv
<1>2. PICK L \in Nat :
        /\ L = Len(stack) /\ L \in Depths /\ stack[L] = Innermost /\ At(L, "process")
        /\ Running("process") /\ Innermost.block = b /\ Innermost.at = "process"
        /\ ret = None /\ ret' = None /\ ~EntriesLeft /\ ~Running("block")
        /\ UNCHANGED <<answer, life, link, values, nulled, errors, response>>
  BY <1>1, Here DEF ProcessEnds, InProcessLoop, tree
<1>3. PICK es \in Seq(EntrySet) : es = Innermost.next /\ es = stack[L].next /\ ArmFrame(b, es)
  BY <1>1, <1>2, HereProcess DEF ProcessEnds, InProcessLoop
<1>4. ArrayOK(es) /\ \A j \in 1 .. Len(es) : Home(es[j].field) = b
  BY <1>1, <1>2, <1>3, NextsHome DEF FieldsInv, ArraysOK
<1>5. /\ Len(entries'[b]) = Len(es)
      /\ \A i \in 1 .. Len(es) :
           \/ es[i].state # "unarmed" /\ entries'[b][i] = es[i]
           \/ /\ es[i].state = "unarmed" /\ es[i].kind = "promise"
              /\ entries'[b][i].kind = "promise"
      /\ \A i \in 1 .. Len(es) : entries'[b][i].field = es[i].field
      /\ \A c \in Blocks : c # b => entries'[c] = entries[c]
  BY <1>1, <1>3, <1>4, ArmedEntries
<1>6. \A c \in Blocks, i \in Nat \ {0} : ~Handled(c, i)'
  BY <1>1, EndsUnhandled
<1>7. /\ \A i \in 1 .. Len(entries[b]) : Handled(b, i)
      /\ \A c \in Blocks : c # b => \A i : ~Handled(c, i)
  <2>1. Innermost.index = Len(entries[b]) /\ Len(entries[b]) \in Nat
    BY <1>1, <1>2, HereProcess DEF EntriesLeft
  <2>2. \A i \in 1 .. Len(entries[b]) : Handled(b, i)
    BY <1>2, <2>1 DEF Handled, At, Depths
  <2>3. \A n \in Depths : At(n, "process") => n = L
    BY <1>1, <1>2, OneProcess
  <2>4. \A c \in Blocks : c # b => \A i : ~Handled(c, i)
    BY <1>2, <2>3 DEF Handled, At, Depths
  <2> QED BY <2>2, <2>4
<1>8. ASSUME NEW f \in Fields, NEW n \in Depths, At(n, "process"),
             NEW i \in 1 .. Len(stack[n].next), stack[n].next[i].field = f
      PROVE  /\ i \in 1 .. Len(es) /\ es[i] = stack[n].next[i] /\ Home(f) = b
             /\ i \in 1 .. Len(entries'[b]) /\ ~Handled(b, i)' /\ entries'[b][i].field = f
             /\ stack[n].block = b
  <2>1. n = L
    BY <1>1, <1>2, <1>8, OneProcess
  <2> QED BY <1>2, <1>3, <1>4, <1>5, <1>6, <1>8, <2>1
<1>9. ASSUME NEW f \in Fields
      PROVE  ArmedStays(f)
  <2>1. SUFFICES ASSUME NEW kind \in Kinds, NEW i \in Nat, ArmedAt(f, kind, i)
                 PROVE  ArmedAt(f, kind, i)'
    BY DEF ArmedStays
  <2>2. CASE MovedAt(f, kind, i)
    <3>1. PICK n \in Depths : /\ At(n, "process") /\ stack[n].block = Home(f)
                              /\ i \in 1 .. Len(stack[n].next)
                              /\ stack[n].next[i] = Entry(f, kind, "armed")
      BY <2>2 DEF MovedAt
    <3>2. stack[n].next[i].field = f /\ stack[n].next[i].state = "armed"
      BY <3>1, MadeEntry
    <3>3. /\ i \in 1 .. Len(es) /\ es[i] = stack[n].next[i] /\ Home(f) = b
          /\ i \in 1 .. Len(entries'[b]) /\ ~Handled(b, i)'
      BY <1>8, <3>1, <3>2
    <3>4. entries'[b][i] = Entry(f, kind, "armed")
      BY <1>5, <3>1, <3>2, <3>3
    <3> QED BY <3>3, <3>4 DEF ArmedAt
  <2>3. CASE ~MovedAt(f, kind, i)
    <3>1. /\ i \in 1 .. Len(entries[Home(f)]) /\ entries[Home(f)][i] = Entry(f, kind, "armed")
          /\ ~Handled(Home(f), i)
      BY <2>1, <2>3 DEF ArmedAt
    <3>2. Home(f) \in Blocks /\ Home(f) # b
      BY <1>7, <3>1, HomeFacts
    <3>3. ~Handled(Home(f), i)'
      BY <1>6, <3>1, <3>2
    <3> QED BY <1>5, <3>1, <3>2, <3>3 DEF ArmedAt
  <2> QED BY <2>2, <2>3
<1>10. PICK T \in SUBSET Calls :
         /\ Moves(T, {})
         /\ \A t \in T : t.at # "block" /\ (t.at \in {"process", "resolve"} => t.block = b)
         /\ \A n \in Depths' : At(n, "process")' => stack'[n].next = <<>>
  <2>1. PICK T \in SUBSET Calls :
           /\ Moves(T, {}) /\ \A t \in T : t.at # "settle" /\ Onward(t)
           /\ \A n \in Depths' : At(n, "process")' => stack'[n].next = <<>>
    BY <1>1, <1>2, EndsCalls
  <2>2. \A t \in T : t.at # "block" /\ (t.at \in {"process", "resolve"} => t.block = b)
    BY <1>2, <2>1 DEF Onward
  <2> QED BY <2>1, <2>2
<1>11. life[b] = "suspended"
  BY <1>1, <1>2 DEF PlacesInv, QueueSuspended
<1>12. NothingLost'
  <2>1. SUFFICES ASSUME NEW f \in Fields, life[Home(f)] # "none", values[f] = "unset"
                 PROVE  Coming(f)' \/ Waiting(f)'
    BY <1>2 DEF NothingLost
  <2>2. Coming(f) \/ Waiting(f) \/ \E kind \in Kinds : Moved(f, kind)
    BY <1>1, <2>1 DEF PlacesInv, NothingLost
  <2>3. CASE Coming(f)
    BY <1>1, <1>2, <1>10, <2>3, ComingGoes
  <2>4. CASE Waiting(f)
    <3>1. PICK i \in 1 .. Len(entries[Home(f)]) : HeldAt(f, i) /\ ~Handled(Home(f), i)
      BY <2>4 DEF Waiting
    <3>2. Home(f) \in Blocks /\ Home(f) # b
      BY <1>7, <3>1, HomeFacts
    <3>3. ~Handled(Home(f), i)'
      BY <1>6, <3>1, <3>2
    <3> QED BY <1>5, <3>1, <3>2, <3>3 DEF Waiting, HeldAt
  <2>5. ASSUME NEW kind \in Kinds, Moved(f, kind)
        PROVE  Waiting(f)'
    <3>1. PICK n \in Depths : /\ At(n, "process")
                              /\ \E i \in 1 .. Len(stack[n].next) : stack[n].next[i].field = f
      BY <2>5 DEF Moved
    <3>2. PICK i \in 1 .. Len(stack[n].next) : stack[n].next[i].field = f
      BY <3>1
    <3>3. /\ Home(f) = b /\ i \in 1 .. Len(entries'[b]) /\ ~Handled(b, i)'
          /\ entries'[b][i].field = f
      BY <1>8, <3>1, <3>2
    <3> QED BY <3>3 DEF Waiting, HeldAt
  <2> QED BY <2>2, <2>3, <2>4, <2>5
<1>13. CallbacksHeld'
  <2>1. ASSUME NEW f \in Fields, ctx'[f] # 0
        PROVE  ArmedAt(f, "promise", ctx[f])' /\ \A c \in Blocks : IsChild(c, f) => life[c] = "none"
    <3>1. CASE ctx'[f] = ctx[f]
      <4>1. PICK i \in Nat : i = ctx[f] /\ i = ctx'[f] /\ i # 0
        BY <1>1, <2>1, <3>1 DEF TypesInv
      <4>2. ArmedAt(f, "promise", i) /\ \A c \in Blocks : IsChild(c, f) => life[c] = "none"
        BY <1>1, <4>1 DEF PlacesInv, CallbacksHeld
      <4>3. ArmedAt(f, "promise", i)'
        BY <1>9, <4>2 DEF ArmedStays, Kinds
      <4> QED BY <4>1, <4>2, <4>3
    <3>2. CASE ctx'[f] # ctx[f]
      <4>1. PICK i \in 1 .. Len(es) :
              /\ ctx'[f] = i /\ es[i].field = f /\ es[i].kind = "promise" /\ Home(f) = b
              /\ entries'[b][i] = Entry(f, "promise", "armed")
        BY <1>1, <1>3, <1>4, <3>2, ArmedEntries
      <4>2. i \in 1 .. Len(entries'[b]) /\ ~Handled(b, i)'
        BY <1>5, <1>6, <4>1
      <4>3. ArmedAt(f, "promise", i)'
        BY <4>1, <4>2 DEF ArmedAt
      <4>4. ArmedAt(f, "promise", ctx[f])'
        BY <4>1, <4>3 DEF ArmedAt, MovedAt
      <4>5. Moved(f, "promise")
        BY <1>2, <1>3, <4>1 DEF Moved
      <4>6. \A c \in Blocks : IsChild(c, f) => life[c] = "none"
        <5>1. SUFFICES ASSUME NEW c \in Blocks, IsChild(c, f)
                       PROVE  life[c] = "none"
          OBVIOUS
        <5>2. ChildOf(c, f)
          BY <5>1, ChildFacts DEF IsChild, ChildOf
        <5> QED BY <1>1, <4>5, <5>2 DEF FieldsInv, StartsOK, MayStart, MayComplete
      <4> QED BY <4>4, <4>6
    <3> QED BY <3>1, <3>2
  <2> QED BY <1>2, <2>1 DEF CallbacksHeld, IsChild
<1>14. LinksHeld'
  <2>1. ASSUME NEW c \in Blocks, NEW f \in Fields, IsChild(c, f), life[c] = "suspended"
        PROVE  ArmedAt(f, "block", link[c])'
    <3>1. PICK i \in Nat : i = link[c] /\ i = link'[c]
      BY <1>1, <1>2 DEF TypesInv
    <3>2. ret # Frame(c)
      BY <1>2, ResultFacts
    <3>3. ArmedAt(f, "block", i)
      BY <1>1, <2>1, <3>1, <3>2 DEF PlacesInv, LinksHeld
    <3>4. ArmedAt(f, "block", i)'
      BY <1>9, <3>3 DEF ArmedStays, Kinds
    <3> QED BY <3>1, <3>4
  <2> QED BY <1>2, <2>1 DEF LinksHeld, IsChild
<1>15. ReadyDone'
  <2>1. ASSUME NEW c \in Blocks, NEW i \in 1 .. Len(entries'[c]),
               entries'[c][i].kind = "block", entries'[c][i].state = "ready"
        PROVE  life[Children[entries'[c][i].field][1]] = "done"
    <3>1. CASE c = b
      <4>1. \A j \in 1 .. Len(es) : es[j].kind = "block" => es[j].state = "armed"
        BY <1>1, <1>2, <1>3 DEF PlacesInv, ReadyDone
      <4> QED BY <1>5, <2>1, <3>1, <4>1
    <3>2. CASE c # b
      BY <1>1, <1>5, <1>7, <2>1, <3>2 DEF PlacesInv, ReadyDone
    <3> QED BY <3>1, <3>2
  <2>2. ASSUME NEW n \in Depths', At(n, "process")', NEW i \in 1 .. Len(stack'[n].next)
        PROVE  FALSE
    BY <1>10, <2>2
  <2> QED BY <1>2, <2>1, <2>2 DEF ReadyDone
<1>16. QueueSuspended' /\ RootDrains'
  <2>1. \A c \in Blocks : c \in Range(ready') => c \in Range(ready) \/ c = b
    <3>1. ready' = Enqueued(b, ready) \/ ready' = ready
      BY DEF ProcessEnds
    <3>2. ready \in Seq(Blocks \cup {None})
      BY <1>1 DEF TypesInv
    <3> QED BY <3>1, <3>2, QueueFacts
  <2>2. \A c \in Blocks : c \in Range(ready') => c \in Range(ready) \/ life'[c] = "suspended"
    BY <1>2, <1>11, <2>1
  <2>3. QueueSuspended /\ RootDrains
    BY <1>1 DEF PlacesInv
  <2>4. \A t \in T : t.at \in {"process", "resolve"} =>
           t.block \in Blocks /\ life'[t.block] = "suspended"
    BY <1>2, <1>10, <1>11
  <2> QED BY <1>1, <1>2, <1>10, <2>2, <2>3, <2>4, QueueKeeps
<1>17. PlacesInv'
  BY <1>12, <1>13, <1>14, <1>15, <1>16 DEF PlacesInv
<1>18. ValuesInv'
  BY <1>1, <1>2, QuietValues
<1> QED BY <1>17, <1>18 DEF AnswersInv

\* A frame that resolves leaves every field it does not answer where it was:
\* resolve_frame stores only in the entry of its own parent, and takes itself off
\* the ready queue.
LEMMA ResolvedPlaces ==
  ASSUME Answering, Answering', PlacesInv, Running("resolve"), NEW b \in Blocks,
         Innermost.block = b, stack' = Pop, ret' = ret, life' = [life EXCEPT ![b] = "done"],
         UNCHANGED <<link, ctx, values>>,
         \A c \in Blocks :
           /\ Len(entries'[c]) = Len(entries[c])
           /\ \A i \in 1 .. Len(entries[c]) :
                /\ entries'[c][i].field = entries[c][i].field
                /\ entries'[c][i] = entries[c][i] \/ IsChild(b, entries[c][i].field),
         \A c \in Blocks : c \in Range(ready') =>
           c # b /\ (c \in Range(ready) \/ life[c] = "suspended")
  PROVE  PlacesInv'
<1>1. /\ TypesInv /\ TypesInv' /\ CallsInv /\ FieldsInv /\ LivesInv
      /\ NothingLost /\ CallbacksHeld /\ LinksHeld /\ QueueSuspended /\ RootDrains
  BY NoLists DEF Answering, PlacesInv
<1>2. PICK L \in Nat : L = Len(stack)
  BY <1>1, InnermostFacts
<1>3. /\ ret = None /\ stack # <<>> /\ ~Running("process") /\ ~Running("block")
      /\ Innermost.at = "resolve" /\ L \in Depths /\ At(L, "resolve") /\ stack[L] = Innermost
  BY <1>1, <1>2, Here, OneProcess
<1>4. Leaves
  BY <1>1, <1>3, PopFacts
<1>5. Moves({}, {})
  BY <1>1, <1>3, <1>4, ReturnsQuietly
<1>6. ProcessesStay
  BY <1>1, <1>3, <1>5, MovesStay
<1>7. life[b] = "suspended"
  BY <1>1, <1>3 DEF QueueSuspended
<1>8. life'[b] = "done" /\ \A c \in Blocks : c # b => life'[c] = life[c]
  BY <1>1 DEF TypesInv
<1>9. \A f \in Fields : Coming(f) => Coming(f)'
  BY <1>1, <1>3, <1>5, ComingGoes
<1>10. EntriesHold
  <2>1. \A c \in Blocks : Len(entries[c]) \in Nat
    BY <1>1 DEF TypesInv
  <2> QED BY <2>1 DEF EntriesHold
<1>11. ReadyStays
  <2>1. ASSUME NEW c \in Blocks, NEW i \in 1 .. Len(entries'[c])
        PROVE  \/ i \in 1 .. Len(entries[c]) /\ entries'[c][i] = entries[c][i]
               \/ life'[Children[entries'[c][i].field][1]] = "done"
    BY <1>8, <2>1 DEF IsChild
  <2>2. \A c \in Blocks : life[c] = "done" => life'[c] = "done"
    BY <1>8
  <2> QED BY <2>1, <2>2 DEF ReadyStays
<1>12. \A f \in Fields : ~IsChild(b, f) => ArmedStays(f)
  <2>1. SUFFICES ASSUME NEW f \in Fields, ~IsChild(b, f)
                 PROVE  ArmedStays(f)
    OBVIOUS
  <2>2. \A i \in 1 .. Len(entries[Home(f)]) : entries[Home(f)][i].field = f =>
          i \in 1 .. Len(entries'[Home(f)]) /\ entries'[Home(f)][i] = entries[Home(f)][i]
    BY <2>1, HomeFacts
  <2> QED BY <1>1, <1>6, <2>2, ArmedKeeps
<1>13. QueueSuspended' /\ RootDrains'
  <2>1. \A n \in Depths' : n \in Depths /\ n # L /\ stack'[n] = stack[n]
    BY <1>1, <1>2, <1>3, <1>4 DEF Leaves, SameBelow, Depths
  <2>2. \A n \in Depths' : ~(At(n, "process")' \/ At(n, "resolve")')
    <3>1. SUFFICES ASSUME NEW n \in Depths', At(n, "process")' \/ At(n, "resolve")'
                   PROVE  FALSE
      OBVIOUS
    <3>2. At(n, "process") \/ At(n, "resolve")
      BY <2>1, <3>1 DEF At
    <3> QED BY <1>1, <1>3, <2>1, <3>1, <3>2, OneProcess
  <2>3. \A c \in Blocks : c \in Range(ready') => life'[c] = "suspended"
    BY <1>1, <1>8 DEF QueueSuspended
  <2>4. QueueSuspended'
    BY <1>3, <2>2, <2>3 DEF QueueSuspended
  <2>5. RootDrains'
    BY <1>1, <2>1 DEF RootDrains, At
  <2> QED BY <2>4, <2>5
<1>14. \A f \in Fields : ctx'[f] # 0 =>
         /\ ctx'[f] = ctx[f] /\ ArmedStays(f)
         /\ \A c \in Blocks : IsChild(c, f) => life'[c] = "none"
  <2>1. SUFFICES ASSUME NEW f \in Fields, ctx'[f] # 0
                 PROVE  /\ ctx'[f] = ctx[f] /\ ArmedStays(f)
                        /\ \A c \in Blocks : IsChild(c, f) => life'[c] = "none"
    OBVIOUS
  <2>2. \A c \in Blocks : IsChild(c, f) => life[c] = "none"
    BY <1>1, <2>1 DEF CallbacksHeld
  <2> QED BY <1>7, <1>8, <1>12, <2>1, <2>2
<1>15. \A f \in Fields : \A c \in Blocks : IsChild(c, f) /\ life'[c] = "suspended" =>
         life[c] = "suspended" /\ ret # Frame(c) /\ link'[c] = link[c] /\ ArmedStays(f)
  <2>1. SUFFICES ASSUME NEW f \in Fields, NEW c \in Blocks, IsChild(c, f),
                        life'[c] = "suspended"
                 PROVE  /\ life[c] = "suspended" /\ ret # Frame(c) /\ link'[c] = link[c]
                        /\ ArmedStays(f)
    OBVIOUS
  <2>2. c # b /\ life[c] = "suspended"
    BY <1>8, <2>1
  <2>3. ~IsChild(b, f)
    BY <2>1, <2>2 DEF IsChild
  <2>4. ret # Frame(c)
    BY <1>3, ResultFacts
  <2> QED BY <1>12, <2>2, <2>3, <2>4
<1>16. \A f \in Fields : life[Home(f)] = "none" => life'[Home(f)] = "none"
  BY <1>7, <1>8, HomeFacts
<1> QED BY <1>1, <1>6, <1>9, <1>10, <1>11, <1>13, <1>14, <1>15, <1>16, PlacesGo

\* The response values do not change when a frame resolves; a root that does is
\* what the response reports (resolve_frame).
LEMMA ResolvedValues ==
  ASSUME Answering, Answering', ValuesInv, NEW b \in Blocks, life[b] = "suspended",
         ret' = None, life' = [life EXCEPT ![b] = "done"],
         UNCHANGED <<answer, values, nulled, errors>>,
         \/ b \notin Roots /\ response' = response
         \/ b \in Roots /\ response' = IF nulled[b] THEN "null" ELSE "data"
  PROVE  ValuesInv'
<1>1. TypesInv /\ TypesInv' /\ RootsInv
  BY DEF Answering
<1>2. life'[b] = "done" /\ \A c \in Blocks : c # b => life'[c] = life[c]
  BY <1>1 DEF TypesInv
<1>3. Roots \subseteq Blocks
  BY TypesAssumption
<1>4. CASE b \notin Roots
  BY <1>1, <1>2, <1>3, <1>4, QuietValues
<1>5. CASE b \in Roots
  <2>1. \A c \in Roots : life[c] # "none" => c = b
    BY <1>1, <1>5, OneRoot
  <2> QED BY <1>1, <1>2, <1>3, <1>5, <2>1, QuietValues
<1> QED BY <1>4, <1>5

\* The agreement with the reference is kept by resolve_frame that stores a
\* block's outcome in its parent and enqueues it.
LEMMA ResolveFrameAnswers ==
  ASSUME Answering, Answering', AnswersInv, NEW b \in Blocks, ResolveFrame(b)
  PROVE  AnswersInv'
<1>1. /\ TypesInv /\ TypesInv' /\ CallsInv /\ FieldsInv /\ LivesInv /\ PlacesInv /\ ValuesInv
      /\ (\A c : ~Adopted(c)) /\ Lists = {} /\ Items = {}
  BY NoLists DEF Answering, AnswersInv
<1>2. /\ Running("resolve") /\ Innermost.block = b /\ Innermost.at = "resolve"
      /\ stack # <<>> /\ ret = None /\ ret' = ret /\ ~Running("process") /\ ~Running("block")
      /\ life' = [life EXCEPT ![b] = "done"]
      /\ UNCHANGED <<answer, link, ctx, values, nulled>>
  BY <1>1, Here, OneProcess DEF ResolveFrame
<1>3. PICK L \in Depths : At(L, "resolve") /\ stack[L] = Innermost
  BY <1>1, <1>2, Here
<1>4. life[b] = "suspended" /\ Resolving(b)
  BY <1>1, <1>2, <1>3 DEF PlacesInv, QueueSuspended, Resolving
<1>5. entries[b] = <<>>
  BY <1>1, <1>4 DEF LivesInv, DoneEmpty
<1>6. /\ \A c \in Blocks : c \in Range(Dequeued(b)) => c \in Range(ready) /\ c # b
      /\ Dequeued(b) \in Seq(Blocks \cup {None})
  <2>1. None \notin Blocks /\ ready \in Seq(Blocks \cup {None})
    BY <1>1, TypesAssumption DEF TypesInv
  <2>2. Dequeued(b) \in Seq(Blocks \cup {None})
    BY <1>1, DequeuedFacts
  <2>3. \A i \in 1 .. Len(Dequeued(b)) :
          \/ Dequeued(b)[i] = None
          \/ Dequeued(b)[i] # b /\ \E j \in 1 .. Len(ready) : Dequeued(b)[i] = ready[j]
    BY <2>1 DEF Dequeued
  <2>4. /\ \A c : c \in Range(Dequeued(b)) <=> \E i \in 1 .. Len(Dequeued(b)) : c = Dequeued(b)[i]
        /\ \A c : c \in Range(ready) <=> \E i \in 1 .. Len(ready) : c = ready[i]
    BY <2>1, <2>2 DEF Range
  <2> QED BY <2>1, <2>2, <2>3, <2>4
<1>7. CASE \E f \in Fields \ Lists :
             /\ b \in Range(Children[f])
             /\ ResolveIntoParent(b, CHOOSE g \in Fields : b \in Range(Children[g]))
             /\ UNCHANGED <<lists, errors, draining, response>>
  <2>1. PICK f \in Fields :
          f = (CHOOSE g \in Fields : b \in Range(Children[g])) /\ b \in Range(Children[f])
    BY <1>7
  <2>2. PICK p \in Blocks : p = Home(f)
    BY HomeFacts
  <2>3. ResolveIntoParent(b, f) /\ response' = response /\ errors' = errors
    BY <1>7, <2>1
  <2>4. IsChild(b, f)
    <3>1. Children[f] \in Seq(Blocks) /\ Len(Children[f]) \in Nat /\ Len(Children[f]) <= 1
      BY <1>1, ChildFacts, TreeAssumption
    <3>2. PICK i \in 1 .. Len(Children[f]) : Children[f][i] = b
      BY <2>1, <3>1 DEF Range
    <3>3. i = 1 /\ Children[f] # <<>>
      BY <3>1, <3>2
    <3> QED BY <1>1, <3>2, <3>3 DEF IsChild
  <2>5. b \notin Roots
    BY <2>4, OneChild
  <2>6. stack' = Pop
    BY <2>3 DEF ResolveIntoParent
  <2>7. PICK k \in Nat : k = link[b]
    BY <1>1 DEF TypesInv
  <2>8. k \in 1 .. Len(entries[p]) /\ entries[p][k] = Entry(f, "block", "armed")
    <3>1. ret # Frame(b)
      BY <1>2, ResultFacts
    <3>2. ArmedAt(f, "block", k)
      BY <1>1, <1>4, <2>4, <2>7, <3>1 DEF PlacesInv, LinksHeld
    <3>3. \A n \in Depths : ~At(n, "process")
      <4>1. \A n \in Depths : At(n, "process") => n = L /\ At(L, "process")
        BY <1>1, <1>3, OneProcess
      <4> QED BY <1>2, <1>3, <4>1 DEF At
    <3>4. ~MovedAt(f, "block", k)
      BY <3>3 DEF MovedAt
    <3> QED BY <2>2, <3>2, <3>4 DEF ArmedAt
  <2>9. entries' = [entries EXCEPT ![p] = Stored(entries[p], k)]
    BY <2>2, <2>3, <2>7, <2>8 DEF ResolveIntoParent
  <2>10. /\ \A c \in Blocks : c # p => entries'[c] = entries[c]
         /\ Len(entries'[p]) = Len(entries[p])
         /\ \A j \in 1 .. Len(entries[p]) :
              /\ entries'[p][j].field = entries[p][j].field
              /\ entries'[p][j].kind = entries[p][j].kind
              /\ j # k => entries'[p][j] = entries[p][j]
    <3>1. TypesInv
      BY <1>1
    <3>2. k \in 1 .. Len(entries[p])
      BY <2>8
    <3>3. OthersKeep(p, k)
      BY <2>9, <3>1, <3>2, StoredInKeeps
    <3> QED BY <3>3 DEF OthersKeep
  <2>11. entries[p][k].field = f
    BY <2>8, MadeEntry
  <2>12. \A c \in Blocks :
           /\ Len(entries'[c]) = Len(entries[c])
           /\ \A i \in 1 .. Len(entries[c]) :
                /\ entries'[c][i].field = entries[c][i].field
                /\ entries'[c][i] = entries[c][i] \/ IsChild(b, entries[c][i].field)
    BY <2>4, <2>10, <2>11
  <2>13. \A c \in Blocks : c \in Range(ready') =>
           c # b /\ (c \in Range(ready) \/ life[c] = "suspended")
    <3>1. CASE Executing(p)
      <4>1. ready' = Dequeued(b)
        BY <2>2, <2>3, <3>1 DEF ResolveIntoParent
      <4> QED BY <1>6, <4>1
    <3>2. CASE ~Executing(p)
      <4>1. ready' = Enqueued(p, Dequeued(b)) \/ ready' = Dequeued(b)
        BY <2>2, <2>3 DEF ResolveIntoParent
      <4>2. life[p] # "none"
        <5>1. 1 \in 1 .. Len(Children[f]) /\ Children[f][1] = b
          BY <2>4, ChildFacts DEF IsChild
        <5> QED BY <1>1, <1>4, <2>2, <5>1 DEF FieldsInv, EnteredOK, StartedOK
      <4>3. Rests(p)
        BY <1>1, <3>2, <4>2, NotExecutingRests
      <4>4. entries[p] # <<>>
        BY <2>8
      <4>5. life[p] = "suspended" /\ p # b
        BY <1>1, <1>5, <4>3, <4>4 DEF Rests, LivesInv, DoneEmpty
      <4>6. \A c : c \in Range(Enqueued(p, Dequeued(b))) => c \in Range(Dequeued(b)) \/ c = p
        BY <1>6, QueueFacts
      <4> QED BY <1>6, <4>1, <4>5, <4>6
    <3> QED BY <3>1, <3>2
  <2>14. PlacesInv'
    BY <1>1, <1>2, <2>6, <2>12, <2>13, ResolvedPlaces
  <2>15. ValuesInv'
    BY <1>1, <1>2, <1>4, <2>3, <2>5, ResolvedValues
  <2> QED BY <2>14, <2>15 DEF AnswersInv
<1>8. CASE /\ b \in Roots
           /\ response' = IF nulled[b] THEN "null" ELSE "data"
           /\ stack' = Pop
           /\ ready' = Dequeued(b)
           /\ UNCHANGED <<entries, unresolved, lists, errors, draining>>
  <2>1. \A c \in Blocks :
          /\ Len(entries'[c]) = Len(entries[c])
          /\ \A i \in 1 .. Len(entries[c]) :
               /\ entries'[c][i].field = entries[c][i].field
               /\ entries'[c][i] = entries[c][i] \/ IsChild(b, entries[c][i].field)
    BY <1>8
  <2>2. PlacesInv'
    BY <1>1, <1>2, <1>6, <1>8, <2>1, ResolvedPlaces
  <2>3. ValuesInv'
    BY <1>1, <1>2, <1>4, <1>8, ResolvedValues
  <2> QED BY <2>2, <2>3 DEF AnswersInv
<1> QED BY <1>1, <1>7, <1>8 DEF ResolveFrame

-----------------------------------------------------------------------------
(* Every step                                                              *)

\* At the start nothing is written, so that everything written agrees with
\* the reference.
LEMMA InitAnswers ==
  ASSUME Lists = {}, Init
  PROVE  AnswersInv
<1>1. PICK root \in Roots :
        /\ life = [b \in Blocks |-> IF b = root THEN "running" ELSE "none"]
        /\ stack = <<OpLoop(root, 0)>>
  BY DEF Init
<1>2. root \in Blocks /\ OpLoop(root, 0) \in Calls
  BY TypesAssumption, MadeCalls
<1>3. PICK a \in Calls : a = OpLoop(root, 0)
  BY <1>2
<1>4. a.at = "block" /\ a.block = root /\ a.index = 0
  BY <1>3, MadeBlock
<1>5. Len(stack) = 1 /\ stack[1] = a
  BY <1>1, <1>3
<1>6. /\ Depths = {1} /\ (\A n, at : At(n, at) <=> n = 1 /\ at = "block")
      /\ stack[1].block = root /\ stack[1].index = 0
  BY <1>4, <1>5 DEF Depths, At
<1>7. /\ \A b \in Blocks : life[b] = IF b = root THEN "running" ELSE "none"
      /\ \A b \in Blocks : entries[b] = <<>> /\ Len(entries[b]) = 0
      /\ \A f \in Fields : ctx[f] = 0 /\ values[f] = "unset"
      /\ \A b \in Blocks : nulled[b] = FALSE
      /\ ret = None /\ response = None
  BY <1>1 DEF Init
<1>8. Range(ready) = {}
  BY DEF Init, Range
<1>9. \A b \in Blocks : Len(Ops[b]) \in Nat
  BY TypesAssumption
<1>10. PlacesInv
  <2>1. NothingLost
    <3>1. SUFFICES ASSUME NEW f \in Fields, life[Home(f)] # "none"
                   PROVE  Coming(f)
      BY DEF NothingLost
    <3>2. Home(f) = root
      BY <1>7, <3>1, HomeFacts
    <3>3. PICK i \in 1 .. Len(Ops[root]) : Ops[root][i] = f
      BY <3>2, HomeFacts
    <3>4. i > 0
      BY <1>2, <1>9
    <3> QED BY <1>6, <3>3, <3>4 DEF Coming
  <2>2. CallbacksHeld
    BY <1>7 DEF CallbacksHeld
  <2>3. LinksHeld
    BY <1>7 DEF LinksHeld
  <2>4. ReadyDone
    BY <1>6, <1>7 DEF ReadyDone
  <2>5. QueueSuspended
    BY <1>6, <1>7, <1>8 DEF QueueSuspended
  <2>6. RootDrains
    BY <1>2, <1>6, <1>9 DEF RootDrains
  <2> QED BY <2>1, <2>2, <2>3, <2>4, <2>5, <2>6 DEF PlacesInv
<1>11. ValuesInv
  <2>1. Asked
    BY <1>7, OneChild DEF Asked
  <2>2. NullsOK
    BY <1>7, OpsFacts DEF NullsOK
  <2>3. RecordsOK
    <3>1. \A e \in {"raised", "nonnull"} \X Positions : errors[e] = 0
      BY DEF Init
    <3>2. \A f \in Fields : /\ <<"raised", f>> \in {"raised", "nonnull"} \X Positions
                            /\ <<"nonnull", f>> \in {"raised", "nonnull"} \X Positions
      BY DEF Positions
    <3>3. \A f \in Fields : errors[<<"raised", f>>] = 0 /\ errors[<<"nonnull", f>>] = 0
      BY <3>1, <3>2
    <3> QED BY <1>7, <3>3 DEF RecordsOK
  <2>4. Responded
    <3>1. Roots \subseteq Blocks
      BY TypesAssumption
    <3> QED BY <1>7, <3>1 DEF Responded
  <2> QED BY <1>7, <2>1, <2>2, <2>3, <2>4 DEF ValuesInv, Returned, Written
<1> QED BY <1>10, <1>11 DEF AnswersInv

\* Every step keeps the invariants this module builds on.
LEMMA StepAnswering ==
  ASSUME Answering, Next
  PROVE  Answering'
<1>1. TypesInv /\ CallsInv /\ FieldsInv /\ LivesInv /\ RootsInv /\ Lists = {}
  BY DEF Answering
<1>2. RootsInv'
  BY <1>1, StepRoots, SameRoots
<1>3. LivesInv'
  BY <1>1, StepLives
<1> QED BY <1>1, <1>2, <1>3, StepCalls, StepFields DEF Answering

\* Every step keeps the agreement with the reference.
LEMMA StepAnswers ==
  ASSUME Answering, AnswersInv, Next
  PROVE  AnswersInv'
<1>0. Answering'
  BY StepAnswering
<1>1. ASSUME NEW b \in Blocks, ResolverReturnsValue(b) PROVE AnswersInv'
  BY <1>0, <1>1, ResolverReturnsValueAnswers
<1>2. ASSUME NEW b \in Blocks, ResolverReturnsPromise(b) PROVE AnswersInv'
  BY <1>0, <1>2, ResolverReturnsPromiseAnswers
<1>3. ASSUME NEW b \in Blocks, BlockTakesResult(b) PROVE AnswersInv'
  BY <1>0, <1>3, BlockTakesResultAnswers
<1>4. ASSUME NEW b \in Blocks, FinalizeComplete(b) PROVE AnswersInv'
  BY <1>0, <1>4, FinalizeCompleteAnswers
<1>5. ASSUME NEW b \in Blocks, FinalizeSuspends(b) PROVE AnswersInv'
  BY <1>0, <1>5, FinalizeSuspendsAnswers
<1>6. ASSUME NEW b \in Blocks, FinalizeReturns(b) PROVE AnswersInv'
  BY <1>0, <1>6, FinalizeReturnsAnswers
<1>7. ASSUME NEW b \in Blocks, ProcessMoves(b) PROVE AnswersInv'
  BY <1>0, <1>7, ProcessMovesAnswers
<1>8. ASSUME NEW b \in Blocks, ProcessConsumes(b) PROVE AnswersInv'
  BY <1>0, <1>8, ProcessConsumesAnswers
<1>9. ASSUME NEW b \in Blocks, ProcessTakesResult(b) PROVE AnswersInv'
  BY <1>0, <1>9, ProcessTakesResultAnswers
<1>10. ASSUME NEW b \in Blocks, ProcessEnds(b) PROVE AnswersInv'
  BY <1>0, <1>10, ProcessEndsAnswers
<1>11. ASSUME NEW b \in Blocks, ResolveFrame(b) PROVE AnswersInv'
  BY <1>0, <1>11, ResolveFrameAnswers
<1>12. ASSUME NEW f \in Fields, SettleEntry(f) PROVE AnswersInv'
  BY <1>0, <1>12, SettleEntryAnswers
<1>13. CASE DrainNext
  BY <1>0, <1>13, DrainNextAnswers
<1>14. CASE SettleReturns
  BY <1>0, <1>14, SettleReturnsAnswers
<1>15. ASSUME NEW p \in Promises, SettlePromise(p) PROVE AnswersInv'
  BY <1>0, <1>15, SettlePromiseAnswers
<1>16. CASE Delivered
  BY <1>0, <1>16, SameAnswers DEF Delivered
<1>17. \A f : ~(\/ ItemIsValue(f) \/ ItemIsPromise(f) \/ ListTakesResult(f)
                \/ ListComplete(f) \/ ListPends(f))
  BY NoLists DEF ItemIsValue, ItemIsPromise, ListTakesResult, ListComplete, ListPends,
    InItemLoop
<1>18. (\A b : ~SettleItem(b)) /\ ~SettleTakesResult
  BY NoLists DEF SettleItem, SettleTakesResult
<1> QED BY <1>1, <1>2, <1>3, <1>4, <1>5, <1>6, <1>7, <1>8, <1>9, <1>10, <1>11, <1>12, <1>13,
           <1>14, <1>15, <1>16, <1>17, <1>18
        DEF Next, EngineStep

\* Without lists, the places of the fields and the values they are given stay
\* consistent through every step.
LEMMA AnswersHold ==
  ASSUME Lists = {}
  PROVE  Spec => [](Answering /\ AnswersInv)
<1>1. Init => Answering /\ AnswersInv
  BY InitCalls, InitFields, InitLives, InitRoots, InitAnswers DEF Answering
<1>2. Answering /\ AnswersInv /\ Next => (Answering /\ AnswersInv)'
  BY StepAnswering, StepAnswers
<1>3. Answering /\ AnswersInv /\ UNCHANGED vars => (Answering /\ AnswersInv)'
  <2>1. SUFFICES ASSUME Answering, AnswersInv, UNCHANGED vars
                 PROVE  (Answering /\ AnswersInv)'
    OBVIOUS
  <2>2. RootsStay
    BY <2>1 DEF RootsStay, vars
  <2>3. Answering'
    BY <2>1, <2>2, SameCalls, SameFields, SameLives, SameRoots DEF Answering
  <2> QED BY <2>1, <2>3, SameAnswers
<1> QED BY <1>1, <1>2, <1>3, PTL DEF Spec

-----------------------------------------------------------------------------
(* The response                                                            *)

\* The operation that is executed is that of the one root that has started.
LEMMA ExecutedFacts ==
  ASSUME RootsInv
  PROVE  /\ Executed \in Roots /\ life[Executed] # "none"
         /\ \A b \in Roots : life[b] # "none" => b = Executed
BY DEF RootsInv, Executed

\* Without lists, the parent of a block that is no root is an object field.
LEMMA HasParent ==
  ASSUME Lists = {}, NEW b \in Blocks, b \notin Roots
  PROVE  \E f \in Fields : IsChild(b, f)
<1>1. PICK f \in Fields : b \in Range(Children[f])
  BY NestingAssumption
<1>2. Children[f] \in Seq(Blocks) /\ Len(Children[f]) \in Nat /\ Len(Children[f]) <= 1
  BY ChildFacts, TreeAssumption
<1>3. PICK i \in 1 .. Len(Children[f]) : Children[f][i] = b
  BY <1>1, <1>2 DEF Range
<1>4. i = 1 /\ Children[f] # <<>>
  BY <1>2, <1>3
<1> QED BY <1>3, <1>4 DEF IsChild

\* A child's field has it in its list of children, and at its one position.
LEMMA ChildIsIn ==
  ASSUME Lists = {}, NEW b \in Blocks, NEW f \in Fields
  PROVE  b \in Range(Children[f]) <=> IsChild(b, f)
<1>1. Children[f] \in Seq(Blocks) /\ Len(Children[f]) \in Nat /\ Len(Children[f]) <= 1
  BY ChildFacts, TreeAssumption
<1>2. b \in Range(Children[f]) <=> \E i \in 1 .. Len(Children[f]) : Children[f][i] = b
  BY <1>1 DEF Range
<1> QED BY <1>1, <1>2 DEF IsChild

\* A block whose execution has started is one that the answers ask for.
LEMMA StartedIsSelected ==
  ASSUME Answering, AnswersInv
  PROVE  \A b \in Blocks : life[b] # "none" => Selected[b]
<1>1. /\ Lists = {} /\ Items = {} /\ FieldsInv /\ RootsInv /\ Asked
  BY NoLists DEF Answering, AnswersInv, ValuesInv
<1>2. PICK S \in SUBSET Blocks : S = {b \in Blocks : life[b] # "none" /\ ~Selected[b]}
  OBVIOUS
<1>3. SUFFICES ASSUME S # {} PROVE FALSE
  BY <1>2
<1>4. PICK b \in S : \A f \in Fields : b \in Range(Children[f]) => Home(f) \notin S
  BY <1>2, <1>3, NestingAssumption
<1>5. b \in Blocks /\ life[b] # "none" /\ ~Selected[b]
  BY <1>2, <1>4
<1>6. b \notin Roots
  BY <1>1, <1>5, ExecutedFacts, SelectedEquations
<1>7. PICK f \in Fields : IsChild(b, f)
  BY <1>1, <1>5, <1>6, HasParent
<1>8. b \in Range(Children[f]) /\ answer[f] = "value"
  BY <1>1, <1>5, <1>7, ChildIsIn DEF Asked
<1>9. life[Home(f)] # "none"
  <2>1. 1 \in 1 .. Len(Children[f]) /\ Children[f][1] = b
    BY <1>7, ChildFacts DEF IsChild
  <2> QED BY <1>1, <1>5, <2>1 DEF FieldsInv, EnteredOK, StartedOK
<1>10. Selected[Home(f)]
  <2>1. Home(f) \in Blocks /\ Home(f) \notin S
    BY <1>4, <1>8, HomeFacts
  <2> QED BY <1>2, <1>9, <2>1
<1> QED BY <1>1, <1>5, <1>8, <1>10, SelectedEquations

\* When the response is delivered, every block the answers ask for is done.
LEMMA SelectedIsDone ==
  ASSUME Answering, AnswersInv, response # None
  PROVE  /\ life[Executed] = "done"
         /\ \A b \in Blocks : Selected[b] => life[b] = "done"
<1>1. Lists = {} /\ Items = {} /\ RootsInv /\ Responded /\ Written
  BY NoLists DEF Answering, AnswersInv, ValuesInv
<1>2. life[Executed] = "done"
  <2>1. PICK b \in Roots : life[b] = "done"
    BY <1>1 DEF Responded
  <2> QED BY <1>1, <2>1, ExecutedFacts
<1>3. PICK S \in SUBSET Blocks : S = {b \in Blocks : Selected[b] /\ life[b] # "done"}
  OBVIOUS
<1>4. SUFFICES ASSUME S # {} PROVE FALSE
  BY <1>2, <1>3
<1>5. PICK b \in S : \A f \in Fields : b \in Range(Children[f]) => Home(f) \notin S
  BY <1>3, <1>4, NestingAssumption
<1>6. b \in Blocks /\ Selected[b] /\ life[b] # "done"
  BY <1>3, <1>5
<1>7. PICK f \in Fields : b \in Range(Children[f]) /\ Selected[Home(f)] /\ answer[f] = "value"
  BY <1>2, <1>6, SelectedEquations
<1>8. Home(f) \in Blocks /\ life[Home(f)] = "done"
  <2>1. Home(f) \in Blocks /\ Home(f) \notin S
    BY <1>5, <1>7, HomeFacts
  <2> QED BY <1>3, <1>7, <2>1
<1>9. values[f] # "unset"
  BY <1>8, DoneIsWritten
<1>10. IsChild(b, f)
  BY <1>1, <1>6, <1>7, ChildIsIn
<1> QED BY <1>1, <1>6, <1>7, <1>9, <1>10 DEF Written

\* The fields that are written when the response is delivered are those the
\* answers ask for.
LEMMA SelectedIsWritten ==
  ASSUME Answering, AnswersInv, response # None, NEW f \in Fields
  PROVE  values[f] # "unset" <=> f \in SelectedFields
<1>1. FieldsInv /\ Home(f) \in Blocks
  BY HomeFacts DEF Answering
<1>2. CASE f \in SelectedFields
  BY <1>1, <1>2, SelectedIsDone, DoneIsWritten DEF SelectedFields
<1>3. CASE f \notin SelectedFields
  <2>1. life[Home(f)] = "none"
    BY <1>1, <1>3, StartedIsSelected DEF SelectedFields
  <2>2. MayWrite(f)
    BY <2>1 DEF MayWrite, MayHold, Untouched
  <2> QED BY <1>1, <1>3, <2>2 DEF FieldsInv, WritesOK
<1> QED BY <1>2, <1>3

\* Without lists, however the answers arrive, as values or as promises, settled in
\* any order, by the event loop or from inside a resolver, the response is the one
\* that GraphQL's non-null rule makes of the answers alone: every selected field
\* holds what the reference computes, no other field holds anything, and data is
\* null exactly when the reference nulls the root (consume_current_result_now,
\* process_frame, frame_field_enforce_nonnull, resolve_frame).
THEOREM ResponseHolds ==
  ASSUME Lists = {}
  PROVE  Spec => []ResponseIsReference
<1>1. ASSUME Answering, AnswersInv PROVE ResponseIsReference
  <2>1. SUFFICES ASSUME response # None
                 PROVE  /\ response = IF IsNull[Executed] THEN "null" ELSE "data"
                        /\ \A f \in Fields :
                             values[f] = IF f \in SelectedFields
                                         THEN IF IsNull[f] THEN "null" ELSE "value"
                                         ELSE "unset"
                        /\ SelectedItems = {}
    BY DEF ResponseIsReference
  <2>2. RootsInv /\ Responded /\ Written /\ Items = {} /\ Roots \subseteq Blocks
    BY <1>1, NoLists, TypesAssumption DEF Answering, AnswersInv, ValuesInv
  <2>3. Executed \in Roots /\ life[Executed] = "done"
    BY <1>1, <2>1, <2>2, ExecutedFacts, SelectedIsDone
  <2>4. response = IF IsNull[Executed] THEN "null" ELSE "data"
    <3>1. response = IF nulled[Executed] THEN "null" ELSE "data"
      BY <2>2, <2>3 DEF Responded
    <3>2. nulled[Executed] <=> IsNull[Executed]
      BY <1>1, <2>2, <2>3, DoneIsWritten
    <3> QED BY <3>1, <3>2
  <2>5. \A f \in Fields :
          values[f] = IF f \in SelectedFields THEN IF IsNull[f] THEN "null" ELSE "value"
                      ELSE "unset"
    BY <1>1, <2>1, <2>2, SelectedIsWritten DEF Written
  <2>6. SelectedItems = {}
    BY <2>2 DEF SelectedItems
  <2> QED BY <2>4, <2>5, <2>6
<1> QED BY <1>1, AnswersHold, PTL

\* Without lists, every failure is reported exactly once however the answers
\* arrive: one error per selected field that resolved to an error, one "Cannot
\* return null" per selected non-null field that resolved to a plain null, and none
\* for a null that propagates (frame_field_enforce_nonnull, the error records of
\* outcomes).
THEOREM ErrorsHold ==
  ASSUME Lists = {}
  PROVE  Spec => []ErrorsMatchReference
<1>1. ASSUME Answering, AnswersInv PROVE ErrorsMatchReference
  <2>1. Items = {} /\ Positions = Fields /\ RecordsOK
    BY <1>1, NoLists DEF AnswersInv, ValuesInv
  <2>2. ASSUME response # None, NEW f \in Fields
        PROVE  /\ errors[<<"raised", f>>] =
                    IF f \in SelectedFields /\ answer[f] = "error" THEN 1 ELSE 0
               /\ errors[<<"nonnull", f>>] =
                    IF f \in SelectedFields /\ f \in NonNull /\ answer[f] = "null" THEN 1 ELSE 0
    <3>1. values[f] # "unset" <=> f \in SelectedFields
      BY <1>1, <2>2, SelectedIsWritten
    <3> QED BY <2>1, <3>1 DEF RecordsOK
  <2>3. SelectedItems = {} /\ Positions \ PendedItems \subseteq Fields
    BY <2>1 DEF SelectedItems
  <2>4. ErrorsOf(Positions \ PendedItems)
    <3>1. SUFFICES ASSUME response # None, NEW x \in Positions \ PendedItems
                   PROVE  /\ errors[<<"raised", x>>] =
                               IF x \in SelectedFields \cup SelectedItems /\ answer[x] = "error"
                               THEN 1 ELSE 0
                          /\ errors[<<"nonnull", x>>] =
                               IF /\ x \in SelectedFields \cup SelectedItems
                                  /\ \/ x \in NonNull
                                     \/ x \in Items /\ ListOf(x) \in ItemNonNull
                                  /\ answer[x] = "null"
                               THEN 1 ELSE 0
      BY DEF ErrorsOf
    <3>2. x \in Fields /\ x \notin Items
      BY <2>1, <2>3, <3>1
    <3> QED BY <2>2, <2>3, <3>1, <3>2
  <2> QED BY <2>4 DEF ErrorsMatchReference
<1> QED BY <1>1, AnswersHold, PTL

-----------------------------------------------------------------------------
(* No frame is forgotten                                                   *)

\* The frame is being processed, or resolved.
InCall(b) ==
  \E n \in Depths : (At(n, "process") \/ At(n, "resolve")) /\ stack[n].block = b

\* A drain is running that has yet to come to the frame.
Queued(b) == draining /\ b \in Range(ready)

\* pending_unresolved counts the entries that are still open.
OpenEntries(es) == {i \in 1 .. Len(es) : es[i].state # "ready"}
Exact(b) == unresolved[b] = Cardinality(OpenEntries(entries[b]))

\* The finalize of a root drains for the k-th time.
Finishing(b, k) ==
  /\ b \in Roots /\ At(1, "block") /\ stack[1].block = b
  /\ stack[1].index = Len(Ops[b]) + k

\* Someone sees to it that the frame is processed once it is complete: the call
\* that does so, the drain, whoever settles what it waits for, the call that is
\* given the frame, or finalize after its drain.
Counts(b) ==
  \/ InCall(b)
  \/ Queued(b)
  \/ Exact(b) /\ (unresolved[b] > 0 \/ ret = Frame(b) \/ Finishing(b, 1))
Counted == \A b \in Blocks : life[b] = "suspended" => Counts(b)

\* A root that finalize drains holds only entries that have settled, then those of
\* the child frames it has adopted meanwhile; when it is drained once more these
\* have settled too, and it adopts no others.
DrainsOnce ==
  \A b \in Roots : Finishing(b, 1) \/ Finishing(b, 2) =>
    /\ \A i \in 1 .. Len(entries[b]) :
         \/ entries[b][i].kind = "block"
         \/ entries[b][i].state = "ready" /\ (Queued(b) \/ InCall(b))
    /\ \A n \in Depths : At(n, "process") /\ stack[n].block = b =>
         \A i \in 1 .. Len(stack[n].next) : stack[n].next[i].kind = "block"
DrainsAgain ==
  \A b \in Roots : Finishing(b, 2) =>
    /\ \A i \in 1 .. Len(entries[b]) :
         entries[b][i].kind = "block" /\ entries[b][i].state = "ready"
    /\ \A n \in Depths : At(n, "process") /\ stack[n].block = b => stack[n].next = <<>>

CountsInv == Counted /\ DrainsOnce /\ DrainsAgain

\* A frame with nothing left to resolve needs no call; the others keep theirs,
\* and a root keeps where its finalize_block stands.
Resolved(b) == life[b] # "suspended" /\ entries[b] = <<>>
CallsStay == \A b \in Blocks : InCall(b) => InCall(b)' \/ Resolved(b)'
FinishesStay == \A b \in Roots, k \in {1, 2} : Finishing(b, k)' <=> Finishing(b, k)

\* A frame in a call of process_frame or resolve_frame stays there unless it is
\* the call that goes on.
LEMMA InCallStays ==
  ASSUME TypesInv, TypesInv', NEW T, NEW U, Moves(T, U), NEW b \in Blocks, InCall(b),
         Running("process") \/ Running("resolve") =>
           \/ Innermost.block # b
           \/ Len(stack) \in Depths' /\ \A t \in T : t.at \in {"process", "resolve"} /\ t.block = b
  PROVE  InCall(b)'
<1>1. PICK n \in Depths : (At(n, "process") \/ At(n, "resolve")) /\ stack[n].block = b
  BY DEF InCall
<1>2. CASE n \in Depths' /\ stack'[n] = stack[n]
  BY <1>1, <1>2 DEF InCall, At
<1>3. CASE ~(n \in Depths' /\ stack'[n] = stack[n])
  <2>1. n = Len(stack) /\ (n \notin Depths' \/ stack'[n] \in T)
    BY <1>3 DEF Moves, CallStays
  <2>2. (Running("process") \/ Running("resolve")) /\ Innermost.block = b
    BY <1>1, <2>1, InnermostFacts DEF At, Depths, Running
  <2>3. n \in Depths' /\ stack'[n] \in T
    BY <2>1, <2>2
  <2>4. stack'[n].at \in {"process", "resolve"} /\ stack'[n].block = b
    BY <2>2, <2>3
  <2> QED BY <2>3, <2>4 DEF InCall, At
<1> QED BY <1>2, <1>3

\* The finalize of a root goes on only when it is the innermost call.
LEMMA FinishingStays ==
  ASSUME TypesInv, TypesInv', NEW T, NEW U, Moves(T, U),
         Running("block") => Innermost.index <= Len(Ops[Innermost.block]),
         \A t \in T : t.at = "block" => t.index <= Len(Ops[t.block]),
         \A u \in U : u.at = "block" => u.index = 0
  PROVE  FinishesStay
<1>1. SUFFICES ASSUME NEW b \in Roots, NEW k \in {1, 2}
               PROVE  Finishing(b, k)' <=> Finishing(b, k)
  BY DEF FinishesStay
<1>2. b \in Blocks /\ Len(Ops[b]) \in Nat /\ k \in Nat \ {0}
  BY TypesAssumption
<1>3. ASSUME Finishing(b, k) PROVE Finishing(b, k)'
  <2>1. 1 \in Depths /\ stack[1].at = "block" /\ stack[1].block = b
        /\ stack[1].index = Len(Ops[b]) + k
    BY <1>3 DEF Finishing, At
  <2>2. CASE 1 \in Depths' /\ stack'[1] = stack[1]
    BY <2>1, <2>2 DEF Finishing, At
  <2>3. CASE ~(1 \in Depths' /\ stack'[1] = stack[1])
    <3>1. Len(stack) = 1
      BY <2>1, <2>3 DEF Moves, CallStays
    <3>2. Running("block") /\ Innermost = stack[1]
      BY <2>1, <3>1, InnermostFacts DEF Running
    <3> QED BY <1>2, <2>1, <3>2
  <2> QED BY <2>2, <2>3
<1>4. ASSUME Finishing(b, k)' PROVE Finishing(b, k)
  <2>1. 1 \in Depths' /\ stack'[1].at = "block" /\ stack'[1].block = b
        /\ stack'[1].index = Len(Ops[b]) + k
    BY <1>4 DEF Finishing, At
  <2>2. stack'[1] \notin T /\ stack'[1] \notin U
    BY <1>2, <2>1
  <2>3. 1 \in Depths /\ stack'[1] = stack[1]
    BY <2>1, <2>2, MovedCall
  <2> QED BY <1>4, <2>1, <2>3 DEF Finishing, At
<1> QED BY <1>3, <1>4

\* Steps that touch no suspended frame but one someone sees to, and hand a complete
\* one that was returned to the drain.
LEMMA CountsGo ==
  ASSUME Answering, Answering', CountsInv, CallsStay, FinishesStay, NextsGrow,
         \A b \in Blocks : life'[b] = "suspended" => life[b] = "suspended" \/ Counts(b)',
         \A b \in Blocks : \/ entries'[b] = entries[b] /\ unresolved'[b] = unresolved[b]
                           \/ /\ life'[b] # "suspended" \/ Counts(b)'
                              /\ ~Finishing(b, 1) /\ ~Finishing(b, 2),
         \A b \in Blocks : Queued(b) => Queued(b)' \/ InCall(b)' \/ Resolved(b)',
         \A b \in Blocks : ret = Frame(b) /\ unresolved[b] = 0 => ret' = Frame(b) \/ Queued(b)'
  PROVE  CountsInv'
<1>1. TypesInv /\ TypesInv' /\ Counted /\ DrainsOnce /\ DrainsAgain /\ Roots \subseteq Blocks
  BY TypesAssumption DEF Answering, CountsInv
<1>2. Counted'
  <2>1. SUFFICES ASSUME NEW b \in Blocks, life'[b] = "suspended", ~Counts(b)'
                 PROVE  Counts(b)'
    BY DEF Counted
  <2>2. Counts(b)
    BY <1>1, <2>1 DEF Counted
  <2>3. CASE InCall(b)
    BY <2>1, <2>3 DEF CallsStay, Counts, Resolved
  <2>4. CASE Queued(b)
    BY <2>1, <2>4 DEF Counts, Resolved
  <2>5. CASE Exact(b) /\ (unresolved[b] > 0 \/ ret = Frame(b) \/ Finishing(b, 1))
    <3>1. entries'[b] = entries[b] /\ unresolved'[b] = unresolved[b] /\ unresolved[b] \in Nat
      BY <1>1, <2>1 DEF TypesInv
    <3>2. Exact(b)'
      BY <2>5, <3>1 DEF Exact
    <3>3. Finishing(b, 1) => Finishing(b, 1)'
      BY DEF FinishesStay, Finishing
    <3>4. unresolved[b] > 0 \/ unresolved[b] = 0
      BY <3>1
    <3> QED BY <2>5, <3>1, <3>2, <3>3, <3>4 DEF Counts
  <2> QED BY <2>2, <2>3, <2>4, <2>5 DEF Counts
<1>3. ASSUME NEW b \in Roots, Finishing(b, 1)' \/ Finishing(b, 2)'
      PROVE  /\ Finishing(b, 1) \/ Finishing(b, 2)
             /\ Finishing(b, 2)' => Finishing(b, 2)
             /\ entries'[b] = entries[b]
  BY <1>1, <1>3 DEF FinishesStay
<1>4. ASSUME NEW b \in Roots, NEW n \in Depths', At(n, "process")', stack'[n].block = b
      PROVE  \/ stack'[n].next = <<>>
             \/ /\ n \in Depths /\ At(n, "process") /\ stack[n].block = b
                /\ stack'[n].next = stack[n].next
  BY <1>4 DEF NextsGrow
<1>5. DrainsOnce'
  <2>1. SUFFICES ASSUME NEW b \in Roots, Finishing(b, 1)' \/ Finishing(b, 2)'
                 PROVE  /\ \A i \in 1 .. Len(entries'[b]) :
                             \/ entries'[b][i].kind = "block"
                             \/ entries'[b][i].state = "ready" /\ (Queued(b)' \/ InCall(b)')
                        /\ \A n \in Depths' : At(n, "process")' /\ stack'[n].block = b =>
                             \A i \in 1 .. Len(stack'[n].next) : stack'[n].next[i].kind = "block"
    BY DEF DrainsOnce
  <2>2. Finishing(b, 1) \/ Finishing(b, 2)
    BY <1>3, <2>1
  <2>3. Queued(b) \/ InCall(b) => Queued(b)' \/ InCall(b)' \/ Resolved(b)'
    BY <1>1 DEF CallsStay
  <2>4. ASSUME NEW i \in 1 .. Len(entries'[b])
        PROVE  \/ entries'[b][i].kind = "block"
               \/ entries'[b][i].state = "ready" /\ (Queued(b)' \/ InCall(b)')
    <3>1. entries'[b] = entries[b] /\ ~Resolved(b)'
      BY <1>3, <2>1, <2>4 DEF Resolved
    <3> QED BY <1>1, <2>2, <2>3, <2>4, <3>1 DEF DrainsOnce
  <2>5. ASSUME NEW n \in Depths', At(n, "process")', stack'[n].block = b,
               NEW i \in 1 .. Len(stack'[n].next)
        PROVE  stack'[n].next[i].kind = "block"
    <3>1. stack'[n].next # <<>>
      BY <2>5
    <3>2. /\ n \in Depths /\ At(n, "process") /\ stack[n].block = b
          /\ stack'[n].next = stack[n].next
      BY <1>4, <2>5, <3>1
    <3> QED BY <1>1, <2>2, <2>5, <3>2 DEF DrainsOnce
  <2> QED BY <2>4, <2>5
<1>6. DrainsAgain'
  <2>1. SUFFICES ASSUME NEW b \in Roots, Finishing(b, 2)'
                 PROVE  /\ \A i \in 1 .. Len(entries'[b]) :
                             entries'[b][i].kind = "block" /\ entries'[b][i].state = "ready"
                        /\ \A n \in Depths' : At(n, "process")' /\ stack'[n].block = b =>
                             stack'[n].next = <<>>
    BY DEF DrainsAgain
  <2>2. Finishing(b, 2) /\ entries'[b] = entries[b]
    BY <1>3, <2>1
  <2>3. ASSUME NEW n \in Depths', At(n, "process")', stack'[n].block = b
        PROVE  stack'[n].next = <<>>
    BY <1>1, <1>4, <2>2, <2>3 DEF DrainsAgain
  <2> QED BY <1>1, <2>2, <2>3 DEF DrainsAgain
<1> QED BY <1>2, <1>5, <1>6 DEF CountsInv

\* Steps that suspend no frame.
LEMMA CountsCalm ==
  ASSUME Answering, Answering', CountsInv, CallsStay, FinishesStay, NextsGrow,
         \A b \in Blocks : life'[b] = "suspended" => life[b] = "suspended",
         \A b \in Blocks : \/ entries'[b] = entries[b] /\ unresolved'[b] = unresolved[b]
                           \/ life'[b] # "suspended" /\ ~Finishing(b, 1) /\ ~Finishing(b, 2),
         \A b \in Blocks : Queued(b) => Queued(b)' \/ InCall(b)' \/ Resolved(b)',
         \A b \in Blocks : ret = Frame(b) /\ unresolved[b] = 0 => ret' = Frame(b) \/ Queued(b)'
  PROVE  CountsInv'
  BY CountsGo

\* A root whose operation loop still runs is not being finalized.
LEMMA HereUnfinished ==
  ASSUME TypesInv, CallsInv, FieldsInv, Running("block"), Innermost.index <= Len(Ops[Innermost.block])
  PROVE  ~Finishing(Innermost.block, 1) /\ ~Finishing(Innermost.block, 2)
<1>1. SUFFICES ASSUME NEW k \in {1, 2}, Finishing(Innermost.block, k) PROVE FALSE
  OBVIOUS
<1>2. PICK b \in Blocks : b = Innermost.block /\ Len(Ops[b]) \in Nat /\ k \in Nat \ {0}
  BY HereBlock
<1>3. At(1, "block") /\ stack[1].block = b /\ stack[1].index = Len(Ops[b]) + k
  BY <1>1, <1>2 DEF Finishing
<1>4. PICK L \in Depths : L = Len(stack) /\ At(L, "block") /\ stack[L] = Innermost
  BY Here
<1>5. L = 1
  BY <1>2, <1>3, <1>4 DEF FieldsInv, EnteredOK, LoopsOnce, At
<1> QED BY <1>2, <1>3, <1>4, <1>5

\* Calls that only go on keep the frames in a call there, finalize no root, and
\* rebuild no entry array.
LEMMA StepStays ==
  ASSUME TypesInv, CallsInv, TypesInv', NEW T, NEW U, Moves(T, U), StepsOK(T, U),
         ~Running("resolve"),
         Running("block") => Innermost.index <= Len(Ops[Innermost.block]),
         \A t \in T : t.at = "block" => t.index <= Len(Ops[t.block]),
         \A u \in U : u.at = "block" => u.index = 0
  PROVE  CallsStay /\ FinishesStay /\ NextsGrow
<1>1. NextsGrow
  BY StepNexts
<1>2. FinishesStay
  BY FinishingStays
<1>3. ProcessGoes(T)
  BY DEF StepsOK
<1>4. Running("process") =>
        Len(stack) \in Depths' /\ \A t \in T : t.at = "process" /\ t.block = Innermost.block
  BY <1>3 DEF ProcessGoes
<1>5. CallsStay
  <2>1. SUFFICES ASSUME NEW b \in Blocks, InCall(b)
                 PROVE  InCall(b)'
    BY DEF CallsStay
  <2> QED BY <1>4, <2>1, InCallStays
<1> QED BY <1>1, <1>2, <1>5

\* A loop over operations or entries has done one more, and a drain may start.
LEMMA AdvanceStays ==
  ASSUME TypesInv, CallsInv, TypesInv', Running("block") \/ Running("process"),
         Within(Len(stack)),
         \/ Becomes(Advanced(Innermost))
         \/ Running("block") /\ BecomesAndEnters(Advanced(Innermost), DrainLoop)
  PROVE  CallsStay /\ FinishesStay /\ NextsGrow
<1>1. PICK L \in Nat : L = Len(stack)
  BY InnermostFacts
<1>2. PICK U \in {{}, {DrainLoop}} :
        /\ U = {DrainLoop} => ~Running("process")
        /\ IF U = {} THEN Becomes(Advanced(Innermost))
           ELSE BecomesAndEnters(Advanced(Innermost), DrainLoop)
  BY Here
<1>3. PICK t \in Calls :
        /\ Moves({t}, U) /\ StepsOK({t}, U) /\ t.at = Innermost.at
        /\ t.index = Innermost.index + 1
        /\ t.at = "block" => t.block = Innermost.block
  <2>1. Running("block") \/ Running("list") \/ Running("process")
    OBVIOUS
  <2>2. U = {DrainLoop} => ~Running("process")
    BY <1>2
  <2>3. IF U = {} THEN Becomes(Advanced(Innermost))
        ELSE BecomesAndEnters(Advanced(Innermost), DrainLoop)
    BY <1>2
  <2>4. L \in Nat /\ L = Len(stack) /\ U \in {{}, {DrainLoop}}
    BY <1>1
  <2>5. \E t \in Calls :
          /\ Moves({t}, U) /\ StepsOK({t}, U) /\ t.at = Innermost.at
          /\ t.index = Innermost.index + 1 /\ Innermost.index \in Nat
          /\ t.at # "settle" /\ \A u \in U : u.at # "settle"
          /\ t.at \in {"block", "process"} => t.block = Innermost.block
          /\ t.at = "process" => t.next = Innermost.next
          /\ L \in Depths' /\ L \in Depths /\ stack'[L] = t
          /\ \A at : At(L, at)' <=> At(L, at)
    BY <2>1, <2>2, <2>3, <2>4, AdvanceSteps
  <2> QED BY <2>5
<1>4. PICK T : T = {t}
  OBVIOUS
<1>5. Moves(T, U) /\ StepsOK(T, U)
  BY <1>3, <1>4
<1>6. ~Running("resolve")
  BY Here
<1>7. Running("block") => /\ Innermost.index <= Len(Ops[Innermost.block])
                          /\ Innermost.index + 1 <= Len(Ops[Innermost.block])
  BY HereBlock
<1>8. \A x \in T : x.at = "block" => x.index <= Len(Ops[x.block])
  BY <1>3, <1>4, <1>7, InnermostFacts DEF Running
<1>9. \A u \in U : u.at = "block" => u.index = 0
  BY <1>2, MadeOthers
<1> QED BY <1>5, <1>6, <1>7, <1>8, <1>9, StepStays

\* The block of a child starts.
LEMMA EntersStays ==
  ASSUME TypesInv, CallsInv, TypesInv', Running("block") \/ Running("process"),
         Within(Len(stack)), ret = None, NEW u \in Calls, Enters(u),
         u.at = "block", u.index = 0, life[u.block] = "none", life'[u.block] # "none"
  PROVE  CallsStay /\ FinishesStay /\ NextsGrow
<1>1. Moves({}, {u})
  BY EntersMoves
<1>2. Len(stack) \in Depths'
  BY Here DEF Enters, Depths
<1>3. StepsOK({}, {u})
  BY <1>2 DEF StepsOK, Starts, ProcessGoes, NextsSame
<1>4. ~Running("resolve") /\ (Running("block") => Innermost.index <= Len(Ops[Innermost.block]))
  BY Here, HereBlock
<1> QED BY <1>1, <1>3, <1>4, StepStays

\* Completing a field, at its operation or when its entry is processed,
\* changes no array and no count.
LEMMA CompletionCounts ==
  ASSUME Answering, Answering', CountsInv, Running("block") \/ Running("process"),
         Within(Len(stack)), ret = None, NEW f \in Fields, f = FieldOf(Len(stack)),
         Running("process") => CurrentEntry.kind = "promise",
         CompleteField(Innermost.block, f, answer[f]),
         UNCHANGED <<entries, unresolved, ready, draining, ret>>
  PROVE  CountsInv'
<1>1. TypesInv /\ TypesInv' /\ CallsInv /\ FieldsInv /\ Lists = {}
  BY DEF Answering
<1>2. \A b \in Blocks : ret # Frame(b)
  BY ResultFacts
<1>3. \A b \in Blocks : Queued(b) => Queued(b)'
  BY DEF Queued
<1>4. CASE answer[f] = "value" /\ Children[f] # <<>>
  <2>1. PICK c \in Blocks : c = Children[f][1] /\ IsChild(c, f)
    BY <1>1, <1>4, ChildFacts DEF IsChild
  <2>2. stack' = Push(OpLoop(c, 0)) /\ life' = [life EXCEPT ![c] = "running"]
    BY <1>1, <1>4, <2>1 DEF CompleteField
  <2>3. life[c] = "none" /\ life'[c] = "running" /\ \A d \in Blocks : d # c => life'[d] = life[d]
    BY <1>1, <2>1, <2>2, HereUnstarted DEF TypesInv
  <2>4. PICK u \in Calls : u = OpLoop(c, 0) /\ u.at = "block" /\ u.block = c /\ u.index = 0
    <3>1. 0 \in Nat
      OBVIOUS
    <3> QED BY <3>1, MadeCalls, MadeBlock
  <2>5. Enters(u)
    BY <1>1, <2>2, <2>4, PushFacts
  <2>6. CallsStay /\ FinishesStay /\ NextsGrow
    BY <1>1, <2>3, <2>4, <2>5, EntersStays
  <2>7. \A b \in Blocks : life'[b] = "suspended" => life[b] = "suspended"
    BY <2>3
  <2> QED BY <1>2, <1>3, <2>6, <2>7, CountsCalm
<1>5. CASE ~(answer[f] = "value" /\ Children[f] # <<>>)
  <2>1. stack' = Advance /\ life' = life
    BY <1>1, <1>5 DEF CompleteField
  <2>2. Becomes(Advanced(Innermost))
    BY <1>1, <2>1, AdvanceBecomes
  <2>3. CallsStay /\ FinishesStay /\ NextsGrow
    BY <1>1, <2>2, AdvanceStays
  <2> QED BY <1>2, <1>3, <2>1, <2>3, CountsCalm
<1> QED BY <1>4, <1>5

\* Counts of waiting entries, and who is queued for them, are kept by a
\* resolver that returns a value, a null or dies.
LEMMA ResolverReturnsValueCounts ==
  ASSUME Answering, Answering', CountsInv, NEW b \in Blocks, ResolverReturnsValue(b)
  PROVE  CountsInv'
<1>1. /\ ret = None /\ Running("block") /\ Innermost.block = b
      /\ Innermost.index < Len(Ops[b])
      /\ CompleteField(b, CurrentField, answer[CurrentField])
      /\ UNCHANGED <<entries, unresolved, ready, draining, ret>>
  BY DEF ResolverReturnsValue, InOpLoop
<1>2. TypesInv /\ CallsInv
  BY DEF Answering
<1>3. Within(Len(stack)) /\ CurrentField \in Fields /\ CurrentField = FieldOf(Len(stack))
  BY <1>1, <1>2, HereBlock
<1>4. ~Running("process")
  BY <1>1, <1>2, Here
<1>5. PICK f \in Fields : f = CurrentField
  BY <1>3
<1> QED BY <1>1, <1>3, <1>4, <1>5, CompletionCounts

\* Counts of waiting entries, and who is queued for them, are kept by
\* process_frame that completes a ready entry with a value.
LEMMA ProcessConsumesCounts ==
  ASSUME Answering, Answering', CountsInv, NEW b \in Blocks, ProcessConsumes(b)
  PROVE  CountsInv'
<1>1. /\ ret = None /\ Running("process") /\ Innermost.block = b /\ EntriesLeft
      /\ UNCHANGED <<entries, unresolved, ready, draining, ret>>
  BY DEF ProcessConsumes, InProcessLoop
<1>2. TypesInv /\ TypesInv' /\ CallsInv /\ Lists = {}
  BY DEF Answering
<1>3. Within(Len(stack)) /\ CurrentEntry.field \in Fields /\ CurrentEntry.field = FieldOf(Len(stack))
  BY <1>1, <1>2, HereProcess
<1>4. PICK f \in Fields : f = CurrentEntry.field
  BY <1>3
<1>5. \/ CurrentEntry.kind = "promise" /\ CompleteField(b, f, answer[f])
      \/ stack' = Advance /\ life' = life
  BY <1>4 DEF ProcessConsumes
<1>6. CASE CurrentEntry.kind = "promise" /\ CompleteField(b, f, answer[f])
  BY <1>1, <1>3, <1>4, <1>6, CompletionCounts
<1>7. CASE stack' = Advance /\ life' = life
  <2>1. Becomes(Advanced(Innermost))
    BY <1>1, <1>2, <1>3, <1>7, AdvanceBecomes
  <2>2. CallsStay /\ FinishesStay /\ NextsGrow
    BY <1>1, <1>2, <1>3, <2>1, AdvanceStays
  <2>3. \A c \in Blocks : ret # Frame(c) /\ (Queued(c) => Queued(c)')
    BY <1>1, ResultFacts DEF Queued
  <2> QED BY <1>1, <1>7, <2>2, <2>3, CountsCalm
<1> QED BY <1>5, <1>6, <1>7

\* Counts of waiting entries, and who is queued for them, are kept by a
\* resolver that returns a promise, for which an entry is appended and armed.
LEMMA ResolverReturnsPromiseCounts ==
  ASSUME Answering, Answering', CountsInv, NEW b \in Blocks, ResolverReturnsPromise(b)
  PROVE  CountsInv'
<1>1. TypesInv /\ TypesInv' /\ CallsInv /\ FieldsInv
  BY DEF Answering
<1>2. /\ ret = None /\ Running("block") /\ Innermost.block = b
      /\ Innermost.index < Len(Ops[b])
      /\ entries' = [entries EXCEPT ![b] = Append(@, Entry(CurrentField, "promise", "unarmed"))]
      /\ stack' = Advance
      /\ UNCHANGED <<unresolved, life, ready, draining, ret>>
  BY DEF ResolverReturnsPromise, InOpLoop
<1>3. Within(Len(stack)) /\ Innermost.index <= Len(Ops[b])
  BY <1>1, <1>2, HereBlock
<1>4. Becomes(Advanced(Innermost))
  BY <1>1, <1>2, <1>3, AdvanceBecomes
<1>5. CallsStay /\ FinishesStay /\ NextsGrow
  BY <1>1, <1>2, <1>3, <1>4, AdvanceStays
<1>6. life[b] = "running" /\ ~Finishing(b, 1) /\ ~Finishing(b, 2)
  BY <1>1, <1>2, <1>3, HereLives, HereUnfinished
<1>7. \A c \in Blocks : c # b => entries'[c] = entries[c]
  BY <1>1, <1>2 DEF TypesInv
<1>8. \A c \in Blocks : ret # Frame(c) /\ (Queued(c) => Queued(c)')
  BY <1>2, ResultFacts DEF Queued
<1>9. \A c \in Blocks : \/ entries'[c] = entries[c] /\ unresolved'[c] = unresolved[c]
                        \/ life'[c] # "suspended" /\ ~Finishing(c, 1) /\ ~Finishing(c, 2)
  BY <1>2, <1>6, <1>7
<1>10. \A c \in Blocks : /\ life'[c] = "suspended" => life[c] = "suspended"
                         /\ ret = Frame(c) /\ unresolved[c] = 0 => ret' = Frame(c) \/ Queued(c)'
                         /\ Queued(c) => Queued(c)' \/ InCall(c)'
  BY <1>2, <1>8
<1> QED BY <1>5, <1>9, <1>10, CountsCalm

\* Counts of waiting entries, and who is queued for them, are kept by the
\* return of a settled promise when its callbacks have run.
LEMMA SettleReturnsCounts ==
  ASSUME Answering, Answering', CountsInv, SettleReturns
  PROVE  CountsInv'
<1>1. /\ ret = None /\ Running("settle") /\ stack' = Pop
      /\ UNCHANGED <<life, entries, unresolved, ready, draining, ret>>
  BY DEF SettleReturns, InSettleLoop, frames
<1>2. TypesInv /\ TypesInv' /\ CallsInv
  BY DEF Answering
<1>3. /\ stack # <<>> /\ Innermost.at = "settle" /\ ~Running("process") /\ ~Running("block")
      /\ ~Running("resolve")
  BY <1>1, <1>2, Here
<1>4. Moves({}, {}) /\ StepsOK({}, {})
  BY <1>1, <1>2, <1>3, PopFacts, ReturnsQuietly
<1>5. CallsStay /\ FinishesStay /\ NextsGrow
  BY <1>2, <1>3, <1>4, StepStays
<1>6. \A c \in Blocks : ret # Frame(c) /\ (Queued(c) => Queued(c)')
  BY <1>1, ResultFacts DEF Queued
<1> QED BY <1>1, <1>5, <1>6, CountsCalm

\* Counts of waiting entries, and who is queued for them, are kept by a
\* promise that settles while user code runs.
LEMMA SettlePromiseCounts ==
  ASSUME Answering, Answering', CountsInv, NEW p \in Promises, SettlePromise(p)
  PROVE  CountsInv'
<1>1. /\ \/ stack = <<>>
         \/ \E b \in Blocks : /\ ret = None /\ Running("block") /\ Innermost.block = b
                              /\ Innermost.index < Len(Ops[b])
      /\ UNCHANGED <<entries, unresolved, life, ready, draining, ret>>
  BY DEF SettlePromise, InOpLoop, frames
<1>2. TypesInv /\ TypesInv' /\ CallsInv
  BY DEF Answering
<1>3. ret = None
  BY <1>1, <1>2, OneProcess
<1>4. PICK w \in SUBSET Positions : w = subs[p]
  BY <1>2 DEF TypesInv
<1>5. PICK u \in Calls : u = SettleLoop(w, None) /\ u.at = "settle"
  BY MadeCalls, MadeSettle
<1>6. Enters(u)
  BY <1>2, <1>4, <1>5, PushFacts DEF SettlePromise
<1>7. Moves({}, {u})
  BY <1>2, <1>3, <1>6, EntersMoves
<1>8. /\ ~Running("process") /\ ~Running("resolve")
      /\ Running("block") => Innermost.index <= Len(Ops[Innermost.block])
  <2>1. CASE stack = <<>>
    BY <2>1 DEF Running
  <2>2. CASE Running("block") /\ Innermost.index < Len(Ops[Innermost.block])
    <3>1. Innermost.index \in Nat /\ Len(Ops[Innermost.block]) \in Nat
      BY <1>2, <2>2, HereBlock
    <3> QED BY <1>2, <2>2, <3>1, Here
  <2> QED BY <1>1, <2>1, <2>2
<1>9. StepsOK({}, {u})
  BY <1>5, <1>8 DEF StepsOK, Starts, ProcessGoes, NextsSame
<1>10. CallsStay /\ FinishesStay /\ NextsGrow
  BY <1>2, <1>5, <1>7, <1>8, <1>9, StepStays
<1>11. \A c \in Blocks : ret # Frame(c) /\ (Queued(c) => Queued(c)')
  BY <1>1, <1>3, ResultFacts DEF Queued
<1> QED BY <1>1, <1>10, <1>11, CountsCalm

\* A step that changes nothing keeps the counts.
LEMMA SameCounts ==
  ASSUME CountsInv, UNCHANGED vars
  PROVE  CountsInv'
<1>1. UNCHANGED <<entries, unresolved, life, ready, draining, ret, stack>>
  BY DEF vars
<1> QED BY <1>1 DEF CountsInv, Counted, DrainsOnce, DrainsAgain, Counts, InCall, Queued, Exact,
    OpenEntries, Finishing, At, Depths, Frame

\* Enqueueing a frame loses none, and starts a drain.
LEMMA EnqueuedFacts ==
  ASSUME NEW q \in Seq(Blocks \cup {None}), NEW b \in Blocks
  PROVE  \A c : c \in Range(Enqueued(b, q)) <=> c \in Range(q) \/ c = b
<1>1. CASE b \in Range(q)
  BY <1>1 DEF Enqueued
<1>2. CASE b \notin Range(q)
  <2>1. Enqueued(b, q) = Append(q, b)
    BY <1>2 DEF Enqueued
  <2>2. /\ Len(Append(q, b)) = Len(q) + 1 /\ Len(q) \in Nat
        /\ \A i \in 1 .. Len(q) : Append(q, b)[i] = q[i]
        /\ Append(q, b)[Len(q) + 1] = b
        /\ Append(q, b) \in Seq(Blocks \cup {None})
    OBVIOUS
  <2>3. /\ \A c : c \in Range(Append(q, b)) <=>
             \E i \in 1 .. Len(Append(q, b)) : c = Append(q, b)[i]
        /\ \A c : c \in Range(q) <=> \E i \in 1 .. Len(q) : c = q[i]
    BY <2>2 DEF Range
  <2>4. ASSUME NEW c, c \in Range(Append(q, b))
        PROVE  c \in Range(q) \/ c = b
    <3>1. PICK i \in 1 .. Len(Append(q, b)) : c = Append(q, b)[i]
      BY <2>3, <2>4
    <3>2. i \in 1 .. Len(q) \/ i = Len(q) + 1
      BY <2>2
    <3> QED BY <2>2, <2>3, <3>1, <3>2
  <2>5. ASSUME NEW c, c \in Range(q) \/ c = b
        PROVE  c \in Range(Append(q, b))
    <3>1. CASE c = b
      <4>1. Len(q) + 1 \in 1 .. Len(Append(q, b))
        BY <2>2
      <4> QED BY <2>2, <2>3, <3>1, <4>1
    <3>2. CASE c \in Range(q)
      <4>1. PICK i \in 1 .. Len(q) : c = q[i]
        BY <2>3, <3>2
      <4>2. i \in 1 .. Len(Append(q, b))
        BY <2>2
      <4> QED BY <2>2, <2>3, <4>1, <4>2
    <3> QED BY <2>5, <3>1, <3>2
  <2> QED BY <2>1, <2>4, <2>5
<1> QED BY <1>1, <1>2

\* enqueue_frame forgets no queued frame, and the frame enqueued is queued or
\* drained at once.
LEMMA EnqueueQueues ==
  ASSUME TypesInv, NEW wanted \in BOOLEAN, NEW b \in Blocks, NEW s,
         EnqueueAndDrain(wanted, b, ready, s)
  PROVE  /\ \A c \in Blocks : Queued(c) => Queued(c)'
         /\ wanted => Queued(b)'
<1>1. ready \in Seq(Blocks \cup {None})
  BY DEF TypesInv
<1>2. /\ ready' = IF wanted THEN Enqueued(b, ready) ELSE ready
      /\ draining' = (draining \/ wanted)
  BY DEF EnqueueAndDrain
<1> QED BY <1>1, <1>2, EnqueuedFacts DEF Queued

\* Counts of waiting entries, and who is queued for them, are kept by the
\* operation loop that takes a child's frame, list or outcome.
LEMMA BlockTakesResultCounts ==
  ASSUME Answering, Answering', CountsInv, NEW b \in Blocks, BlockTakesResult(b)
  PROVE  CountsInv'
<1>1. TypesInv /\ TypesInv' /\ CallsInv /\ FieldsInv
  BY DEF Answering
<1>2. ret # None /\ ret' = None /\ Running("block") /\ Innermost.block = b
  BY DEF BlockTakesResult
<1>3. /\ stack # <<>> /\ Within(Len(stack)) /\ ret \in Results
  BY <1>1, <1>2, Here DEF TypesInv
<1>4. ret.kind \in {"frame", "outcome"}
  BY <1>2, NoLists
<1>5. PICK t \in Calls : t = Advanced(Innermost)
  BY <1>1, <1>2, <1>3, AdvancedFacts
<1>6. CASE ret.kind = "outcome"
  <2>1. /\ stack' = Advance
        /\ UNCHANGED <<entries, unresolved, life, ready, draining>>
    BY <1>6 DEF BlockTakesResult, frames
  <2>2. Becomes(Advanced(Innermost))
    BY <1>1, <1>2, <1>3, <2>1, AdvanceBecomes
  <2>3. CallsStay /\ FinishesStay /\ NextsGrow
    BY <1>1, <1>2, <1>3, <2>2, AdvanceStays
  <2>4. \A c \in Blocks : ret # Frame(c) /\ (Queued(c) => Queued(c)')
    BY <1>6, <2>1, ResultFacts DEF Queued
  <2> QED BY <2>1, <2>3, <2>4, CountsCalm
<1>7. CASE ret.kind = "frame"
  <2>1. PICK c \in Blocks : c = ret.of
    BY <1>3, <1>7, ResultFacts
  <2>2. PICK wanted \in BOOLEAN : wanted = (unresolved[c] = 0)
    OBVIOUS
  <2>3. /\ EnqueueAndDrain(wanted, c, ready, Top(t)) /\ life' = life
        /\ \A d \in Blocks : d # b => entries'[d] = entries[d] /\ unresolved'[d] = unresolved[d]
    BY <1>1, <1>5, <1>7, <2>1, <2>2 DEF BlockTakesResult, Advance, TypesInv
  <2>4. Becomes(t) \/ BecomesAndEnters(t, DrainLoop)
    <3>1. ready \in Seq(Blocks \cup {None})
      BY <1>1 DEF TypesInv
    <3> QED BY <1>1, <1>3, <2>3, <3>1, EnqueueAndDrainFacts
  <2>5. CallsStay /\ FinishesStay /\ NextsGrow
    BY <1>1, <1>2, <1>3, <1>5, <2>4, AdvanceStays
  <2>6. life[b] = "running" /\ ~Finishing(b, 1) /\ ~Finishing(b, 2)
    <3>1. Innermost.index <= Len(Ops[b])
      BY <1>1, <1>2, <1>3, HereBlock
    <3> QED BY <1>1, <1>2, <3>1, HereLives, HereUnfinished
  <2>7. /\ \A d \in Blocks : Queued(d) => Queued(d)'
        /\ unresolved[c] = 0 => Queued(c)'
    BY <1>1, <2>2, <2>3, EnqueueQueues
  <2>8. \A d \in Blocks : ret = Frame(d) => d = c
    BY <2>1, ResultFacts
  <2>9. /\ \A d \in Blocks : life'[d] = "suspended" => life[d] = "suspended"
        /\ \A d \in Blocks :
             \/ entries'[d] = entries[d] /\ unresolved'[d] = unresolved[d]
             \/ life'[d] # "suspended" /\ ~Finishing(d, 1) /\ ~Finishing(d, 2)
    BY <2>3, <2>6
  <2>10. \A d \in Blocks : /\ Queued(d) => Queued(d)' \/ InCall(d)'
                           /\ ret = Frame(d) /\ unresolved[d] = 0 => ret' = Frame(d) \/ Queued(d)'
    BY <2>7, <2>8
  <2> QED BY <2>5, <2>9, <2>10, CountsCalm
<1> QED BY <1>4, <1>6, <1>7

\* Counts of waiting entries, and who is queued for them, are kept by
\* finalize_block of a block nothing of which is pending.
LEMMA FinalizeCompleteCounts ==
  ASSUME Answering, Answering', CountsInv, NEW b \in Blocks, FinalizeComplete(b)
  PROVE  CountsInv'
<1>1. /\ ret = None /\ Running("block") /\ Innermost.block = b
      /\ Innermost.index = Len(Ops[b]) + 0
      /\ life' = [life EXCEPT ![b] = "done"]
      /\ UNCHANGED <<entries, unresolved, ready, draining>>
      /\ stack' = Pop
      /\ b \notin Roots => ret' = Outcome(nulled[b])
  BY DEF FinalizeComplete, Finalizing, Returns
<1>2. TypesInv /\ TypesInv' /\ CallsInv /\ FieldsInv /\ Len(Ops[b]) \in Nat
  BY TypesAssumption DEF Answering
<1>3. stack # <<>> /\ ~Running("process") /\ ~Running("resolve") /\ Innermost.at = "block"
  BY <1>1, <1>2, Here
<1>4. b \in Roots => Len(stack) = 1
  BY <1>1, <1>2, HereStarted
<1>5. nulled[b] \in BOOLEAN
  BY <1>2 DEF TypesInv
<1>6. Leaves
  BY <1>1, <1>2, <1>3, PopFacts
<1>7. ret' # None \/ Len(stack) = 1
  BY <1>1, <1>4, <1>5, ResultFacts
<1>8. Moves({}, {}) /\ StepsOK({}, {})
  BY <1>1, <1>2, <1>3, <1>6, <1>7, ReturnsQuietly
<1>9. Innermost.index <= Len(Ops[Innermost.block])
  BY <1>1, <1>2
<1>10. CallsStay /\ FinishesStay /\ NextsGrow
  BY <1>2, <1>3, <1>8, <1>9, StepStays
<1>11. \A c \in Blocks : life'[c] = "suspended" => life[c] = "suspended"
  BY <1>1, <1>2 DEF TypesInv
<1>12. \A c \in Blocks : ret # Frame(c) /\ (Queued(c) => Queued(c)')
  BY <1>1, ResultFacts DEF Queued
<1> QED BY <1>1, <1>10, <1>11, <1>12, CountsCalm

\* Counts of waiting entries, and who is queued for them, are kept by
\* drain_scheduler that takes the last frame of the queue, or finds it empty.
LEMMA DrainNextCounts ==
  ASSUME Answering, Answering', CountsInv, DrainNext
  PROVE  CountsInv'
<1>1. TypesInv /\ TypesInv' /\ CallsInv /\ FieldsInv
  BY DEF Answering
<1>2. Running("drain") /\ UNCHANGED <<entries, unresolved, life, ret>>
  BY DEF DrainNext, frames
<1>3. /\ ret = None /\ stack # <<>> /\ Innermost.at = "drain" /\ ~Running("process")
      /\ ~Running("block") /\ ~Running("resolve")
  BY <1>1, <1>2, Here, OneProcess
<1>4. ready \in Seq(Blocks \cup {None}) /\ ready' \in Seq(Blocks \cup {None})
  BY <1>1 DEF TypesInv
<1>5. \A c \in Blocks : ret # Frame(c)
  BY <1>3, ResultFacts
<1>6. CASE ready = <<>>
  <2>1. stack' = Pop /\ ready' = ready
    BY <1>6 DEF DrainNext
  <2>2. Moves({}, {}) /\ StepsOK({}, {})
    BY <1>1, <1>3, <2>1, PopFacts, ReturnsQuietly
  <2>3. CallsStay /\ FinishesStay /\ NextsGrow
    BY <1>1, <1>3, <2>2, StepStays
  <2>4. \A c \in Blocks : ~Queued(c)
    BY <1>6 DEF Queued, Range
  <2> QED BY <1>2, <1>5, <2>3, <2>4, CountsCalm
<1>7. CASE ready # <<>>
  <2>1. PICK n \in Nat : n = Len(ready) /\ n # 0
    BY <1>4, <1>7
  <2>2. /\ ready' = SubSeq(ready, 1, n - 1) /\ draining' = draining
        /\ stack' = IF ready[n] = None THEN stack ELSE Push(ProcessLoop(ready[n], 0, <<>>))
    BY <1>7, <2>1 DEF DrainNext
  <2>3. \A c : c \in Range(ready) => c \in Range(ready') \/ c = ready[n]
    <3>1. n - 1 \in 0 .. Len(ready)
      BY <2>1
    <3>2. Len(ready') = n - 1 /\ \A i \in 1 .. n - 1 : ready'[i] = ready[i]
      BY <1>4, <2>1, <2>2, <3>1
    <3>3. SUFFICES ASSUME NEW c, c \in Range(ready)
                   PROVE  c \in Range(ready') \/ c = ready[n]
      OBVIOUS
    <3>4. PICK i \in 1 .. Len(ready) : c = ready[i]
      BY <1>4, <3>3 DEF Range
    <3>5. i = n \/ i \in 1 .. n - 1
      BY <2>1
    <3>6. CASE i \in 1 .. n - 1
      <4>1. i \in 1 .. Len(ready') /\ c = ready'[i]
        BY <3>2, <3>4, <3>6
      <4> QED BY <1>4, <4>1 DEF Range
    <3> QED BY <3>4, <3>5, <3>6
  <2>4. CASE ready[n] = None
    <3>1. Moves({}, {})
      BY <1>1, <1>2, <2>2, <2>4, StaysMoves
    <3>2. StepsOK({}, {})
      BY <1>3 DEF StepsOK, ProcessGoes, NextsSame
    <3>3. CallsStay /\ FinishesStay /\ NextsGrow
      BY <1>1, <1>3, <3>1, <3>2, StepStays
    <3>4. \A c \in Blocks : Queued(c) => Queued(c)'
      BY <2>2, <2>3, <2>4, TypesAssumption DEF Queued
    <3> QED BY <1>2, <1>5, <3>3, <3>4, CountsCalm
  <2>5. CASE ready[n] # None
    <3>1. PICK b \in Blocks : b = ready[n] /\ b \in Range(ready)
      <4>1. n \in 1 .. Len(ready)
        BY <2>1
      <4>2. ready[n] \in Blocks \cup {None} /\ ready[n] \in Range(ready)
        BY <1>4, <4>1 DEF Range
      <4> QED BY <2>5, <4>2
    <3>2. PICK u \in Calls : u = ProcessLoop(b, 0, <<>>)
      BY StartedProcess
    <3>3. u.at = "process" /\ u.block = b /\ u.index = 0 /\ u.next = <<>>
      BY <3>2, MadeProcess
    <3>4. Enters(u)
      BY <1>1, <2>2, <2>5, <3>1, <3>2, PushFacts
    <3>5. Moves({}, {u})
      BY <1>1, <1>3, <3>4, EntersMoves
    <3>6. life[b] # "none"
      BY <1>1, <3>1 DEF FieldsInv, EnteredOK, StartedOK
    <3>7. StepsOK({}, {u})
      BY <1>3, <3>3, <3>6 DEF StepsOK, Starts, ProcessGoes, NextsSame
    <3>8. CallsStay /\ FinishesStay /\ NextsGrow
      BY <1>1, <1>3, <3>3, <3>5, <3>7, StepStays
    <3>9. InCall(b)'
      <4>1. PICK m \in Depths' : stack'[m] = u
        BY <1>1, <3>4, InnermostFacts DEF Enters, Depths
      <4> QED BY <3>3, <4>1 DEF InCall, At
    <3>10. \A c \in Blocks : Queued(c) => Queued(c)' \/ InCall(c)'
      BY <2>2, <2>3, <3>1, <3>9 DEF Queued
    <3> QED BY <1>2, <1>5, <3>8, <3>10, CountsCalm
  <2> QED BY <2>4, <2>5
<1> QED BY <1>6, <1>7

\* Storing what settled closes one entry.
LEMMA OpenFacts ==
  ASSUME NEW es \in Seq(EntrySet)
  PROVE  /\ IsFiniteSet(OpenEntries(es)) /\ Cardinality(OpenEntries(es)) \in Nat
         /\ Cardinality(OpenEntries(es)) = 0 => \A i \in 1 .. Len(es) : es[i].state = "ready"
<1>1. IsFiniteSet(1 .. Len(es))
  BY FS_Interval
<1>2. IsFiniteSet(OpenEntries(es))
  BY <1>1, FS_Subset DEF OpenEntries
<1>3. Cardinality(OpenEntries(es)) = 0 => OpenEntries(es) = {}
  BY <1>2, FS_EmptySet
<1> QED BY <1>2, <1>3, FS_CardinalityType DEF OpenEntries

\* A promise that settles makes one entry of the array ready: one fewer is
\* open.
LEMMA StoredOpens ==
  ASSUME NEW es \in Seq(EntrySet), NEW k \in 1 .. Len(es), es[k].state # "ready"
  PROVE  /\ Cardinality(OpenEntries(es)) > 0
         /\ Cardinality(OpenEntries(Stored(es, k))) = Cardinality(OpenEntries(es)) - 1
<1>1. /\ Len(Stored(es, k)) = Len(es) /\ Stored(es, k)[k].state = "ready"
      /\ \A j \in 1 .. Len(es) : j # k => Stored(es, k)[j] = es[j]
  BY StoredFacts
<1>2. k \in OpenEntries(es)
  BY DEF OpenEntries
<1>3. OpenEntries(Stored(es, k)) = OpenEntries(es) \ {k}
  BY <1>1 DEF OpenEntries
<1>4. IsFiniteSet(OpenEntries(es)) /\ Cardinality(OpenEntries(es)) \in Nat
  BY OpenFacts
<1>5. /\ IsFiniteSet(OpenEntries(es) \ {k})
      /\ Cardinality(OpenEntries(es) \ {k}) = Cardinality(OpenEntries(es)) - 1
  BY <1>2, <1>4, FS_RemoveElement
<1>6. Cardinality(OpenEntries(es) \ {k}) \in Nat
  BY <1>5, FS_CardinalityType
<1> QED BY <1>3, <1>4, <1>5, <1>6

\* What settled is stored in an entry, and the frame is counted down and handed to
\* the drain at zero, unless its finalize looks after it.
LEMMA StoreCounts ==
  ASSUME Answering, Answering', CountsInv, CallsStay, FinishesStay, NextsGrow,
         NEW p \in Blocks, NEW k \in 1 .. Len(entries[p]),
         entries[p][k].state # "ready" \/ InCall(p),
         entries' = [entries EXCEPT ![p] = Stored(entries[p], k)],
         NEW count \in Nat, unresolved[p] > 0 => count = unresolved[p] - 1,
         unresolved' = [unresolved EXCEPT ![p] = count],
         count > 0 \/ Queued(p)' \/ Finishing(p, 1) \/ life'[p] # "suspended",
         ret = None,
         \A b \in Blocks : life'[b] = "suspended" => life[b] = "suspended",
         \A b \in Blocks : Queued(b) => Queued(b)' \/ InCall(b)' \/ Resolved(b)'
  PROVE  CountsInv'
<1>1. TypesInv /\ TypesInv' /\ Counted /\ DrainsOnce /\ DrainsAgain /\ Roots \subseteq Blocks
  BY TypesAssumption DEF Answering, CountsInv
<1>2. \A b \in Blocks : ret # Frame(b)
  BY ResultFacts
<1>3. /\ entries[p] \in Seq(EntrySet) /\ unresolved[p] \in Nat
      /\ entries'[p] = Stored(entries[p], k) /\ unresolved'[p] = count
      /\ \A b \in Blocks : b # p => entries'[b] = entries[b] /\ unresolved'[b] = unresolved[b]
  BY <1>1 DEF TypesInv
<1>4. /\ Len(entries'[p]) = Len(entries[p]) /\ entries'[p][k].state = "ready"
      /\ \A j \in 1 .. Len(entries[p]) : /\ entries'[p][j].kind = entries[p][j].kind
                                         /\ j # k => entries'[p][j] = entries[p][j]
  BY <1>3, StoredFacts
<1>5. Counted'
  <2>1. SUFFICES ASSUME NEW b \in Blocks, life'[b] = "suspended"
                 PROVE  Counts(b)'
    BY DEF Counted
  <2>2. Counts(b)
    BY <1>1, <2>1 DEF Counted
  <2>3. CASE InCall(b)
    BY <2>1, <2>3 DEF CallsStay, Counts, Resolved
  <2>4. CASE Queued(b)
    BY <2>1, <2>4 DEF Counts, Resolved
  <2>5. CASE Exact(b) /\ ~InCall(b) /\ (unresolved[b] > 0 \/ Finishing(b, 1))
    <3>1. Finishing(b, 1) => Finishing(b, 1)'
      BY DEF FinishesStay, Finishing
    <3>2. CASE b # p
      <4>1. Exact(b)' /\ unresolved'[b] = unresolved[b]
        BY <1>3, <2>5, <3>2 DEF Exact
      <4> QED BY <2>5, <3>1, <4>1 DEF Counts
    <3>3. CASE b = p
      <4>1. /\ Cardinality(OpenEntries(entries[p])) > 0
            /\ Cardinality(OpenEntries(entries'[p])) = Cardinality(OpenEntries(entries[p])) - 1
        BY <1>3, <2>5, <3>3, StoredOpens
      <4>2. unresolved[p] = Cardinality(OpenEntries(entries[p]))
        BY <2>5, <3>3 DEF Exact
      <4>3. count = unresolved[p] - 1
        BY <1>3, <4>1, <4>2
      <4>4. Exact(p)' /\ unresolved'[p] = count
        BY <1>3, <4>1, <4>2, <4>3 DEF Exact
      <4>6. Finishing(p, 1) => Finishing(p, 1)'
        BY <3>1, <3>3
      <4>7. unresolved'[p] > 0 \/ Queued(p)' \/ Finishing(p, 1)'
        BY <2>1, <3>3, <4>4, <4>6
      <4>8. Counts(p)'
        BY <4>4, <4>7 DEF Counts
      <4> QED BY <3>3, <4>8
    <3> QED BY <3>2, <3>3
  <2> QED BY <1>2, <2>2, <2>3, <2>4, <2>5 DEF Counts
<1>6. ASSUME NEW b \in Roots, Finishing(b, 1)' \/ Finishing(b, 2)'
      PROVE  /\ Finishing(b, 1) \/ Finishing(b, 2)
             /\ Finishing(b, 2)' => Finishing(b, 2)
             /\ Len(entries'[b]) = Len(entries[b])
             /\ \A i \in 1 .. Len(entries[b]) :
                  /\ entries'[b][i].kind = entries[b][i].kind
                  /\ entries[b][i].state = "ready" => entries'[b][i].state = "ready"
  <2>1. CASE b = p
    BY <1>4, <1>6, <2>1 DEF FinishesStay
  <2>2. CASE b # p
    BY <1>1, <1>3, <1>6, <2>2 DEF FinishesStay
  <2> QED BY <2>1, <2>2
<1>7. ASSUME NEW b \in Roots, NEW n \in Depths', At(n, "process")', stack'[n].block = b
      PROVE  \/ stack'[n].next = <<>>
             \/ /\ n \in Depths /\ At(n, "process") /\ stack[n].block = b
                /\ stack'[n].next = stack[n].next
  BY <1>7 DEF NextsGrow
<1>8. DrainsOnce'
  <2>1. SUFFICES ASSUME NEW b \in Roots, Finishing(b, 1)' \/ Finishing(b, 2)'
                 PROVE  /\ \A i \in 1 .. Len(entries'[b]) :
                             \/ entries'[b][i].kind = "block"
                             \/ entries'[b][i].state = "ready" /\ (Queued(b)' \/ InCall(b)')
                        /\ \A n \in Depths' : At(n, "process")' /\ stack'[n].block = b =>
                             \A i \in 1 .. Len(stack'[n].next) : stack'[n].next[i].kind = "block"
    BY DEF DrainsOnce
  <2>2. Finishing(b, 1) \/ Finishing(b, 2)
    BY <1>6, <2>1
  <2>3. Queued(b) \/ InCall(b) => Queued(b)' \/ InCall(b)' \/ Resolved(b)'
    BY <1>1 DEF CallsStay
  <2>4. ASSUME NEW i \in 1 .. Len(entries'[b])
        PROVE  \/ entries'[b][i].kind = "block"
               \/ entries'[b][i].state = "ready" /\ (Queued(b)' \/ InCall(b)')
    <3>1. i \in 1 .. Len(entries[b]) /\ ~Resolved(b)'
      BY <1>6, <2>1, <2>4 DEF Resolved
    <3>2. /\ entries'[b][i].kind = entries[b][i].kind
          /\ entries[b][i].state = "ready" => entries'[b][i].state = "ready"
      BY <1>6, <2>1, <3>1
    <3>3. entries[b][i].kind = "block"
          \/ (entries[b][i].state = "ready" /\ (Queued(b) \/ InCall(b)))
      BY <1>1, <2>2, <3>1 DEF DrainsOnce
    <3> QED BY <2>3, <3>1, <3>2, <3>3
  <2>5. ASSUME NEW n \in Depths', At(n, "process")', stack'[n].block = b,
               NEW i \in 1 .. Len(stack'[n].next)
        PROVE  stack'[n].next[i].kind = "block"
    <3>1. stack'[n].next # <<>>
      BY <2>5
    <3>2. /\ n \in Depths /\ At(n, "process") /\ stack[n].block = b
          /\ stack'[n].next = stack[n].next
      BY <1>7, <2>5, <3>1
    <3> QED BY <1>1, <2>2, <2>5, <3>2 DEF DrainsOnce
  <2> QED BY <2>4, <2>5
<1>9. DrainsAgain'
  <2>1. SUFFICES ASSUME NEW b \in Roots, Finishing(b, 2)'
                 PROVE  /\ \A i \in 1 .. Len(entries'[b]) :
                             entries'[b][i].kind = "block" /\ entries'[b][i].state = "ready"
                        /\ \A n \in Depths' : At(n, "process")' /\ stack'[n].block = b =>
                             stack'[n].next = <<>>
    BY DEF DrainsAgain
  <2>2. Finishing(b, 2)
    BY <1>6, <2>1
  <2>3. ASSUME NEW n \in Depths', At(n, "process")', stack'[n].block = b
        PROVE  stack'[n].next = <<>>
    BY <1>1, <1>7, <2>2, <2>3 DEF DrainsAgain
  <2>4. ASSUME NEW i \in 1 .. Len(entries'[b])
        PROVE  entries'[b][i].kind = "block" /\ entries'[b][i].state = "ready"
    <3>1. i \in 1 .. Len(entries[b])
      BY <1>6, <2>1, <2>4
    <3>2. entries[b][i].kind = "block" /\ entries[b][i].state = "ready"
      BY <1>1, <2>2, <3>1 DEF DrainsAgain
    <3> QED BY <1>6, <2>1, <3>1, <3>2
  <2> QED BY <2>3, <2>4
<1> QED BY <1>5, <1>8, <1>9 DEF CountsInv

\* Counts of waiting entries, and who is queued for them, are kept by the
\* callback of an entry, which stores the value and enqueues its frame.
LEMMA SettleEntryCounts ==
  ASSUME Answering, Answering', AnswersInv, CountsInv, NEW f \in Fields, SettleEntry(f)
  PROVE  CountsInv'
<1>1. TypesInv /\ TypesInv' /\ CallsInv /\ PlacesInv /\ ready \in Seq(Blocks \cup {None})
  BY DEF Answering, AnswersInv, TypesInv
<1>2. ret = None /\ Running("settle") /\ UNCHANGED <<life, ret>>
  BY DEF SettleEntry, InSettleLoop
<1>3. stack # <<>> /\ ~Running("process") /\ ~Running("block") /\ ~Running("resolve")
  BY <1>1, <1>2, Here
<1>4. PICK t \in Calls : /\ AfterSubscriber(f, None) = Top(t) /\ SameCall(t) /\ t.at = "settle"
  <2>1. None \in Items \cup {None} /\ TypesInv /\ CallsInv /\ Running("settle")
    BY <1>1, <1>2
  <2>2. \E t \in Calls : /\ t = SettleLoop(Innermost.waiting \ {f}, None)
                         /\ AfterSubscriber(f, None) = Top(t) /\ SameCall(t)
                         /\ t.at = "settle" /\ t.current = None
                         /\ t.waiting = Innermost.waiting \ {f}
                         /\ \A es : IndexFits(t, es)
    BY <2>1, AfterSubscriberFacts
  <2> QED BY <2>2
<1>5. ASSUME Becomes(t) \/ BecomesAndEnters(t, DrainLoop)
      PROVE  CallsStay /\ FinishesStay /\ NextsGrow
  <2>1. PICK U \in {{}, {DrainLoop}} : Moves({t}, U) /\ StepsOK({t}, U)
    BY <1>1, <1>2, <1>4, <1>5, GoesOnQuietly
  <2>2. \A u \in U : u.at # "block"
    BY MadeOthers
  <2>3. PICK T : T = {t}
    OBVIOUS
  <2>4. Moves(T, U) /\ StepsOK(T, U) /\ \A x \in T : x.at # "block"
    BY <1>4, <2>1, <2>3
  <2> QED BY <1>1, <1>3, <2>2, <2>4, StepStays
<1>6. \A c \in Blocks : ret # Frame(c)
  BY <1>2, ResultFacts
<1>7. PICK b \in Blocks : b = Home(f)
  BY HomeFacts
<1>8. PICK k \in Nat : k = ctx[f]
  BY <1>1 DEF TypesInv
<1>9. CASE k \in 1 .. Len(entries[b])
  <2>1. PICK count : count = IF unresolved[b] > 0 THEN unresolved[b] - 1 ELSE 0
    OBVIOUS
  <2>2. PICK wanted \in BOOLEAN : wanted = (count = 0)
    OBVIOUS
  <2>3. /\ entries' = [entries EXCEPT ![b] = Stored(entries[b], k)]
        /\ unresolved' = [unresolved EXCEPT ![b] = count]
        /\ EnqueueAndDrain(wanted, b, ready, Top(t))
    BY <1>4, <1>7, <1>8, <1>9, <2>1, <2>2 DEF SettleEntry
  <2>4. Becomes(t) \/ BecomesAndEnters(t, DrainLoop)
    BY <1>1, <1>3, <2>3, EnqueueAndDrainFacts
  <2>5. /\ \A c \in Blocks : Queued(c) => Queued(c)'
        /\ count = 0 => Queued(b)'
    BY <1>1, <2>2, <2>3, EnqueueQueues
  <2>6. entries[b][k].state # "ready" \/ InCall(b)
    <3>1. ArmedAt(f, "promise", k)
      BY <1>1, <1>8, <1>9 DEF PlacesInv, CallbacksHeld
    <3>2. entries[b][k] = Entry(f, "promise", "armed") \/ Handled(b, k)
      BY <1>1, <1>7, <3>1, CallbackSlot
    <3>3. Handled(b, k) => InCall(b)
      BY DEF Handled, InCall, At, Depths
    <3> QED BY <3>2, <3>3, MadeEntry
  <2>7. CallsStay /\ FinishesStay /\ NextsGrow
    BY <1>5, <2>4
  <2>8. \A c \in Blocks : /\ life'[c] = "suspended" => life[c] = "suspended"
                          /\ Queued(c) => Queued(c)' \/ InCall(c)' \/ Resolved(c)'
    BY <1>2, <2>5
  <2>9. count \in Nat /\ (unresolved[b] > 0 => count = unresolved[b] - 1)
    <3>1. unresolved[b] \in Nat
      BY <1>1 DEF TypesInv
    <3> QED BY <2>1, <3>1
  <2>10. count > 0 \/ Queued(b)' \/ Finishing(b, 1) \/ life'[b] # "suspended"
    BY <2>5, <2>9
  <2> QED BY <1>2, <1>9, <2>3, <2>6, <2>7, <2>8, <2>9, <2>10, StoreCounts
<1>10. CASE k \notin 1 .. Len(entries[b])
  <2>1. stack' = Top(t) /\ UNCHANGED <<entries, unresolved, ready, draining>>
    BY <1>4, <1>7, <1>8, <1>10 DEF SettleEntry
  <2>2. Becomes(t)
    BY <1>1, <1>3, <2>1, TopFacts
  <2>3. CallsStay /\ FinishesStay /\ NextsGrow
    BY <1>5, <2>2
  <2>4. \A c \in Blocks : Queued(c) => Queued(c)'
    BY <2>1 DEF Queued
  <2> QED BY <1>2, <1>6, <2>1, <2>3, <2>4, CountsCalm
<1> QED BY <1>9, <1>10

\* The finalize that drains is the root's, at the bottom of the call stack.
LEMMA RootAtBottom ==
  ASSUME Answering, NEW n \in Depths, At(n, "block"), stack[n].block \in Roots
  PROVE  n = 1
<1>1. TypesInv /\ CallsInv /\ CallerOK(n) /\ Items = {} /\ Lists = {} /\ stack[n].block \in Blocks
  BY NoLists, TypesAssumption DEF CallsInv, Answering
<1>2. SUFFICES ASSUME n # 1 PROVE FALSE
  OBVIOUS
<1>3. PICK m \in Nat : m = n - 1 /\ m \in Depths /\ m + 1 = n /\ m # Len(stack)
  BY <1>1, <1>2, InnermostFacts DEF Depths
<1>4. PICK b \in Roots : b = stack[n].block /\ b \in Blocks /\ Executes(m, b)
  BY <1>1, <1>2, <1>3 DEF CallerOK
<1>5. Calling(m)
  BY <1>3 DEF Calling, At
<1>6. stack[m] \in Calls
  BY <1>1, <1>3 DEF Depths, TypesInv
<1>7. CASE At(m, "block") \/ At(m, "process")
  <2>1. PICK f \in Fields : f = FieldOf(m)
    BY <1>1, <1>3, <1>5, <1>7, CallingBlock, CallingProcess
  <2>2. IsChild(b, f)
    BY <1>4, <1>7, <2>1 DEF Executes, At
  <2> QED BY <1>4, <2>2, OneChild
<1>8. CASE At(m, "list")
  BY <1>1, <1>6, <1>8, CallTypes DEF At
<1>9. CASE At(m, "settle")
  <2>1. stack[m].current = b /\ stack[m].current = None
    BY <1>1, <1>4, <1>6, <1>9, CallTypes DEF At, Executes
  <2> QED BY <1>4, <2>1, TypesAssumption
<1> QED BY <1>4, <1>7, <1>8, <1>9 DEF Executes

\* Clearing a frame's slots of the ready queue leaves the others where they are.
LEMMA DequeuedKeeps ==
  ASSUME TypesInv, NEW b \in Blocks
  PROVE  \A c \in Blocks : c # b /\ c \in Range(ready) => c \in Range(Dequeued(b))
<1>1. ready \in Seq(Blocks \cup {None})
  BY DEF TypesInv
<1>2. SUFFICES ASSUME NEW c \in Blocks, c # b, c \in Range(ready)
               PROVE  c \in Range(Dequeued(b))
  OBVIOUS
<1>3. PICK i \in 1 .. Len(ready) : ready[i] = c
  BY <1>1, <1>2 DEF Range
<1>4. i \in DOMAIN Dequeued(b) /\ Dequeued(b)[i] = c
  BY <1>2, <1>3 DEF Dequeued
<1> QED BY <1>4 DEF Range

\* A suspended parent that is still executing is a root, whose finalize drains for
\* the first time.
LEMMA ParentFinishes ==
  ASSUME Answering, PlacesInv, CountsInv, NEW p \in Blocks, life[p] = "suspended", Executing(p),
         NEW k \in 1 .. Len(entries[p]), entries[p][k].state # "ready"
  PROVE  Finishing(p, 1)
<1>1. /\ TypesInv /\ CallsInv /\ LoopsLive /\ RootDrains /\ DrainsAgain
      /\ \A c : ~Adopted(c)
  BY NoLists DEF Answering, LivesInv, PlacesInv, CountsInv
<1>2. PICK n \in Depths : At(n, "block") /\ stack[n].block = p
  BY DEF Executing, At, Depths
<1>3. stack[n] \in Calls /\ stack[n].index \in Nat /\ Len(Ops[p]) \in Nat
  BY <1>1, <1>2, CallTypes, TypesAssumption DEF TypesInv, Depths, At
<1>4. ~(stack[n].index <= Len(Ops[p]))
  BY <1>1, <1>2 DEF LoopsLive, LoopRuns
<1>5. p \in Roots
  BY <1>1, <1>2, <1>3, <1>4 DEF RootDrains
<1>6. n = 1
  BY <1>2, <1>5, RootAtBottom
<1>7. stack[n].index <= Len(Ops[p]) + 2
  BY <1>1, <1>2 DEF CallsInv, IndexOK
<1>8. stack[n].index = Len(Ops[p]) + 1 \/ stack[n].index = Len(Ops[p]) + 2
  BY <1>3, <1>4, <1>7
<1>9. Finishing(p, 1) \/ Finishing(p, 2)
  BY <1>2, <1>5, <1>6, <1>8 DEF Finishing
<1>10. ~Finishing(p, 2)
  BY <1>1, <1>5 DEF DrainsAgain
<1> QED BY <1>9, <1>10

\* A resolved frame leaves the ready queue and its call; it has no entries left.
LEMMA ResolvedStays ==
  ASSUME Answering, Answering', PlacesInv, Running("resolve"), NEW b \in Blocks,
         Innermost.block = b, life' = [life EXCEPT ![b] = "done"], stack' = Pop,
         entries'[b] = <<>>, draining' = draining,
         \A c \in Blocks : c \in Range(Dequeued(b)) => c \in Range(ready')
  PROVE  /\ CallsStay /\ FinishesStay /\ NextsGrow /\ draining' /\ ret = None
         /\ \A c \in Blocks : life'[c] = "suspended" => life[c] = "suspended"
         /\ \A c \in Blocks : Queued(c) => Queued(c)' \/ InCall(c)' \/ Resolved(c)'
<1>1. TypesInv /\ TypesInv' /\ CallsInv /\ Resolved(b)'
  BY DEF Answering, Resolved, TypesInv
<1>2. /\ stack # <<>> /\ ret = None /\ draining /\ ~Running("process") /\ ~Running("block")
      /\ Innermost.at = "resolve"
  BY <1>1, Here, OneProcess
<1>3. Leaves
  BY <1>1, <1>2, PopFacts
<1>4. Moves({}, {}) /\ StepsOK({}, {})
  BY <1>1, <1>2, <1>3, ReturnsQuietly
<1>5. FinishesStay
  BY <1>1, <1>2, <1>4, FinishingStays
<1>6. NextsGrow
  BY <1>1, <1>4, StepNexts
<1>7. CallsStay
  <2>1. SUFFICES ASSUME NEW c \in Blocks, InCall(c) PROVE InCall(c)' \/ Resolved(c)'
    BY DEF CallsStay
  <2>2. CASE c = b
    BY <1>1, <2>2
  <2>3. CASE c # b
    BY <1>1, <1>2, <1>4, <2>1, <2>3, InCallStays
  <2> QED BY <2>2, <2>3
<1>8. \A c \in Blocks : life'[c] = "suspended" => life[c] = "suspended"
  BY <1>1 DEF TypesInv
<1>9. \A c \in Blocks : c # b /\ Queued(c) => Queued(c)'
  BY <1>1, <1>2, DequeuedKeeps DEF Queued
<1> QED BY <1>1, <1>2, <1>5, <1>6, <1>7, <1>8, <1>9

\* Counts of waiting entries, and who is queued for them, are kept by
\* resolve_frame that stores a block's outcome in its parent and enqueues it.
LEMMA ResolveFrameCounts ==
  ASSUME Answering, Answering', AnswersInv, CountsInv, NEW b \in Blocks, ResolveFrame(b)
  PROVE  CountsInv'
<1>1. /\ TypesInv /\ TypesInv' /\ CallsInv /\ FieldsInv /\ LivesInv /\ PlacesInv
      /\ (\A c : ~Adopted(c)) /\ Lists = {} /\ Items = {}
  BY NoLists DEF Answering, AnswersInv
<1>2. /\ Running("resolve") /\ Innermost.block = b /\ Innermost.at = "resolve"
      /\ stack # <<>> /\ ret = None /\ ~Running("process") /\ draining
      /\ life' = [life EXCEPT ![b] = "done"]
  BY <1>1, Here, OneProcess DEF ResolveFrame
<1>3. PICK L \in Depths : At(L, "resolve") /\ stack[L] = Innermost
  BY <1>1, <1>2, Here
<1>4. life[b] = "suspended" /\ Resolving(b)
  BY <1>1, <1>2, <1>3 DEF PlacesInv, QueueSuspended, Resolving
<1>5. entries[b] = <<>> /\ life'[b] = "done"
  BY <1>1, <1>2, <1>4 DEF LivesInv, DoneEmpty, TypesInv
<1>6. Dequeued(b) \in Seq(Blocks \cup {None})
  BY <1>1, DequeuedFacts
<1>7. CASE \E f \in Fields \ Lists :
             /\ b \in Range(Children[f])
             /\ ResolveIntoParent(b, CHOOSE g \in Fields : b \in Range(Children[g]))
             /\ UNCHANGED <<lists, errors, draining, response>>
  <2>1. PICK f \in Fields :
          f = (CHOOSE g \in Fields : b \in Range(Children[g])) /\ b \in Range(Children[f])
    BY <1>7
  <2>2. PICK p \in Blocks : p = Home(f)
    BY HomeFacts
  <2>3. ResolveIntoParent(b, f) /\ draining' = draining
    BY <1>7, <2>1
  <2>4. IsChild(b, f)
    <3>1. Children[f] \in Seq(Blocks) /\ Len(Children[f]) \in Nat /\ Len(Children[f]) <= 1
      BY <1>1, ChildFacts, TreeAssumption
    <3>2. PICK i \in 1 .. Len(Children[f]) : Children[f][i] = b
      BY <2>1, <3>1 DEF Range
    <3>3. i = 1 /\ Children[f] # <<>>
      BY <3>1, <3>2
    <3> QED BY <1>1, <3>2, <3>3 DEF IsChild
  <2>5. stack' = Pop
    BY <2>3 DEF ResolveIntoParent
  <2>6. PICK k \in Nat : k = link[b]
    BY <1>1 DEF TypesInv
  <2>7. k \in 1 .. Len(entries[p]) /\ entries[p][k].state # "ready"
    <3>1. ret # Frame(b)
      BY <1>2, ResultFacts
    <3>2. ArmedAt(f, "block", k)
      BY <1>1, <1>4, <2>4, <2>6, <3>1 DEF PlacesInv, LinksHeld
    <3>3. \A n \in Depths : ~At(n, "process")
      <4>1. \A n \in Depths : At(n, "process") => n = L /\ At(L, "process")
        BY <1>1, <1>3, OneProcess
      <4> QED BY <1>2, <1>3, <4>1 DEF At
    <3>4. ~MovedAt(f, "block", k)
      BY <3>3 DEF MovedAt
    <3>5. k \in 1 .. Len(entries[p]) /\ entries[p][k] = Entry(f, "block", "armed")
      BY <2>2, <3>2, <3>4 DEF ArmedAt
    <3> QED BY <3>5, MadeEntry
  <2>8. PICK count : count = IF unresolved[p] > 0 THEN unresolved[p] - 1 ELSE 0
    OBVIOUS
  <2>9. /\ entries' = [entries EXCEPT ![p] = Stored(entries[p], k)]
        /\ unresolved' = [unresolved EXCEPT ![p] = count]
        /\ ready' = IF count = 0 /\ ~Executing(p) THEN Enqueued(p, Dequeued(b)) ELSE Dequeued(b)
    BY <2>2, <2>3, <2>6, <2>7, <2>8 DEF ResolveIntoParent
  <2>10. p # b /\ entries'[b] = <<>>
    <3>1. p # b
      BY <1>5, <2>7
    <3>2. entries \in [Blocks -> Seq(EntrySet)]
      BY <1>1 DEF TypesInv
    <3>3. entries' = [entries EXCEPT ![p] = Stored(entries[p], k)]
      BY <2>9
    <3>4. entries'[b] = entries[b]
      BY <3>1, <3>2, <3>3
    <3> QED BY <1>5, <3>1, <3>4
  <2>11. \A c : c \in Range(Dequeued(b)) => c \in Range(ready')
    BY <1>6, <2>9, EnqueuedFacts
  <2>12. /\ CallsStay /\ FinishesStay /\ NextsGrow /\ draining'
         /\ \A c \in Blocks : life'[c] = "suspended" => life[c] = "suspended"
         /\ \A c \in Blocks : Queued(c) => Queued(c)' \/ InCall(c)' \/ Resolved(c)'
    BY <1>1, <1>2, <2>3, <2>5, <2>10, <2>11, ResolvedStays
  <2>13. count \in Nat /\ (unresolved[p] > 0 => count = unresolved[p] - 1)
    <3>1. unresolved[p] \in Nat
      BY <1>1 DEF TypesInv
    <3> QED BY <2>8, <3>1
  <2>14. count > 0 \/ Queued(p)' \/ Finishing(p, 1) \/ life'[p] # "suspended"
    <3>1. CASE count > 0
      BY <3>1
    <3>2. CASE count = 0 /\ ~Executing(p)
      <4>1. p \in Range(ready')
        BY <1>6, <2>9, <3>2, EnqueuedFacts
      <4> QED BY <2>12, <4>1 DEF Queued
    <3>3. CASE Executing(p) /\ life'[p] = "suspended"
      <4>1. life[p] = "suspended"
        BY <2>12, <3>3
      <4> QED BY <1>1, <2>7, <3>3, <4>1, ParentFinishes
    <3>4. count > 0 \/ count = 0
      BY <2>13
    <3> QED BY <3>1, <3>2, <3>3, <3>4
  <2> QED BY <1>2, <2>7, <2>9, <2>12, <2>13, <2>14, StoreCounts
<1>8. CASE /\ b \in Roots
           /\ response' = IF nulled[b] THEN "null" ELSE "data"
           /\ stack' = Pop
           /\ ready' = Dequeued(b)
           /\ UNCHANGED <<entries, unresolved, lists, errors, draining>>
  <2>1. stack' = Pop /\ ready' = Dequeued(b) /\ UNCHANGED <<entries, unresolved, draining>>
    BY <1>8
  <2>2. /\ CallsStay /\ FinishesStay /\ NextsGrow
        /\ \A c \in Blocks : life'[c] = "suspended" => life[c] = "suspended"
        /\ \A c \in Blocks : Queued(c) => Queued(c)' \/ InCall(c)' \/ Resolved(c)'
    BY <1>1, <1>2, <1>5, <2>1, ResolvedStays
  <2>3. \A c \in Blocks : ret # Frame(c)
    BY <1>2, ResultFacts
  <2> QED BY <2>1, <2>2, <2>3, CountsCalm
<1> QED BY <1>1, <1>7, <1>8 DEF ResolveFrame

-----------------------------------------------------------------------------
(* Processing a frame                                                      *)

\* An entry moves to the rebuilt array of the frame that is being processed.
LEMMA MoveCounts ==
  ASSUME Answering, Answering', CountsInv, Running("process"), EntriesLeft,
         NEW e \in EntrySet, stack' = MoveTo(e),
         Finishing(Innermost.block, 1) => e.kind = "block",
         ~Finishing(Innermost.block, 2),
         UNCHANGED <<entries, unresolved, life>>,
         \A c \in Blocks : Queued(c) => Queued(c)',
         \A c \in Blocks : ret = Frame(c) /\ unresolved[c] = 0 => Queued(c)'
  PROVE  CountsInv'
<1>1. TypesInv /\ TypesInv' /\ CallsInv /\ Counted /\ DrainsOnce /\ DrainsAgain /\ Roots \subseteq Blocks
  BY TypesAssumption DEF Answering, CountsInv
<1>2. PICK L \in Nat : L = Len(stack)
  BY <1>1, InnermostFacts
<1>3. /\ L \in Depths /\ stack[L] = Innermost /\ At(L, "process") /\ Innermost.at = "process"
      /\ ~Running("block") /\ ~Running("resolve") /\ stack # <<>>
      /\ Innermost.next \in Seq(EntrySet)
  BY <1>1, <1>2, Here, HereProcess
<1>4. PICK t \in Calls : /\ t.at = "process" /\ t.block = Innermost.block
                         /\ t.next = Append(Innermost.next, e)
                         /\ Becomes(t) /\ SameCall(t)
  <2>1. \E t \in Calls :
           /\ t = ProcessLoop(Innermost.block, Innermost.index + 1, Append(Innermost.next, e))
           /\ t.at = "process" /\ t.block = Innermost.block /\ t.index = Innermost.index + 1
           /\ t.next = Append(Innermost.next, e)
           /\ stack' \in Seq(Calls) /\ Becomes(t) /\ SameCall(t) /\ IndexFits(t, entries)
    BY <1>1, MoveToFacts
  <2> QED BY <2>1
<1>5. PICK T : T = {t}
  OBVIOUS
<1>6. Moves(T, {})
  BY <1>1, <1>4, <1>5, BecomesMoves
<1>7. Depths' = Depths /\ stack'[L] = t /\ \A n \in Depths : n # L => stack'[n] = stack[n]
  BY <1>1, <1>2, <1>4 DEF Becomes, SameBelow, Depths, TypesInv
<1>8. FinishesStay
  BY <1>1, <1>3, <1>4, <1>5, <1>6, FinishingStays
<1>9. \A b \in Blocks : InCall(b) => InCall(b)'
  <2>1. SUFFICES ASSUME NEW b \in Blocks, InCall(b) PROVE InCall(b)'
    OBVIOUS
  <2>2. \/ Innermost.block # b
        \/ Len(stack) \in Depths' /\ \A x \in T : x.at \in {"process", "resolve"} /\ x.block = b
    BY <1>2, <1>3, <1>4, <1>5, <1>7
  <2> QED BY <1>1, <1>6, <2>1, <2>2, InCallStays
<1>10. InCall(Innermost.block)
  BY <1>3 DEF InCall
<1>11. \A n \in Depths' : At(n, "process")' => n = L /\ stack'[n] = t
  BY <1>1, <1>2, <1>7, OnlyProcess, <1>3 DEF At
<1>12. Counted'
  <2>1. SUFFICES ASSUME NEW b \in Blocks, life'[b] = "suspended"
                 PROVE  Counts(b)'
    BY DEF Counted
  <2>2. Counts(b) /\ unresolved[b] \in Nat
    BY <1>1, <2>1 DEF Counted, TypesInv
  <2>3. CASE InCall(b) \/ Queued(b)
    BY <1>9, <2>3 DEF Counts
  <2>4. CASE Exact(b) /\ (unresolved[b] > 0 \/ ret = Frame(b) \/ Finishing(b, 1))
    <3>1. Exact(b)'
      BY <2>4 DEF Exact
    <3>2. Finishing(b, 1) => Finishing(b, 1)'
      BY <1>8 DEF FinishesStay, Finishing
    <3>3. unresolved[b] > 0 \/ unresolved[b] = 0
      BY <2>2
    <3> QED BY <2>4, <3>1, <3>2, <3>3 DEF Counts
  <2> QED BY <2>2, <2>3, <2>4 DEF Counts
<1>13. DrainsOnce'
  <2>1. SUFFICES ASSUME NEW b \in Roots, Finishing(b, 1)' \/ Finishing(b, 2)'
                 PROVE  /\ \A i \in 1 .. Len(entries'[b]) :
                             \/ entries'[b][i].kind = "block"
                             \/ entries'[b][i].state = "ready" /\ (Queued(b)' \/ InCall(b)')
                        /\ \A n \in Depths' : At(n, "process")' /\ stack'[n].block = b =>
                             \A i \in 1 .. Len(stack'[n].next) : stack'[n].next[i].kind = "block"
    BY DEF DrainsOnce
  <2>2. /\ Finishing(b, 1) \/ Finishing(b, 2)
        /\ b \in Blocks /\ entries'[b] = entries[b]
    BY <1>1, <1>8, <2>1 DEF FinishesStay
  <2>3. \A i \in 1 .. Len(entries'[b]) :
          \/ entries'[b][i].kind = "block"
          \/ entries'[b][i].state = "ready" /\ (Queued(b)' \/ InCall(b)')
    BY <1>1, <1>9, <2>2 DEF DrainsOnce
  <2>4. ASSUME NEW n \in Depths', At(n, "process")', stack'[n].block = b
        PROVE  \A i \in 1 .. Len(stack'[n].next) : stack'[n].next[i].kind = "block"
    <3>1. stack'[n] = t /\ Innermost.block = b
      BY <1>4, <1>11, <2>4
    <3>2. \A i \in 1 .. Len(Innermost.next) : Innermost.next[i].kind = "block"
      BY <1>1, <1>3, <2>2, <3>1 DEF DrainsOnce
    <3>3. e.kind = "block"
      BY <2>2, <3>1
    <3>4. \A i \in 1 .. Len(Append(Innermost.next, e)) :
            \/ i \in 1 .. Len(Innermost.next) /\ Append(Innermost.next, e)[i] = Innermost.next[i]
            \/ Append(Innermost.next, e)[i] = e
      BY <1>3
    <3> QED BY <1>4, <3>1, <3>2, <3>3, <3>4
  <2> QED BY <2>3, <2>4
<1>14. DrainsAgain'
  <2>1. SUFFICES ASSUME NEW b \in Roots, Finishing(b, 2)'
                 PROVE  /\ \A i \in 1 .. Len(entries'[b]) :
                             entries'[b][i].kind = "block" /\ entries'[b][i].state = "ready"
                        /\ \A n \in Depths' : At(n, "process")' /\ stack'[n].block = b =>
                             stack'[n].next = <<>>
    BY DEF DrainsAgain
  <2>2. Finishing(b, 2) /\ b # Innermost.block
    BY <1>8, <2>1 DEF FinishesStay
  <2> QED BY <1>1, <1>4, <1>11, <2>2 DEF DrainsAgain
<1> QED BY <1>12, <1>13, <1>14 DEF CountsInv

\* process_frame keeps an entry that waits.
LEMMA ProcessMovesCounts ==
  ASSUME Answering, Answering', CountsInv, NEW b \in Blocks, ProcessMoves(b)
  PROVE  CountsInv'
<1>1. TypesInv /\ CallsInv /\ DrainsOnce /\ DrainsAgain
  BY DEF Answering, CountsInv
<1>2. /\ ret = None /\ Running("process") /\ Innermost.block = b /\ EntriesLeft
      /\ stack' = MoveTo(CurrentEntry) /\ CurrentEntry.state # "ready"
      /\ UNCHANGED <<entries, unresolved, life, ready, draining>>
  BY DEF ProcessMoves, InProcessLoop, StillWaits
<1>3. /\ CurrentEntry \in EntrySet /\ Innermost.index + 1 \in 1 .. Len(entries[b])
      /\ CurrentEntry = entries[b][Innermost.index + 1]
  BY <1>1, <1>2, HereProcess DEF CurrentEntry
<1>4. Finishing(b, 1) => CurrentEntry.kind = "block"
  BY <1>1, <1>2, <1>3 DEF DrainsOnce, Finishing
<1>5. ~Finishing(b, 2)
  BY <1>1, <1>2, <1>3 DEF DrainsAgain, Finishing
<1>6. \A c \in Blocks : ret # Frame(c) /\ (Queued(c) => Queued(c)')
  BY <1>2, ResultFacts DEF Queued
<1>7. PICK e \in EntrySet : e = CurrentEntry
  BY <1>3
<1> QED BY <1>2, <1>4, <1>5, <1>6, <1>7, MoveCounts

\* process_frame takes the result of a field it has completed.
LEMMA ProcessTakesResultCounts ==
  ASSUME Answering, Answering', AnswersInv, CountsInv, NEW b \in Blocks, ProcessTakesResult(b)
  PROVE  CountsInv'
<1>1. /\ TypesInv /\ TypesInv' /\ CallsInv /\ PlacesInv /\ DrainsAgain
      /\ ready \in Seq(Blocks \cup {None})
  BY DEF Answering, AnswersInv, CountsInv, TypesInv
<1>2. /\ ret # None /\ ret' = None /\ Running("process") /\ ret \in Results
      /\ Within(Len(stack)) /\ EntriesLeft /\ Innermost.block = b
      /\ FieldOf(Len(stack)) = CurrentEntry.field /\ CurrentEntry.field \in Fields
      /\ Innermost.index + 1 \in 1 .. Len(entries[b]) /\ Innermost.index \in Nat
      /\ UNCHANGED <<entries, unresolved, life, draining>> /\ draining
  BY <1>1, HereProcess, Here, OneProcess DEF ProcessTakesResult, TypesInv
<1>3. PICK f \in Fields : f = CurrentEntry.field /\ f = FieldOf(Len(stack))
  BY <1>2
<1>4. CASE ret.kind = "outcome"
  <2>1. stack' = Advance /\ ready' = ready
    BY <1>4 DEF ProcessTakesResult
  <2>2. Becomes(Advanced(Innermost))
    BY <1>1, <1>2, <2>1, AdvanceBecomes
  <2>3. CallsStay /\ FinishesStay /\ NextsGrow
    BY <1>1, <1>2, <2>2, AdvanceStays
  <2>4. \A c \in Blocks : ret # Frame(c) /\ (Queued(c) => Queued(c)')
    BY <1>2, <1>4, <2>1, ResultFacts DEF Queued
  <2> QED BY <1>2, <2>3, <2>4, CountsCalm
<1>5. CASE ret.kind = "frame"
  <2>1. PICK c \in Blocks : c = ret.of /\ Executes(Len(stack), c) /\ life[c] = "suspended"
    <3>1. ret.of \in Blocks /\ Executes(Len(stack), ret.of)
      BY <1>1, <1>2, <1>5, ResultFacts DEF CallsInv, ReturnOK
    <3>2. life[ret.of] = "suspended"
      BY <1>1, <1>2, <1>5 DEF PlacesInv, QueueSuspended
    <3> QED BY <3>1, <3>2
  <2>2. IsChild(c, f)
    BY <1>2, <1>3, <2>1, HereExecutes
  <2>3. PICK e \in EntrySet : e = AdoptedEntry(f) /\ e.kind = "block"
    <3>1. AdoptedEntry(f) = Entry(f, "block", "armed")
      BY <1>5 DEF AdoptedEntry
    <3> QED BY <3>1, EntryFacts, MadeEntry DEF Kinds
  <2>4. /\ stack' = MoveTo(e)
        /\ ready' = IF unresolved[c] = 0 THEN Enqueued(c, ready) ELSE ready
    BY <1>3, <1>5, <2>1, <2>3 DEF ProcessTakesResult
  <2>5. ~Finishing(b, 2)
    <3>1. SUFFICES ASSUME Finishing(b, 2) PROVE FALSE
      OBVIOUS
    <3>2. PICK i \in 1 .. Len(entries[b]) : i = Innermost.index + 1 /\ CurrentEntry = entries[b][i]
      BY <1>2 DEF CurrentEntry
    <3>3. CurrentEntry.kind = "block" /\ CurrentEntry.state = "ready"
      BY <1>1, <3>1, <3>2 DEF DrainsAgain, Finishing
    <3>4. ~Handled(b, i)
      <4>1. PICK L \in Nat : L = Len(stack)
        BY <1>1, InnermostFacts
      <4>2. stack[L] = Innermost
        BY <1>1, <4>1, InnermostFacts
      <4>3. \A n \in Depths : At(n, "process") => stack[n].index = Innermost.index
        BY <1>1, <1>2, <4>1, <4>2, OnlyProcess
      <4> QED BY <1>2, <3>2, <4>3 DEF Handled, At, Depths
    <3>5. life[Children[f][1]] = "done"
      BY <1>1, <1>3, <3>2, <3>3, <3>4 DEF PlacesInv, ReadyDone
    <3> QED BY <2>1, <2>2, <3>5 DEF IsChild
  <2>6. \A d \in Blocks : /\ Queued(d) => Queued(d)'
                          /\ ret = Frame(d) /\ unresolved[d] = 0 => Queued(d)'
    <3>1. \A d : d \in Range(ready) => d \in Range(ready')
      BY <1>1, <2>4, EnqueuedFacts
    <3>2. unresolved[c] = 0 => c \in Range(ready')
      BY <1>1, <2>4, EnqueuedFacts
    <3>3. \A d \in Blocks : ret = Frame(d) => d = c
      BY <2>1, ResultFacts
    <3> QED BY <1>2, <3>1, <3>2, <3>3 DEF Queued
  <2> QED BY <1>2, <2>3, <2>4, <2>5, <2>6, MoveCounts
<1> QED BY <1>2, <1>4, <1>5, NoLists

\* Arming counts exactly the entries it leaves open.
LEMMA ArmExact ==
  ASSUME TypesInv, Lists = {}, NEW b \in Blocks, NEW es \in Seq(EntrySet), ArrayOK(es),
         ArmFrame(b, es)
  PROVE  /\ Exact(b)' /\ unresolved'[b] = WaitingCount(es) /\ WaitingCount(es) \in Nat
         /\ WaitingCount(es) = 0 => \A i \in 1 .. Len(entries'[b]) : entries'[b][i].state = "ready"
         /\ Len(entries'[b]) = Len(es)
         /\ \A i \in 1 .. Len(es) : entries'[b][i].kind = es[i].kind
         /\ \A c \in Blocks : c # b => entries'[c] = entries[c] /\ unresolved'[c] = unresolved[c]
<1>1. /\ entries' \in [Blocks -> Seq(EntrySet)] /\ Len(entries'[b]) = Len(es)
      /\ \A i \in 1 .. Len(es) : /\ entries'[b][i] = ArmedEntry(es[i])
                                 /\ entries'[b][i].field = es[i].field
                                 /\ entries'[b][i].kind = es[i].kind
      /\ \A c \in Blocks : c # b => entries'[c] = entries[c]
  BY ArmFacts
<1>2. unresolved'[b] = WaitingCount(es) /\ \A c \in Blocks : c # b => unresolved'[c] = unresolved[c]
  BY DEF ArmFrame, TypesInv
<1>3. ASSUME NEW i \in 1 .. Len(es)
      PROVE  ArmedEntry(es[i]).state # "ready" <=> Waits(es[i])
  <2>1. es[i].kind # "list"
    BY DEF ArrayOK, EntryOK
  <2>2. CASE es[i].state # "unarmed"
    BY <2>1, <2>2 DEF ArmedEntry, Waits, SettledAtOnce
  <2>3. CASE es[i].state = "unarmed" /\ SettledAtOnce(es[i])
    <3>1. ArmedEntry(es[i]) = Entry(es[i].field, es[i].kind, "ready")
      BY <2>3 DEF ArmedEntry
    <3> QED BY <2>3, <3>1, MadeEntry DEF Waits
  <2>4. CASE es[i].state = "unarmed" /\ ~SettledAtOnce(es[i])
    <3>1. ArmedEntry(es[i]) = Entry(es[i].field, es[i].kind, "armed")
      BY <2>4 DEF ArmedEntry
    <3> QED BY <2>1, <2>4, <3>1, MadeEntry DEF Waits
  <2> QED BY <2>2, <2>3, <2>4
<1>4. OpenEntries(entries'[b]) = {i \in 1 .. Len(es) : Waits(es[i])}
  BY <1>1, <1>3 DEF OpenEntries
<1>5. WaitingCount(es) = Cardinality(OpenEntries(entries'[b]))
  BY <1>4 DEF WaitingCount
<1>6. entries'[b] \in Seq(EntrySet)
  BY <1>1
<1>7. /\ Cardinality(OpenEntries(entries'[b])) \in Nat
      /\ Cardinality(OpenEntries(entries'[b])) = 0 =>
           \A i \in 1 .. Len(entries'[b]) : entries'[b][i].state = "ready"
  BY <1>6, OpenFacts
<1>8. Exact(b)'
  BY <1>2, <1>5 DEF Exact
<1> QED BY <1>1, <1>2, <1>5, <1>7, <1>8

\* process_frame is done with the entries: the frame resolves, is processed once
\* more, or waits for exactly what it has armed.
LEMMA ProcessEndsCounts ==
  ASSUME Answering, Answering', CountsInv, NEW b \in Blocks, ProcessEnds(b)
  PROVE  CountsInv'
<1>1. /\ TypesInv /\ TypesInv' /\ CallsInv /\ FieldsInv /\ Lists = {}
      /\ Counted /\ DrainsOnce /\ DrainsAgain /\ Roots \subseteq Blocks
  BY TypesAssumption DEF Answering, CountsInv
<1>2. PICK L \in Nat :
        /\ L = Len(stack) /\ L \in Depths /\ stack[L] = Innermost /\ At(L, "process")
        /\ Running("process") /\ Innermost.block = b /\ Innermost.at = "process"
        /\ ret = None /\ ret' = None /\ ~Running("block") /\ stack # <<>>
        /\ life' = life /\ draining' = draining
  BY <1>1, Here DEF ProcessEnds, InProcessLoop
<1>3. PICK es \in Seq(EntrySet) : es = Innermost.next /\ es = stack[L].next /\ ArmFrame(b, es)
  BY <1>1, <1>2, HereProcess DEF ProcessEnds, InProcessLoop
<1>4. ArrayOK(es)
  BY <1>1, <1>2, <1>3 DEF FieldsInv, ArraysOK
<1>5. /\ Exact(b)' /\ unresolved'[b] = WaitingCount(es) /\ WaitingCount(es) \in Nat
      /\ Len(entries'[b]) = Len(es)
      /\ \A i \in 1 .. Len(es) : entries'[b][i].kind = es[i].kind
      /\ \A c \in Blocks : c # b => entries'[c] = entries[c] /\ unresolved'[c] = unresolved[c]
  BY <1>1, <1>3, <1>4, ArmExact
<1>6. PICK T \in SUBSET Calls :
         /\ Moves(T, {}) /\ \A t \in T : t.at # "block"
         /\ \A n \in Depths' : At(n, "process")' => stack'[n].next = <<>>
  <2>1. PICK T \in SUBSET Calls :
           /\ Moves(T, {}) /\ \A t \in T : t.at # "settle" /\ Onward(t)
           /\ \A n \in Depths' : At(n, "process")' => stack'[n].next = <<>>
    BY <1>1, <1>2, EndsCalls
  <2>2. \A t \in T : t.at # "block"
    BY <1>2, <2>1 DEF Onward
  <2> QED BY <2>1, <2>2
<1>7. FinishesStay
  BY <1>1, <1>2, <1>6, FinishingStays
<1>8. \A c \in Blocks : c # b => ~InCall(c)
  BY <1>1, <1>2, OneProcess DEF InCall
<1>9. \A c \in Blocks : Queued(c) => Queued(c)'
  <2>1. ready' = Enqueued(b, ready) \/ ready' = ready
    BY DEF ProcessEnds
  <2>2. ready \in Seq(Blocks \cup {None})
    BY <1>1 DEF TypesInv
  <2>3. \A c : c \in Range(ready) => c \in Range(ready')
    BY <2>1, <2>2, EnqueuedFacts
  <2> QED BY <1>2, <2>3 DEF Queued
<1>10. Counts(b)'
  <2>1. CASE WaitingCount(es) > 0
    BY <1>5, <2>1 DEF Counts
  <2>2. CASE ~(WaitingCount(es) > 0) \/ es = <<>>
    <3>1. stack' = Top(ResolveCall(b)) \/ stack' = Top(ProcessLoop(b, 0, <<>>))
      BY <1>3, <2>2 DEF ProcessEnds
    <3>2. ResolveCall(b) \in Calls /\ ProcessLoop(b, 0, <<>>) \in Calls
      BY MadeCalls, StartedProcess
    <3>3. PICK t \in Calls : stack' = Top(t) /\ t \in {ResolveCall(b), ProcessLoop(b, 0, <<>>)}
      BY <3>1, <3>2
    <3>4. Becomes(t)
      BY <1>1, <1>2, <3>3, TopFacts
    <3>5. t.at \in {"process", "resolve"} /\ t.block = b
      BY <3>3, MadeOthers, MadeProcess
    <3>6. L \in Depths' /\ stack'[L] = t
      BY <1>2, <3>4 DEF Becomes, Depths
    <3>7. InCall(b)'
      BY <3>5, <3>6 DEF InCall, At
    <3> QED BY <3>7 DEF Counts
  <2> QED BY <2>1, <2>2
<1>11. Counted'
  <2>1. SUFFICES ASSUME NEW c \in Blocks, life[c] = "suspended", c # b
                 PROVE  Counts(c)'
    BY <1>2, <1>10 DEF Counted
  <2>2. Counts(c) /\ ~InCall(c) /\ ret # Frame(c)
    BY <1>1, <1>2, <1>8, <2>1, ResultFacts DEF Counted
  <2>3. Finishing(c, 1) => Finishing(c, 1)'
    BY <1>7 DEF FinishesStay, Finishing
  <2>4. Exact(c) => Exact(c)'
    BY <1>5, <2>1 DEF Exact
  <2> QED BY <1>5, <1>9, <2>1, <2>2, <2>3, <2>4 DEF Counts
<1>12. DrainsOnce'
  <2>1. SUFFICES ASSUME NEW r \in Roots, Finishing(r, 1)' \/ Finishing(r, 2)'
                 PROVE  \A i \in 1 .. Len(entries'[r]) :
                             \/ entries'[r][i].kind = "block"
                             \/ entries'[r][i].state = "ready" /\ (Queued(r)' \/ InCall(r)')
    BY <1>6 DEF DrainsOnce
  <2>2. Finishing(r, 1) \/ Finishing(r, 2)
    BY <1>7, <2>1 DEF FinishesStay
  <2>3. CASE r = b
    <3>1. \A i \in 1 .. Len(es) : es[i].kind = "block"
      BY <1>1, <1>2, <1>3, <2>2, <2>3 DEF DrainsOnce
    <3> QED BY <1>5, <2>3, <3>1
  <2>4. CASE r # b
    BY <1>1, <1>5, <1>8, <1>9, <2>2, <2>4 DEF DrainsOnce
  <2> QED BY <2>3, <2>4
<1>13. DrainsAgain'
  <2>1. SUFFICES ASSUME NEW r \in Roots, Finishing(r, 2)'
                 PROVE  \A i \in 1 .. Len(entries'[r]) :
                             entries'[r][i].kind = "block" /\ entries'[r][i].state = "ready"
    BY <1>6 DEF DrainsAgain
  <2>2. Finishing(r, 2)
    BY <1>7, <2>1 DEF FinishesStay
  <2>3. CASE r = b
    <3>1. es = <<>>
      BY <1>1, <1>2, <1>3, <2>2, <2>3 DEF DrainsAgain
    <3> QED BY <1>5, <2>3, <3>1
  <2>4. CASE r # b
    BY <1>1, <1>5, <2>2, <2>4 DEF DrainsAgain
  <2> QED BY <2>3, <2>4
<1> QED BY <1>11, <1>12, <1>13 DEF CountsInv


\* When the root is the only call, no drain runs, and every other suspended frame
\* waits for as many entries as it counts.
LEMMA RootAlone ==
  ASSUME Answering, CountsInv, Running("block"), Len(stack) = 1, ret = None,
         NEW b \in Blocks, Innermost.block = b
  PROVE  /\ Depths = {1} /\ At(1, "block") /\ stack[1] = Innermost /\ ~draining
         /\ \A c \in Blocks : ~InCall(c) /\ ~Queued(c)
         /\ \A c \in Blocks : c # b /\ life[c] = "suspended" => Exact(c) /\ unresolved[c] > 0
<1>1. TypesInv /\ CallsInv /\ Counted /\ OneDrain
  BY DEF Answering, CountsInv, CallsInv
<1>2. Depths = {1} /\ At(1, "block") /\ stack[1] = Innermost /\ stack[1].at = "block"
  BY <1>1, InnermostFacts DEF Depths, At
<1>3. ~draining
  BY <1>1, <1>2 DEF OneDrain, At
<1>4. \A c \in Blocks : ~InCall(c) /\ ~Queued(c)
  BY <1>2, <1>3 DEF InCall, Queued, At
<1>5. ASSUME NEW c \in Blocks, c # b, life[c] = "suspended"
      PROVE  Exact(c) /\ unresolved[c] > 0
  <2>1. ret # Frame(c)
    BY ResultFacts
  <2>2. ~Finishing(c, 1)
    BY <1>2, <1>5 DEF Finishing
  <2>3. Counts(c)
    BY <1>1, <1>5 DEF Counted
  <2> QED BY <1>4, <2>1, <2>2, <2>3 DEF Counts
<1> QED BY <1>2, <1>3, <1>4, <1>5

\* finalize of a root whose entries have all settled enqueues it and drains.
LEMMA RootDrainsCounts ==
  ASSUME Answering, Answering', CountsInv, Running("block"), Len(stack) = 1, ret = None,
         NEW b \in Roots, Innermost.block = b, NEW t \in Calls, BecomesAndEnters(t, DrainLoop),
         t.at = "block", t.block = b, NEW k \in {1, 2}, t.index = Len(Ops[b]) + k,
         Queued(b)',
         \A c \in Blocks : c # b => entries'[c] = entries[c] /\ unresolved'[c] = unresolved[c]
                                      /\ life'[c] = life[c],
         \A i \in 1 .. Len(entries'[b]) : entries'[b][i].state = "ready",
         k = 2 => \A i \in 1 .. Len(entries'[b]) : entries'[b][i].kind = "block"
  PROVE  CountsInv'
<1>1. b \in Blocks /\ Len(Ops[b]) \in Nat /\ Roots \subseteq Blocks
  BY TypesAssumption
<1>2. \A c \in Blocks : c # b /\ life[c] = "suspended" => Exact(c) /\ unresolved[c] > 0
  BY <1>1, RootAlone
<1>3. Counted'
  <2>1. SUFFICES ASSUME NEW c \in Blocks, life'[c] = "suspended", c # b
                 PROVE  Exact(c)' /\ unresolved'[c] > 0
    BY DEF Counted, Counts
  <2>2. Exact(c) /\ unresolved[c] > 0 /\ entries'[c] = entries[c] /\ unresolved'[c] = unresolved[c]
    BY <1>2, <2>1
  <2> QED BY <2>2 DEF Exact
<1>4. /\ Depths' = {1, 2} /\ stack'[1] = t /\ stack'[2].at = "drain"
  <2>1. DrainLoop.at = "drain"
    BY MadeOthers
  <2>2. Len(stack') = 2 /\ stack'[1] = t /\ stack'[2] = DrainLoop
    BY DEF BecomesAndEnters
  <2> QED BY <2>1, <2>2 DEF Depths
<1>5. \A n \in Depths' : ~At(n, "process")'
  BY <1>4 DEF At
<1>6. \A r \in Roots, j \in {1, 2} : Finishing(r, j)' => r = b /\ j = k
  BY <1>1, <1>4 DEF Finishing
<1>7. DrainsOnce'
  BY <1>5, <1>6 DEF DrainsOnce
<1>8. DrainsAgain'
  BY <1>5, <1>6 DEF DrainsAgain
<1> QED BY <1>3, <1>7, <1>8 DEF CountsInv


\* finalize arms a frame that waits and suspends it; a root all of whose entries
\* have settled meanwhile is drained at once.
LEMMA FinalizeSuspendsCounts ==
  ASSUME Answering, Answering', CountsInv, NEW b \in Blocks, FinalizeSuspends(b)
  PROVE  CountsInv'
<1>1. /\ TypesInv /\ TypesInv' /\ CallsInv /\ FieldsInv /\ Lists = {} /\ Items = {}
      /\ Len(Ops[b]) \in Nat
  BY NoLists, TypesAssumption DEF Answering
<1>2. /\ ret = None /\ Running("block") /\ Innermost.block = b
      /\ Innermost.index = Len(Ops[b]) + 0
      /\ life' = [life EXCEPT ![b] = "suspended"]
  BY DEF FinalizeSuspends, Finalizing
<1>3. PICK es \in Seq(EntrySet) : es = entries[b] /\ ArmFrame(b, es)
  BY <1>1 DEF FinalizeSuspends, TypesInv
<1>4. /\ stack # <<>> /\ ~Running("process") /\ ~Running("resolve") /\ Innermost.at = "block"
      /\ Innermost \in Calls /\ Innermost.index <= Len(Ops[Innermost.block])
      /\ b \in Roots => Len(stack) = 1
  <2>1. Innermost.index <= Len(Ops[Innermost.block])
    BY <1>1, <1>2
  <2> QED BY <1>1, <1>2, <2>1, Here, HereStarted
<1>5. life[b] = "running" /\ life'[b] = "suspended" /\ \A c \in Blocks : c # b => life'[c] = life[c]
  <2>1. life[b] = "running"
    BY <1>2, <1>4, HereLives
  <2> QED BY <1>1, <1>2, <2>1 DEF TypesInv
<1>6. ArrayOK(es)
  BY <1>1, <1>3 DEF FieldsInv, ArraysOK
<1>7. /\ Exact(b)' /\ unresolved'[b] = WaitingCount(es) /\ WaitingCount(es) \in Nat
      /\ WaitingCount(es) = 0 => \A i \in 1 .. Len(entries'[b]) : entries'[b][i].state = "ready"
      /\ \A c \in Blocks : c # b => entries'[c] = entries[c] /\ unresolved'[c] = unresolved[c]
  BY <1>1, <1>3, <1>6, ArmExact
<1>8. CASE b \in Roots /\ WaitingCount(es) = 0
  <2>1. Len(stack) = 1 /\ ~draining
    BY <1>2, <1>4, <1>8, RootAlone
  <2>2. /\ stack' = Append(Advance, DrainLoop) /\ ret' = ret
        /\ ready' = Enqueued(b, ready) /\ draining'
    BY <1>3, <1>8, <2>1 DEF FinalizeSuspends
  <2>3. PICK t \in Calls : /\ t = Advanced(Innermost) /\ t.at = "block" /\ t.block = b
                           /\ t.index = Innermost.index + 1
    <3>1. Advanced(Innermost) = OpLoop(b, Innermost.index + 1)
      BY <1>2, <1>4 DEF Advanced
    <3>2. Innermost.index + 1 \in Nat
      BY <1>1, <1>2
    <3> QED BY <3>1, <3>2, MadeCalls, MadeBlock
  <2>4. BecomesAndEnters(t, DrainLoop)
    BY <1>1, <1>4, <2>2, <2>3, TopPushFacts, MadeCalls DEF Advance
  <2>5. Queued(b)'
    BY <1>1, <2>2, EnqueuedFacts DEF Queued, TypesInv
  <2>6. t.index = Len(Ops[b]) + 1
    BY <1>1, <1>2, <2>3
  <2> QED BY <1>2, <1>5, <1>7, <1>8, <2>1, <2>3, <2>4, <2>5, <2>6, RootDrainsCounts
<1>9. CASE ~(b \in Roots /\ WaitingCount(es) = 0)
  <2>1. /\ stack' = Pop /\ ret' = IF b \in Roots THEN None ELSE Frame(b)
        /\ ready' = Enqueued(b, ready) \/ ready' = ready
        /\ draining' = draining \/ (b \in Roots /\ draining' = (draining \/ FALSE))
    BY <1>1, <1>3, <1>9 DEF FinalizeSuspends, Returns
  <2>2. draining' = draining
    BY <1>1, <2>1 DEF TypesInv
  <2>3. Leaves
    BY <1>1, <1>4, <2>1, PopFacts
  <2>4. ret' # None \/ Len(stack) = 1
    BY <1>4, <2>1, ResultFacts
  <2>5. Moves({}, {}) /\ StepsOK({}, {})
    BY <1>1, <1>4, <2>3, <2>4, ReturnsQuietly
  <2>6. CallsStay /\ FinishesStay /\ NextsGrow
    BY <1>1, <1>4, <2>5, StepStays
  <2>7. Counts(b)'
    <3>1. WaitingCount(es) > 0 \/ ret' = Frame(b)
      BY <1>7, <1>9, <2>1
    <3> QED BY <1>7, <3>1 DEF Counts
  <2>8. ~Finishing(b, 1) /\ ~Finishing(b, 2)
    BY <1>1, <1>2, <1>4, HereUnfinished
  <2>9. \A c \in Blocks : Queued(c) => Queued(c)'
    BY <1>1, <2>1, <2>2, EnqueuedFacts DEF Queued, TypesInv
  <2>10. \A c \in Blocks : ret # Frame(c)
    BY <1>2, ResultFacts
  <2>11. \A c \in Blocks : life'[c] = "suspended" => life[c] = "suspended" \/ Counts(c)'
    BY <1>5, <2>7
  <2>12. \A c \in Blocks : \/ entries'[c] = entries[c] /\ unresolved'[c] = unresolved[c]
                           \/ /\ life'[c] # "suspended" \/ Counts(c)'
                              /\ ~Finishing(c, 1) /\ ~Finishing(c, 2)
    BY <1>7, <2>7, <2>8
  <2> QED BY <2>6, <2>9, <2>10, <2>11, <2>12, CountsGo
<1> QED BY <1>8, <1>9

\* After its drain a root that is complete again is drained once more; any other
\* waits for the child frames it adopted.
LEMMA FinalizeReturnsCounts ==
  ASSUME Answering, Answering', AnswersInv, CountsInv, NEW b \in Blocks, FinalizeReturns(b)
  PROVE  CountsInv'
<1>1. /\ ret = None /\ Running("block") /\ Innermost.block = b
      /\ Innermost.index = Len(Ops[b]) + 1 \/ Innermost.index = Len(Ops[b]) + 2
      /\ UNCHANGED <<entries, unresolved, life, response>>
  BY DEF FinalizeReturns, Finalizing, tree, frames
<1>2. /\ TypesInv /\ TypesInv' /\ CallsInv /\ FieldsInv /\ LivesInv /\ PlacesInv /\ ValuesInv
      /\ RootsInv /\ Counted /\ DrainsOnce /\ DrainsAgain /\ Len(Ops[b]) \in Nat
  BY TypesAssumption DEF Answering, AnswersInv, CountsInv
<1>3. /\ stack # <<>> /\ ~Running("process") /\ Innermost.at = "block"
      /\ Len(stack) \in Depths /\ At(Len(stack), "block") /\ stack[Len(stack)] = Innermost
      /\ Innermost \in Calls
  BY <1>1, <1>2, Here
<1>4. b \in Roots /\ Len(stack) = 1
  <2>1. b \in Roots
    BY <1>1, <1>2, <1>3 DEF PlacesInv, RootDrains
  <2> QED BY <1>1, <1>2, <2>1, HereStarted
<1>5. life[b] \in {"suspended", "done"}
  BY <1>1, <1>2, HereFinalized
<1>6. /\ Depths = {1} /\ At(1, "block") /\ stack[1] = Innermost /\ ~draining
      /\ \A c \in Blocks : ~InCall(c) /\ ~Queued(c)
      /\ \A c \in Blocks : c # b /\ life[c] = "suspended" => Exact(c) /\ unresolved[c] > 0
  BY <1>1, <1>4, RootAlone
<1>7. ret # Frame(b)
  BY <1>1, ResultFacts
<1>8. life[b] = "suspended" =>
        /\ Exact(b) /\ (unresolved[b] > 0 \/ Finishing(b, 1))
        /\ response = None
  <2>1. SUFFICES ASSUME life[b] = "suspended"
                 PROVE  /\ Exact(b) /\ (unresolved[b] > 0 \/ Finishing(b, 1))
                        /\ response = None
    OBVIOUS
  <2>2. Counts(b)
    BY <1>2, <2>1 DEF Counted
  <2>3. ASSUME NEW c \in Roots, life[c] = "done" PROVE FALSE
    <3>1. c = b
      BY <1>2, <1>4, <2>1, <2>3, OneRoot
    <3> QED BY <2>1, <2>3, <3>1
  <2>4. response = None
    BY <1>2, <2>3 DEF ValuesInv, Responded
  <2> QED BY <1>6, <1>7, <2>2, <2>4 DEF Counts
<1>9. CASE response = None /\ unresolved[b] = 0 /\ EnqueueAndDrain(TRUE, b, ready, Advance)
           /\ ret' = ret /\ Innermost.index = Len(Ops[b]) + 1
  <2>1. life[b] = "suspended"
    <3>1. life[b] # "done"
      BY <1>2, <1>4, <1>9, ResponseAssumption DEF ValuesInv, Responded
    <3> QED BY <1>5, <3>1
  <2>2. /\ stack' = Append(Advance, DrainLoop) /\ ready' = Enqueued(b, ready) /\ draining'
    BY <1>6, <1>9 DEF EnqueueAndDrain
  <2>3. PICK t \in Calls : /\ t = Advanced(Innermost) /\ t.at = "block" /\ t.block = b
                           /\ t.index = Innermost.index + 1
    <3>1. Advanced(Innermost) = OpLoop(b, Innermost.index + 1)
      BY <1>1, <1>3 DEF Advanced
    <3>2. Innermost.index + 1 \in Nat
      BY <1>1, <1>2
    <3> QED BY <3>1, <3>2, MadeCalls, MadeBlock
  <2>4. BecomesAndEnters(t, DrainLoop)
    BY <1>2, <1>3, <2>2, <2>3, TopPushFacts, MadeCalls DEF Advance
  <2>5. Queued(b)'
    BY <1>2, <2>2, EnqueuedFacts DEF Queued, TypesInv
  <2>6. t.index = Len(Ops[b]) + 2
    BY <1>2, <1>9, <2>3
  <2>7. \A i \in 1 .. Len(entries[b]) : entries[b][i].state = "ready"
    <3>1. entries[b] \in Seq(EntrySet) /\ Cardinality(OpenEntries(entries[b])) = 0
      BY <1>2, <1>8, <1>9, <2>1 DEF TypesInv, Exact
    <3> QED BY <3>1, OpenFacts
  <2>8. \A i \in 1 .. Len(entries[b]) : entries[b][i].kind = "block"
    <3>1. Finishing(b, 1)
      BY <1>1, <1>4, <1>6, <1>9 DEF Finishing
    <3> QED BY <1>2, <1>4, <1>6, <3>1 DEF DrainsOnce
  <2> QED BY <1>1, <1>4, <2>3, <2>4, <2>5, <2>6, <2>7, <2>8, RootDrainsCounts
<1>10. CASE /\ stack' = Pop /\ ready' = ready /\ draining' = draining /\ ret' = None
            /\ ~(Innermost.index = Len(Ops[b]) + 1 /\ response = None /\ unresolved[b] = 0)
  <2>1. Depths' = {}
    <3>1. Len(stack') = 0
      BY <1>2, <1>3, <1>4, <1>10, PopFacts DEF Leaves
    <3> QED BY <3>1 DEF Depths
  <2>2. ASSUME NEW c \in Blocks, life[c] = "suspended" PROVE Exact(c) /\ unresolved[c] > 0
    <3>1. CASE c = b
      <4>1. unresolved[b] \in Nat
        BY <1>2 DEF TypesInv
      <4>2. CASE Finishing(b, 1)
        <5>1. Innermost.index = Len(Ops[b]) + 1
          BY <1>6, <4>2 DEF Finishing
        <5> QED BY <1>8, <1>10, <2>2, <3>1, <4>1, <5>1
      <4> QED BY <1>8, <2>2, <3>1, <4>2
    <3> QED BY <1>6, <2>2, <3>1
  <2>3. Counted'
    <3>1. \A c \in Blocks : life'[c] = "suspended" => Exact(c)' /\ unresolved'[c] > 0
      BY <1>1, <2>2 DEF Exact
    <3> QED BY <3>1 DEF Counted, Counts
  <2>4. DrainsOnce' /\ DrainsAgain'
    BY <2>1 DEF DrainsOnce, DrainsAgain, Finishing, At
  <2> QED BY <2>3, <2>4 DEF CountsInv
<1>11. \/ response = None /\ unresolved[b] = 0 /\ EnqueueAndDrain(TRUE, b, ready, Advance)
          /\ ret' = ret /\ Innermost.index = Len(Ops[b]) + 1
       \/ /\ stack' = Pop /\ ready' = ready /\ draining' = draining /\ ret' = None
          /\ ~(Innermost.index = Len(Ops[b]) + 1 /\ response = None /\ unresolved[b] = 0)
  BY <1>1, <1>4 DEF FinalizeReturns, Finalizing
<1> QED BY <1>9, <1>10, <1>11


\* A request starts with one running root, and no frame is suspended.
LEMMA InitCounts ==
  ASSUME Init
  PROVE  CountsInv
<1>1. PICK root \in Roots :
        /\ life = [b \in Blocks |-> IF b = root THEN "running" ELSE "none"]
        /\ stack = <<OpLoop(root, 0)>>
  BY DEF Init
<1>2. root \in Blocks /\ OpLoop(root, 0) \in Calls /\ \A b \in Blocks : Len(Ops[b]) \in Nat
  BY TypesAssumption, MadeCalls
<1>3. PICK a \in Calls : a = OpLoop(root, 0)
  BY <1>2
<1>4. a.at = "block" /\ a.index = 0
  BY <1>3, MadeBlock
<1>5. Len(stack) = 1 /\ stack[1] = a
  BY <1>1, <1>3
<1>6. Depths = {1} /\ ~At(1, "process") /\ stack[1].index = 0
  BY <1>4, <1>5 DEF Depths, At
<1>7. Counted
  BY <1>1 DEF Counted
<1>8. \A b \in Roots, k \in {1, 2} : ~Finishing(b, k)
  BY <1>2, <1>6, TypesAssumption DEF Finishing
<1> QED BY <1>7, <1>8 DEF CountsInv, DrainsOnce, DrainsAgain

\* Every step keeps someone in charge of each suspended frame.
LEMMA StepCounts ==
  ASSUME Answering, AnswersInv, CountsInv, Next
  PROVE  CountsInv'
<1>0. Answering'
  BY StepAnswering
<1>1. ASSUME NEW b \in Blocks, ResolverReturnsValue(b) PROVE CountsInv'
  BY <1>0, <1>1, ResolverReturnsValueCounts
<1>2. ASSUME NEW b \in Blocks, ResolverReturnsPromise(b) PROVE CountsInv'
  BY <1>0, <1>2, ResolverReturnsPromiseCounts
<1>3. ASSUME NEW b \in Blocks, BlockTakesResult(b) PROVE CountsInv'
  BY <1>0, <1>3, BlockTakesResultCounts
<1>4. ASSUME NEW b \in Blocks, FinalizeComplete(b) PROVE CountsInv'
  BY <1>0, <1>4, FinalizeCompleteCounts
<1>5. ASSUME NEW b \in Blocks, FinalizeSuspends(b) PROVE CountsInv'
  BY <1>0, <1>5, FinalizeSuspendsCounts
<1>6. ASSUME NEW b \in Blocks, FinalizeReturns(b) PROVE CountsInv'
  BY <1>0, <1>6, FinalizeReturnsCounts
<1>7. ASSUME NEW b \in Blocks, ProcessMoves(b) PROVE CountsInv'
  BY <1>0, <1>7, ProcessMovesCounts
<1>8. ASSUME NEW b \in Blocks, ProcessConsumes(b) PROVE CountsInv'
  BY <1>0, <1>8, ProcessConsumesCounts
<1>9. ASSUME NEW b \in Blocks, ProcessTakesResult(b) PROVE CountsInv'
  BY <1>0, <1>9, ProcessTakesResultCounts
<1>10. ASSUME NEW b \in Blocks, ProcessEnds(b) PROVE CountsInv'
  BY <1>0, <1>10, ProcessEndsCounts
<1>11. ASSUME NEW b \in Blocks, ResolveFrame(b) PROVE CountsInv'
  BY <1>0, <1>11, ResolveFrameCounts
<1>12. ASSUME NEW f \in Fields, SettleEntry(f) PROVE CountsInv'
  BY <1>0, <1>12, SettleEntryCounts
<1>13. CASE DrainNext
  BY <1>0, <1>13, DrainNextCounts
<1>14. CASE SettleReturns
  BY <1>0, <1>14, SettleReturnsCounts
<1>15. ASSUME NEW p \in Promises, SettlePromise(p) PROVE CountsInv'
  BY <1>0, <1>15, SettlePromiseCounts
<1>16. CASE Delivered
  BY <1>16, SameCounts DEF Delivered
<1>17. \A f : ~(\/ ItemIsValue(f) \/ ItemIsPromise(f) \/ ListTakesResult(f)
                \/ ListComplete(f) \/ ListPends(f))
  BY NoLists DEF ItemIsValue, ItemIsPromise, ListTakesResult, ListComplete, ListPends,
    InItemLoop
<1>18. (\A b : ~SettleItem(b)) /\ ~SettleTakesResult
  BY NoLists DEF SettleItem, SettleTakesResult
<1> QED BY <1>1, <1>2, <1>3, <1>4, <1>5, <1>6, <1>7, <1>8, <1>9, <1>10, <1>11, <1>12, <1>13,
           <1>14, <1>15, <1>16, <1>17, <1>18
        DEF Next, EngineStep

\* Without lists, someone is in charge of every suspended frame in every state.
LEMMA CountsHold ==
  ASSUME Lists = {}
  PROVE  Spec => [](Answering /\ AnswersInv /\ CountsInv)
<1>1. Init => CountsInv
  BY InitCounts
<1>2. Answering /\ AnswersInv /\ CountsInv /\ Next => CountsInv'
  BY StepCounts
<1>3. CountsInv /\ UNCHANGED vars => CountsInv'
  BY SameCounts
<1> QED BY <1>1, <1>2, <1>3, AnswersHold, PTL DEF Spec

\* Without lists, whenever the executor has returned to the event loop each
\* suspended frame waits for at least one entry, and its pending_unresolved is the
\* number of its entries that have not settled: no interleaving of settling, arming,
\* draining and resolving leaves a complete frame with nobody to process it
\* (arm_promises, enqueue_and_drain, drain, process_frame, resolve_frame, finalize).
THEOREM FramesHold ==
  ASSUME Lists = {}
  PROVE  Spec => []NoFrameForgotten
<1>1. ASSUME Answering, CountsInv PROVE NoFrameForgotten
  <2>1. SUFFICES ASSUME stack = <<>>, NEW b \in Blocks, life[b] = "suspended"
                 PROVE  /\ unresolved[b] > 0
                        /\ unresolved[b] = Cardinality({i \in 1 .. Len(entries[b]) :
                                                          StillWaits(entries[b][i])})
    BY DEF NoFrameForgotten
  <2>2. TypesInv /\ CallsInv /\ FieldsInv /\ Lists = {} /\ Counted
    BY <1>1 DEF Answering, CountsInv
  <2>3. Depths = {} /\ ret = None /\ ~draining
    BY <2>1, <2>2, OneProcess DEF Depths
  <2>4. ~InCall(b) /\ ~Queued(b) /\ ~Finishing(b, 1) /\ ret # Frame(b)
    BY <2>3, ResultFacts DEF InCall, Queued, Finishing, At
  <2>5. Exact(b) /\ unresolved[b] > 0
    BY <2>1, <2>2, <2>4 DEF Counted, Counts
  <2>6. \A i \in 1 .. Len(entries[b]) : StillWaits(entries[b][i]) <=> entries[b][i].state # "ready"
    <3>1. \A i \in 1 .. Len(entries[b]) : entries[b][i].kind # "list"
      BY <2>2 DEF FieldsInv, ArraysOK, ArrayOK, EntryOK
    <3> QED BY <3>1 DEF StillWaits
  <2>7. {i \in 1 .. Len(entries[b]) : StillWaits(entries[b][i])} = OpenEntries(entries[b])
    BY <2>6 DEF OpenEntries
  <2> QED BY <2>5, <2>7 DEF Exact
<1> QED BY <1>1, CountsHold, PTL

=============================================================================
