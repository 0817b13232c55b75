--------------------------- MODULE LifecycleProofs ---------------------------
(***************************************************************************)
(* Proofs about Lifecycle for every set of requests, fields and waves and  *)
(* every size of the pool.                                                 *)
(*                                                                         *)
(* The argument: a pair is in the pool or held by at most one promise that *)
(* has not settled (HeapOK, PairsHeld), and a pair that points somewhere   *)
(* is the one the entry it points at was armed with, while that entry      *)
(* waits (PointsBack).  So a pair that fires finds its own entry, and      *)
(* emptying a frame of a request leaves no pair that points at it once the *)
(* pairs its entries name are disarmed.                                    *)
(*                                                                         *)
(* A waiting entry stays armed (WaitingIsArmed) unless a cancellation      *)
(* finds, in an entry that settled, a pair that serves another request by  *)
(* now, which takes a pool (ContextsAreOwn).                               *)
(***************************************************************************)
EXTENDS Lifecycle, TLAPS

-----------------------------------------------------------------------------
(* The invariant about pairs. *)

InPool(h, c) == \E i \in 1..Len(h.pool) : h.pool[i] = c

\* A table of pairs: every pooled pair is made and pooled once.
HeapOK(h) ==
  /\ h = [made |-> h.made, to |-> h.to, pool |-> h.pool]
  /\ h.made \in Nat
  /\ h.to \in [1..h.made -> Target \cup {Idle}]
  /\ h.pool \in Seq(1..h.made)
  /\ Len(h.pool) <= PoolMax
  /\ \A i, j \in 1..Len(h.pool) : h.pool[i] = h.pool[j] => i = j

PairsHeld ==
  \A p \in PendingPromises :
    /\ PairOf(p) \in 1..heap.made
    /\ ~InPool(heap, PairOf(p))
    /\ heap.to[PairOf(p)] \in {Idle, [req |-> p[1], field |-> p[2]]}
    /\ \A q \in PendingPromises : PairOf(q) = PairOf(p) => q = p

\* The pair c of table h is what the entry it points at, in frames fs, waits for.
PointsAtItsEntry(h, fs, c) ==
  h.to[c] # Idle => /\ fs[h.to[c].req].ctx[h.to[c].field] = c
                    /\ fs[h.to[c].req].entry[h.to[c].field] = "waiting"
PointsBack == \A c \in 1..heap.made : PointsAtItsEntry(heap, frame, c)

NotStarted ==
  \A r \in Requests :
    outcome[r] = "none" => /\ frame[r].entry = Absent
                           /\ promise[r] = Absent
                           /\ ~cancelled[r] /\ ~completed[r]

PairInv ==
  /\ TypeOK
  /\ HeapOK(heap)
  /\ PairsHeld
  /\ PointsBack
  /\ NotStarted
  /\ CancelledIsTornDown

-----------------------------------------------------------------------------
(* The invariant about outcomes, where only the hook of the C driver dies. *)

FrameMeansPending ==
  \A r \in Requests : frame[r].entry # Absent => outcome[r] = "pending"
CompletedIsEmpty ==
  \A r \in Requests : completed[r] => frame[r].entry = Absent
PendingPromiseIsAwaited ==
  \A r \in Requests, f \in Fields :
    outcome[r] = "pending" /\ promise[r][f] = "pending" => frame[r].entry[f] = "waiting"
HeldIsNotRefused ==
  \A r \in Requests : mode[r] = "async" => outcome[r] # "refused"
DriversDriveOnce ==
  /\ \A i \in 1..Len(stack) : /\ mode[stack[i].req] \in Driven
                              /\ outcome[stack[i].req] = "pending"
  /\ \A i, j \in 1..Len(stack) : stack[i].req = stack[j].req => i = j

OutcomeInv ==
  /\ FrameMeansPending
  /\ CompletedIsEmpty
  /\ PendingPromiseIsAwaited
  /\ HeldIsNotRefused
  /\ DriversDriveOnce

-----------------------------------------------------------------------------
(* The table of pairs *)

\* Types of the constants and of what a pair points at.
LEMMA PairTypes ==
  /\ PromiseFields \in Nat /\ PoolMax \in Nat
  /\ Promised = 1..PromiseFields /\ Promised \subseteq Fields
  /\ NoRequest \notin Requests /\ Idle \notin Target
  /\ \A t \in Target : t = [req |-> t.req, field |-> t.field]
                       /\ t.req \in Requests /\ t.field \in Promised
BY FieldAssumption, BoundAssumption, NoRequestAssumption
   DEF Promised, Fields, Idle, Target

\* Promises that are armed get different pairs, pooled ones or new ones.
LEMMA TakenFacts ==
  ASSUME NEW h, HeapOK(h)
  PROVE  /\ \A i \in Promised : TakenPair(h, i) \in 1..(h.made + PromiseFields - FromPool(h))
         /\ \A i \in Promised : TakenPair(h, i) \in 1..h.made => InPool(h, TakenPair(h, i))
         /\ \A i, j \in Promised : TakenPair(h, i) = TakenPair(h, j) => i = j
         /\ \A c \in 1..(h.made + PromiseFields - FromPool(h)) :
              (\A i \in Promised : TakenPair(h, i) # c) => c \in 1..h.made
         /\ \A k \in 1..(Len(h.pool) - FromPool(h)), i \in Promised :
              h.pool[k] # TakenPair(h, i)
<1> DEFINE n == Len(h.pool)
<1>1. /\ n \in Nat /\ h.made \in Nat
      /\ \A k \in 1..n : h.pool[k] \in 1..h.made
      /\ \A i, j \in 1..n : h.pool[i] = h.pool[j] => i = j
  BY DEF HeapOK
<1>2. /\ FromPool(h) \in Nat /\ FromPool(h) <= n /\ FromPool(h) <= PromiseFields
      /\ FromPool(h) = n \/ FromPool(h) = PromiseFields
  BY <1>1, PairTypes DEF FromPool, Least
<1>4. \A i \in Promised : i \in Nat /\ i >= 1 /\ i <= PromiseFields
  BY PairTypes
<1>3. ASSUME NEW i \in Promised
      PROVE  \/ /\ i <= n /\ n + 1 - i \in 1..n
                /\ TakenPair(h, i) = h.pool[n + 1 - i] /\ TakenPair(h, i) \in 1..h.made
             \/ i > n /\ TakenPair(h, i) = h.made + i - n
  <2>1. i \in Nat /\ i >= 1
    BY <1>4
  <2>2. CASE i <= n
    <3>1. n + 1 - i \in 1..n
      BY <2>1, <2>2, <1>1
    <3>2. TakenPair(h, i) = h.pool[n + 1 - i]
      BY <2>2 DEF TakenPair
    <3> QED BY <2>2, <3>1, <3>2, <1>1
  <2>3. CASE ~(i <= n)
    <3>1. TakenPair(h, i) = h.made + i - n
      BY <2>3 DEF TakenPair
    <3> QED BY <2>1, <2>3, <3>1, <1>1
  <2> QED BY <2>2, <2>3
<1>5. \A i \in Promised : TakenPair(h, i) \in 1..(h.made + PromiseFields - FromPool(h))
  BY <1>1, <1>2, <1>3, <1>4, PairTypes
<1>6. \A i \in Promised : TakenPair(h, i) \in 1..h.made => InPool(h, TakenPair(h, i))
  BY <1>1, <1>3, <1>4 DEF InPool
<1>7. ASSUME NEW i \in Promised, NEW j \in Promised, TakenPair(h, i) = TakenPair(h, j)
      PROVE  i = j
  <2>1. CASE i <= n /\ j <= n
    <3>1. /\ n + 1 - i \in 1..n /\ n + 1 - j \in 1..n
          /\ h.pool[n + 1 - i] = h.pool[n + 1 - j]
      BY <2>1, <1>3, <1>7, <1>4, <1>1
    <3>2. n + 1 - i = n + 1 - j
      BY <3>1, <1>1
    <3> QED BY <3>2, <1>4, <1>1
  <2>2. CASE ~(i <= n /\ j <= n)
    BY <2>2, <1>1, <1>3, <1>4, <1>7
  <2> QED BY <2>1, <2>2
<1>8. ASSUME NEW c \in 1..(h.made + PromiseFields - FromPool(h)), c > h.made
      PROVE  \E i \in Promised : TakenPair(h, i) = c
  <2>1. c - h.made + n \in 1..PromiseFields /\ c - h.made + n > n
    BY <1>1, <1>2, <1>8, PairTypes
  <2> QED BY <2>1, <1>1, PairTypes DEF TakenPair
<1>9. ASSUME NEW k \in 1..(n - FromPool(h)), NEW i \in Promised
      PROVE  h.pool[k] # TakenPair(h, i)
  <2>1. CASE i <= n
    <3>1. n + 1 - i \in 1..n /\ TakenPair(h, i) = h.pool[n + 1 - i]
      BY <2>1, <1>3, <1>4, <1>1
    <3>2. k \in 1..n /\ k # n + 1 - i
      BY <2>1, <1>1, <1>2, <1>4, PairTypes
    <3> QED BY <3>1, <3>2, <1>1
  <2>2. CASE ~(i <= n)
    <3>1. TakenPair(h, i) = h.made + i - n /\ i > n
      BY <2>2, <1>3, <1>4, <1>1
    <3>2. k \in 1..n
      BY <1>1, <1>2
    <3> QED BY <3>1, <3>2, <1>1, <1>4
  <2> QED BY <2>1, <2>2
<1> QED BY <1>1, <1>5, <1>6, <1>7, <1>8, <1>9, PairTypes

\* Arming a frame keeps the table sound, points the taken pairs at their entries
\* and leaves every other pair alone.
LEMMA ArmedFacts ==
  ASSUME NEW h, HeapOK(h), NEW r \in Requests
  PROVE  /\ HeapOK(Armed(h, r))
         /\ h.made <= Armed(h, r).made
         /\ \A i \in Promised :
              /\ TakenPair(h, i) \in 1..Armed(h, r).made
              /\ Armed(h, r).to[TakenPair(h, i)] = [req |-> r, field |-> i]
              /\ ~InPool(Armed(h, r), TakenPair(h, i))
         /\ \A c \in 1..Armed(h, r).made :
              (\A i \in Promised : TakenPair(h, i) # c) =>
                c \in 1..h.made /\ Armed(h, r).to[c] = h.to[c]
         /\ \A c \in 1..h.made :
              ~InPool(h, c) => /\ ~InPool(Armed(h, r), c)
                               /\ \A i \in Promised : TakenPair(h, i) # c
<1> DEFINE a == Armed(h, r)
           m == h.made + PromiseFields - FromPool(h)
           k == Len(h.pool) - FromPool(h)
<1>1. /\ h.made \in Nat /\ Len(h.pool) \in Nat
      /\ FromPool(h) \in Nat /\ FromPool(h) <= Len(h.pool) /\ FromPool(h) <= PromiseFields
  BY PairTypes DEF HeapOK, FromPool, Least
<1>2. /\ m \in Nat /\ h.made <= m /\ k \in Nat /\ k <= Len(h.pool)
  BY <1>1, PairTypes
<1>3. /\ a.made = m /\ a.pool = SubSeq(h.pool, 1, k)
      /\ a = [made |-> a.made, to |-> a.to, pool |-> a.pool]
      /\ a.to = [c \in 1..m |-> IF \E i \in Promised : TakenPair(h, i) = c
                                THEN [req |-> r,
                                      field |-> CHOOSE i \in Promised : TakenPair(h, i) = c]
                                ELSE h.to[c]]
  BY DEF Armed
<1>4. /\ a.pool \in Seq(1..m) /\ Len(a.pool) = k
      /\ \A j \in 1..k : a.pool[j] = h.pool[j]
  <2>1. h.pool \in Seq(1..h.made) /\ 1..h.made \subseteq 1..m
    BY <1>1, <1>2 DEF HeapOK
  <2>2. /\ SubSeq(h.pool, 1, k) \in Seq(1..h.made) /\ Len(SubSeq(h.pool, 1, k)) = k
        /\ \A j \in 1..k : SubSeq(h.pool, 1, k)[j] = h.pool[j]
    BY <1>1, <1>2, <2>1
  <2>3. a.pool = SubSeq(h.pool, 1, k)
    BY <1>3
  <2> HIDE DEF m, k, a
  <2>4. a.pool \in Seq(1..m)
    BY <2>1, <2>2, <2>3
  <2> QED BY <2>2, <2>3, <2>4
<1>5. ASSUME NEW i \in Promised
      PROVE  /\ TakenPair(h, i) \in 1..m
             /\ a.to[TakenPair(h, i)] = [req |-> r, field |-> i]
  <2>1. TakenPair(h, i) \in 1..m
    BY TakenFacts
  <2>2. (CHOOSE j \in Promised : TakenPair(h, j) = TakenPair(h, i)) = i
    BY TakenFacts
  <2> QED BY <1>3, <2>1, <2>2
<1>6. ASSUME NEW c \in 1..m, \A i \in Promised : TakenPair(h, i) # c
      PROVE  c \in 1..h.made /\ a.to[c] = h.to[c]
  <2>1. c \in 1..h.made
    BY <1>6, TakenFacts
  <2> QED BY <1>3, <1>6, <2>1
<1>7. a.to \in [1..m -> Target \cup {Idle}]
  <2> SUFFICES ASSUME NEW c \in 1..m PROVE a.to[c] \in Target \cup {Idle}
    BY <1>3
  <2>1. CASE \E i \in Promised : TakenPair(h, i) = c
    <3>1. PICK i \in Promised : TakenPair(h, i) = c
      BY <2>1
    <3>2. a.to[c] = [req |-> r, field |-> i]
      BY <3>1, <1>5
    <3>3. [req |-> r, field |-> i] \in Target
      BY DEF Target
    <3> QED BY <3>2, <3>3
  <2>2. CASE \A i \in Promised : TakenPair(h, i) # c
    BY <2>2, <1>6 DEF HeapOK
  <2> QED BY <2>1, <2>2
<1>8. HeapOK(a)
  <2>1. \A i, j \in 1..k : a.pool[i] = a.pool[j] => i = j
    <3> HIDE DEF a, k
    <3>1. \A i \in 1..k : i \in 1..Len(h.pool)
      BY <1>1, <1>2
    <3>2. \A i, j \in 1..Len(h.pool) : h.pool[i] = h.pool[j] => i = j
      BY DEF HeapOK
    <3> QED BY <3>1, <3>2, <1>4
  <2>2. k <= PoolMax
    BY <1>1, <1>2, PairTypes DEF HeapOK
  <2> HIDE DEF a, m, k
  <2> QED BY <1>2, <1>3, <1>4, <1>7, <2>1, <2>2 DEF HeapOK
<1>9. \A i \in Promised : ~InPool(a, TakenPair(h, i))
  BY <1>4, <1>2, TakenFacts DEF InPool
<1>10. ASSUME NEW c \in 1..h.made, ~InPool(h, c)
       PROVE  ~InPool(a, c) /\ \A i \in Promised : TakenPair(h, i) # c
  <2>1. \A i \in 1..k : a.pool[i] # c
    <3> HIDE DEF a, k
    <3>1. \A i \in 1..k : i \in 1..Len(h.pool)
      BY <1>1, <1>2
    <3> QED BY <3>1, <1>4, <1>10 DEF InPool
  <2>2. ~InPool(a, c)
    BY <2>1, <1>4 DEF InPool
  <2> QED BY <2>2, <1>10, TakenFacts
<1> QED BY <1>2, <1>3, <1>5, <1>6, <1>8, <1>9, <1>10

\* A pair that fired points nowhere and is in the pool or gone; the others stay.
LEMMA RecycledFacts ==
  ASSUME NEW h, HeapOK(h), NEW c \in 1..h.made, ~InPool(h, c)
  PROVE  /\ HeapOK(Recycled(h, c))
         /\ Recycled(h, c).made = h.made
         /\ Recycled(h, c).to = [h.to EXCEPT ![c] = Idle]
         /\ \A d \in 1..h.made : d # c /\ ~InPool(h, d) => ~InPool(Recycled(h, c), d)
<1> DEFINE a == Recycled(h, c)
<1>1. /\ a.made = h.made /\ a.to = [h.to EXCEPT ![c] = Idle]
      /\ a.pool = IF Len(h.pool) < PoolMax THEN Append(h.pool, c) ELSE h.pool
      /\ a = [made |-> a.made, to |-> a.to, pool |-> a.pool]
  BY DEF Recycled
<1>2. /\ h.made \in Nat /\ h.pool \in Seq(1..h.made) /\ Len(h.pool) \in Nat
      /\ h.to \in [1..h.made -> Target \cup {Idle}]
  BY DEF HeapOK
<1>3. CASE Len(h.pool) < PoolMax
  <2>1. /\ a.pool = Append(h.pool, c) /\ a.pool \in Seq(1..h.made)
        /\ Len(a.pool) = Len(h.pool) + 1
        /\ \A i \in 1..Len(h.pool) : a.pool[i] = h.pool[i]
        /\ a.pool[Len(h.pool) + 1] = c
    BY <1>1, <1>2, <1>3
  <2>2. \A i, j \in 1..Len(a.pool) : a.pool[i] = a.pool[j] => i = j
    BY <2>1, <1>2 DEF HeapOK, InPool
  <2>3. Len(a.pool) <= PoolMax
    BY <2>1, <1>2, <1>3, PairTypes
  <2>4. \A d \in 1..h.made : d # c /\ ~InPool(h, d) => ~InPool(a, d)
    BY <2>1, <1>2 DEF InPool
  <2> QED BY <1>1, <1>2, <2>1, <2>2, <2>3, <2>4 DEF HeapOK
<1>4. CASE ~(Len(h.pool) < PoolMax)
  BY <1>1, <1>2, <1>4 DEF HeapOK, InPool
<1> QED BY <1>3, <1>4

\* Disarming makes pairs point nowhere and touches nothing else.
LEMMA DisarmedFacts ==
  ASSUME NEW h, HeapOK(h), NEW S
  PROVE  /\ HeapOK(Disarmed(h, S))
         /\ Disarmed(h, S).made = h.made
         /\ Disarmed(h, S).pool = h.pool
         /\ \A c \in 1..h.made :
              Disarmed(h, S).to[c] = IF c \in S THEN Idle ELSE h.to[c]
<1> DEFINE a == Disarmed(h, S)
<1>1. /\ a.made = h.made /\ a.pool = h.pool
      /\ a.to = [c \in 1..h.made |-> IF c \in S THEN Idle ELSE h.to[c]]
      /\ a = [made |-> a.made, to |-> a.to, pool |-> a.pool]
  BY DEF Disarmed
<1>2. a.to \in [1..h.made -> Target \cup {Idle}]
  BY <1>1 DEF HeapOK
<1> HIDE DEF a
<1>3. HeapOK(a)
  BY <1>1, <1>2 DEF HeapOK
<1> QED BY <1>1, <1>3 DEF a

-----------------------------------------------------------------------------
(* A promise settles and its frame is processed *)

\* The promise of field g of request q settles: it reaches the frame through the
\* pair it holds, or, for a list, directly.  The frame becomes fr.
Fires(q, g, fired, fr) ==
  /\ promise[q][g] = "pending"
  /\ \/ /\ g \in Lists /\ fired = 0
        /\ fr = IF frame[q].entry[g] = "waiting" THEN EntryReady(frame[q], g) ELSE frame[q]
     \/ /\ g \in Promised /\ fired = sub[q][g]
        /\ heap.to[fired] = [req |-> q, field |-> g]
        /\ fr = EntryReady(frame[q], g)

\* What the promises and the pairs are when the promise has settled; starts: it
\* uncovered the next wave of the request.
PairsAfter(q, g, fired, starts) ==
  /\ LET h == IF starts THEN Armed(heap, q) ELSE heap
     IN  heap' = IF fired = 0 THEN h ELSE Recycled(h, fired)
  /\ promise' = IF starts
                THEN [Settled(q, g) EXCEPT ![q] = [f \in Fields |-> "pending"]]
                ELSE Settled(q, g)
  /\ sub' = IF starts THEN [sub EXCEPT ![q] = PairsFor(heap)] ELSE sub

\* What the fields of a frame hold.
LEMMA FrameFacts ==
  ASSUME TypeOK, NEW r \in Requests
  PROVE  /\ frame[r] \in Frames /\ frame[r].wave \in Nat
         /\ frame[r].entry \in [Fields -> {"none", "waiting", "ready"}]
         /\ frame[r].ctx \in [Fields -> Nat]
         /\ promise[r] \in [Fields -> {"none", "pending", "settled"}]
         /\ sub[r] \in [Fields -> 0..heap.made]
BY DEF TypeOK, Frames

\* The pairs that point at a frame, other than the one that fires, are those of
\* entries that still wait; so none is left when the frame is consumed or resolved.
LEMMA FiringFacts ==
  ASSUME PairInv, NEW q \in Requests, NEW g \in Fields, NEW fired, NEW fr,
         Fires(q, g, fired, fr)
  PROVE  /\ fr \in Frames /\ fr.ctx = frame[q].ctx
         /\ outcome[q] # "none"
         /\ cancelled[q] => fr.entry = Absent
         /\ fired # 0 => /\ fired \in 1..heap.made /\ ~InPool(heap, fired)
                         /\ fired = sub[q][g] /\ g \in Promised
         /\ \A c \in 1..heap.made :
              heap.to[c].req = q /\ c # fired =>
                /\ heap.to[c].field \in Promised
                /\ heap.to[c] = [req |-> q, field |-> heap.to[c].field]
                /\ fr.entry[heap.to[c].field] = "waiting"
                /\ fr.ctx[heap.to[c].field] = c
<1>1. /\ frame[q].wave \in Nat
      /\ frame[q].entry \in [Fields -> {"none", "waiting", "ready"}]
      /\ frame[q].ctx \in [Fields -> Nat]
      /\ frame[q] = [wave |-> frame[q].wave, entry |-> frame[q].entry, ctx |-> frame[q].ctx]
  BY FrameFacts DEF PairInv, Frames
<1>2. EntryReady(frame[q], g) \in Frames
  BY <1>1 DEF EntryReady, Frames
<1>3. fr \in Frames /\ fr.ctx = frame[q].ctx
  BY <1>1, <1>2 DEF Fires, EntryReady, Frames
<1>4. \A f \in Fields \ {g} : fr.entry[f] = frame[q].entry[f]
  BY <1>1 DEF Fires, EntryReady
<1>5. outcome[q] # "none"
  BY DEF Fires, PairInv, NotStarted, Absent
<1>6. ASSUME g \in Promised
      PROVE  <<q, g>> \in PendingPromises /\ PairOf(<<q, g>>) = sub[q][g]
  BY <1>6 DEF PendingPromises, PairOf, Fires
<1>7. ASSUME fired # 0
      PROVE  /\ g \in Promised /\ fired = sub[q][g]
             /\ heap.to[fired] = [req |-> q, field |-> g]
             /\ fr = EntryReady(frame[q], g)
  BY <1>7 DEF Fires
<1>8. fired # 0 => fired \in 1..heap.made /\ ~InPool(heap, fired)
  BY <1>6, <1>7 DEF PairInv, PairsHeld
<1>9. cancelled[q] => fr.entry = Absent
  <2> HAVE cancelled[q]
  <2>1. frame[q].entry = Absent /\ \A c \in 1..heap.made : heap.to[c].req # q
    BY DEF PairInv, CancelledIsTornDown
  <2>2. fired = 0
    BY <1>7, <1>8, <2>1
  <2>3. g \notin Promised
    <3> SUFFICES ASSUME g \in Promised PROVE FALSE
      OBVIOUS
    <3>1. fired = sub[q][g] /\ g \notin Lists
      BY FieldAssumption DEF Fires
    <3>2. fired \in 1..heap.made
      BY <1>6, <3>1 DEF PairInv, PairsHeld
    <3> QED BY <3>2, <2>2
  <2> QED BY <2>1, <2>3 DEF Fires, Absent
<1>10. ASSUME NEW c \in 1..heap.made, heap.to[c].req = q, c # fired
       PROVE  /\ heap.to[c].field \in Promised
              /\ heap.to[c] = [req |-> q, field |-> heap.to[c].field]
              /\ fr.entry[heap.to[c].field] = "waiting"
              /\ fr.ctx[heap.to[c].field] = c
  <2> DEFINE f == heap.to[c].field
  <2>1. heap.to[c] \in Target \cup {Idle} /\ heap.to[c] # Idle
    BY <1>10, PairTypes DEF PairInv, HeapOK, Idle
  <2>2. f \in Promised /\ heap.to[c] = [req |-> q, field |-> f]
    BY <2>1, <1>10, PairTypes
  <2>3. frame[q].ctx[f] = c /\ frame[q].entry[f] = "waiting"
    BY <2>1, <1>10 DEF PairInv, PointsBack, PointsAtItsEntry
  <2>4. f # g
    <3> SUFFICES ASSUME f = g PROVE FALSE
      OBVIOUS
    <3>1. g \in Promised /\ g \notin Lists
      BY <2>2, FieldAssumption
    <3>2. fired = sub[q][g] /\ heap.to[fired] = [req |-> q, field |-> g]
      BY <3>1 DEF Fires
    <3>3. fired \in 1..heap.made
      BY <1>6, <3>1, <3>2 DEF PairInv, PairsHeld
    <3>4. frame[q].ctx[g] = fired
      BY <3>2, <3>3, <2>1, <2>2 DEF PairInv, PointsBack, PointsAtItsEntry
    <3> QED BY <3>4, <2>3, <1>10
  <2>5. f \in Fields
    BY <2>2, PairTypes
  <2> QED BY <2>2, <2>3, <2>4, <2>5, <1>3, <1>4
<1> QED BY <1>3, <1>5, <1>7, <1>8, <1>9, <1>10

\* The table of pairs after a frame was processed.
LEMMA ProcessFrameHeap ==
  ASSUME PairInv, NEW q \in Requests, NEW g \in Fields, NEW fired, NEW fr,
         Fires(q, g, fired, fr), NEW starts, PairsAfter(q, g, fired, starts),
         NEW h, h = IF starts THEN Armed(heap, q) ELSE heap
  PROVE  /\ HeapOK(h) /\ heap.made <= h.made
         /\ HeapOK(heap') /\ heap'.made = h.made
         /\ \A c \in 1..h.made : heap'.to[c] = IF c = fired THEN Idle ELSE h.to[c]
         /\ \A c \in 1..h.made : c # fired /\ ~InPool(h, c) => ~InPool(heap', c)
<1>1. HeapOK(heap) /\ heap.made \in Nat
  BY DEF PairInv, HeapOK
<1>2. HeapOK(h) /\ heap.made <= h.made
  BY <1>1, ArmedFacts
<1>3. fired # 0 => fired \in 1..h.made /\ ~InPool(h, fired)
  <2> HAVE fired # 0
  <2>1. fired \in 1..heap.made /\ ~InPool(heap, fired)
    BY FiringFacts
  <2>2. fired \in 1..h.made
    BY <2>1, <1>1, <1>2 DEF HeapOK
  <2> QED BY <2>1, <2>2, <1>1, ArmedFacts
<1>4. heap' = IF fired = 0 THEN h ELSE Recycled(h, fired)
  BY DEF PairsAfter
<1>5. h.to \in [1..h.made -> Target \cup {Idle}] /\ h.made \in Nat
  BY <1>2 DEF HeapOK
<1>6. CASE fired = 0
  BY <1>2, <1>4, <1>5, <1>6
<1>7. CASE fired # 0
  <2>1. heap' = Recycled(h, fired)
    BY <1>4, <1>7
  <2>2. /\ HeapOK(heap') /\ heap'.made = h.made
        /\ heap'.to = [h.to EXCEPT ![fired] = Idle]
        /\ \A d \in 1..h.made : d # fired /\ ~InPool(h, d) => ~InPool(heap', d)
    BY <2>1, <1>2, <1>3, <1>7, RecycledFacts
  <2> QED BY <2>2, <1>2, <1>5
<1> QED BY <1>6, <1>7

\* The pairs a wave takes, as a function from the fields of its frame.
LEMMA PairsForFacts ==
  ASSUME NEW h, HeapOK(h), NEW r \in Requests
  PROVE  /\ PairsFor(h) \in [Fields -> 0..Armed(h, r).made]
         /\ PairsFor(h) \in [Fields -> Nat]
         /\ \A i \in Promised : PairsFor(h)[i] = TakenPair(h, i)
<1>1. Armed(h, r).made \in Nat
  BY ArmedFacts DEF HeapOK
<1>2. \A i \in Promised : TakenPair(h, i) \in 1..Armed(h, r).made
  BY ArmedFacts
<1> QED BY <1>1, <1>2, PairTypes DEF PairsFor

\* Whatever processing makes of a frame is a frame.
LEMMA FrameAfterType ==
  ASSUME NEW q \in Requests, NEW fr \in Frames, HeapOK(heap)
  PROVE  FrameAfter(q, fr, heap) \in Frames
<1>1. /\ fr.wave \in Nat /\ fr.entry \in [Fields -> {"none", "waiting", "ready"}]
      /\ fr.ctx \in [Fields -> Nat]
  BY DEF Frames
<1>2. NextWave(fr, heap) \in Frames
  BY <1>1, PairsForFacts DEF NextWave, Frames
<1>3. Emptied(fr) \in Frames
  BY <1>1 DEF Emptied, Frames, Absent, NoPair
<1>4. ReadyConsumed(fr) \in Frames
  BY <1>1 DEF ReadyConsumed, Frames
<1> QED BY <1>2, <1>3, <1>4 DEF FrameAfter

\* Processing a frame keeps the types.
LEMMA ProcessFrameTypes ==
  ASSUME PairInv, NEW q \in Requests, NEW g \in Fields, NEW fired, NEW fr,
         Fires(q, g, fired, fr), ProcessFrame(q, fr, fired, Settled(q, g)),
         stack' \in Seq(Drivers)
  PROVE  TypeOK' /\ HeapOK(heap')
<1>1. PICK h : h = IF StartsWave(q, fr) THEN Armed(heap, q) ELSE heap
  OBVIOUS
<1>2. /\ HeapOK(heap) /\ HeapOK(h) /\ heap.made <= h.made
      /\ HeapOK(heap') /\ heap'.made = h.made
  <2>1. PairsAfter(q, g, fired, StartsWave(q, fr))
    BY DEF PairsAfter, ProcessFrame
  <2> QED BY <1>1, <2>1, ProcessFrameHeap DEF PairInv
<1>3. heap.made \in Nat /\ heap'.made \in Nat
  BY <1>2 DEF HeapOK
<1>4. frame' \in [Requests -> Frames]
  <2>1. FrameAfter(q, fr, heap) \in Frames
    BY <1>2, FiringFacts, FrameAfterType
  <2> QED BY <2>1 DEF PairInv, TypeOK, ProcessFrame
<1>5. promise' \in [Requests -> [Fields -> {"none", "pending", "settled"}]]
  <2>1. Settled(q, g) \in [Requests -> [Fields -> {"none", "pending", "settled"}]]
    BY DEF Settled, PairInv, TypeOK
  <2> QED BY <2>1 DEF ProcessFrame
<1>6. sub' \in [Requests -> [Fields -> 0..heap'.made]]
  <2>1. sub \in [Requests -> [Fields -> 0..heap'.made]]
    BY <1>2, <1>3 DEF PairInv, TypeOK
  <2>2. CASE StartsWave(q, fr)
    <3>1. PairsFor(heap) \in [Fields -> 0..heap'.made]
      BY <1>1, <1>2, <2>2, PairsForFacts
    <3> QED BY <2>1, <2>2, <3>1 DEF ProcessFrame
  <2>3. CASE ~StartsWave(q, fr)
    BY <2>1, <2>3 DEF ProcessFrame
  <2> QED BY <2>2, <2>3
<1>7. completed' \in [Requests -> BOOLEAN]
  BY DEF PairInv, TypeOK, ProcessFrame, Resolves
<1>8. /\ outcome' \in [Requests -> {"none", "pending", "answered", "refused"}]
      /\ mode' \in [Requests -> Modes] /\ cancelled' \in [Requests -> BOOLEAN]
  BY DEF PairInv, TypeOK, ProcessFrame
<1>9. /\ heap'.made \in Nat /\ heap'.to \in [1..heap'.made -> Target \cup {Idle}]
      /\ heap'.pool \in Seq(1..heap'.made) /\ Len(heap'.pool) <= PoolMax
  BY <1>2 DEF HeapOK
<1> QED BY <1>2, <1>4, <1>5, <1>6, <1>7, <1>8, <1>9 DEF TypeOK

\* Processing a frame keeps every pair with the promise and the entry it serves.
LEMMA ProcessFrameHolders ==
  ASSUME PairInv, NEW q \in Requests, NEW g \in Fields, NEW fired, NEW fr,
         Fires(q, g, fired, fr), NEW starts, PairsAfter(q, g, fired, starts)
  PROVE  PairsHeld'
<1>1. PICK h : h = IF starts THEN Armed(heap, q) ELSE heap
  OBVIOUS
<1>2. /\ HeapOK(heap) /\ HeapOK(h) /\ heap.made <= h.made
      /\ heap'.made = h.made
      /\ \A c \in 1..h.made : heap'.to[c] = IF c = fired THEN Idle ELSE h.to[c]
      /\ \A c \in 1..h.made : c # fired /\ ~InPool(h, c) => ~InPool(heap', c)
  BY <1>1, ProcessFrameHeap DEF PairInv
<1>3. heap.made \in Nat /\ h.made \in Nat
  BY <1>2 DEF HeapOK
<1> DEFINE New(p) == starts /\ p[1] = q
<1>4. ASSUME NEW p \in PendingPromises', New(p)
      PROVE  /\ p[2] \in Promised /\ p = <<q, p[2]>>
             /\ PairOf(p)' = TakenPair(heap, p[2])
  <2>1. p[2] \in Promised /\ p = <<q, p[2]>>
    BY <1>4 DEF PendingPromises
  <2>2. sub'[q] = PairsFor(heap)
    BY <1>4 DEF PairsAfter, PairInv, TypeOK
  <2> QED BY <2>1, <2>2, <1>2, PairsForFacts DEF PairOf
<1>5. ASSUME NEW p \in PendingPromises', ~New(p)
      PROVE  /\ p \in PendingPromises /\ PairOf(p)' = PairOf(p)
             /\ PairOf(p) # fired
             /\ PairOf(p) \in 1..heap.made /\ ~InPool(heap, PairOf(p))
  <2>1. p[1] \in Requests /\ p[2] \in Promised /\ p = <<p[1], p[2]>> /\ p[2] \in Fields
    BY PairTypes DEF PendingPromises
  <2>2. promise'[p[1]] = Settled(q, g)[p[1]] /\ sub'[p[1]] = sub[p[1]]
    BY <1>5, <2>1 DEF PairsAfter, PairInv, TypeOK, Settled
  <2>3. promise'[p[1]][p[2]] = "pending"
    BY <2>1 DEF PendingPromises
  <2>4. promise[p[1]][p[2]] = "pending" /\ ~(p[1] = q /\ p[2] = g)
    BY <2>1, <2>2, <2>3, FrameFacts DEF Settled, PairInv, TypeOK
  <2>5. p \in PendingPromises /\ PairOf(p)' = PairOf(p)
    BY <2>1, <2>2, <2>4 DEF PendingPromises, PairOf
  <2>6. PairOf(p) \in 1..heap.made /\ ~InPool(heap, PairOf(p))
    BY <2>5 DEF PairInv, PairsHeld
  <2>7. PairOf(p) # fired
    <3> SUFFICES ASSUME PairOf(p) = fired PROVE FALSE
      OBVIOUS
    <3>1. fired # 0
      BY <2>6, <1>3
    <3>2. fired = sub[q][g] /\ g \in Promised
      BY <3>1, FiringFacts
    <3>3. <<q, g>> \in PendingPromises /\ PairOf(<<q, g>>) = fired
      BY <3>2 DEF PendingPromises, PairOf, Fires
    <3>4. <<q, g>> = p
      BY <3>3, <2>5 DEF PairInv, PairsHeld
    <3> QED BY <3>4, <2>4
  <2> QED BY <2>5, <2>6, <2>7
<1> HIDE DEF New
<1>6. ASSUME NEW p \in PendingPromises', New(p)
      PROVE  /\ PairOf(p)' \in 1..heap'.made /\ ~InPool(heap', PairOf(p)')
             /\ heap'.to[PairOf(p)'] = [req |-> p[1], field |-> p[2]]
  <2>1. h = Armed(heap, q)
    BY <1>1, <1>6 DEF New
  <2>2. /\ p[2] \in Promised /\ p = <<q, p[2]>> /\ p[1] = q
        /\ PairOf(p)' = TakenPair(heap, p[2])
    BY <1>4, <1>6 DEF New
  <2>3. /\ TakenPair(heap, p[2]) \in 1..h.made /\ ~InPool(h, TakenPair(heap, p[2]))
        /\ h.to[TakenPair(heap, p[2])] = [req |-> q, field |-> p[2]]
    BY <2>1, <2>2, <1>2, ArmedFacts
  <2>4. TakenPair(heap, p[2]) # fired
    <3>1. CASE fired = 0
      BY <3>1, <2>3, <1>3
    <3>2. CASE fired # 0
      <4>1. fired \in 1..heap.made /\ ~InPool(heap, fired)
        BY <3>2, FiringFacts
      <4> QED BY <4>1, <2>2, <1>2, ArmedFacts
    <3> QED BY <3>1, <3>2
  <2> QED BY <2>2, <2>3, <2>4, <1>2
<1>7. ASSUME NEW p \in PendingPromises', ~New(p)
      PROVE  /\ PairOf(p)' \in 1..heap'.made /\ ~InPool(heap', PairOf(p)')
             /\ heap'.to[PairOf(p)'] \in {Idle, [req |-> p[1], field |-> p[2]]}
  <2>1. /\ p \in PendingPromises /\ PairOf(p)' = PairOf(p) /\ PairOf(p) # fired
        /\ PairOf(p) \in 1..heap.made /\ ~InPool(heap, PairOf(p))
    BY <1>5, <1>7
  <2>2. heap.to[PairOf(p)] \in {Idle, [req |-> p[1], field |-> p[2]]}
    BY <2>1 DEF PairInv, PairsHeld
  <2>3. /\ PairOf(p) \in 1..h.made /\ ~InPool(h, PairOf(p))
        /\ h.to[PairOf(p)] = heap.to[PairOf(p)]
    <3>1. CASE ~starts
      BY <3>1, <1>1, <2>1
    <3>2. CASE starts
      <4>1. h = Armed(heap, q)
        BY <3>2, <1>1
      <4>2. PairOf(p) \in 1..h.made
        BY <2>1, <1>2, <1>3
      <4>3. ~InPool(h, PairOf(p)) /\ \A i \in Promised : TakenPair(heap, i) # PairOf(p)
        BY <4>1, <2>1, <1>2, ArmedFacts
      <4> QED BY <4>1, <4>2, <4>3, <1>2, ArmedFacts
    <3> QED BY <3>1, <3>2
  <2> QED BY <2>1, <2>2, <2>3, <1>2
<1>8. ASSUME NEW p \in PendingPromises', NEW r \in PendingPromises', PairOf(p)' = PairOf(r)'
      PROVE  r = p
  <2>1. CASE New(p) /\ New(r)
    BY <2>1, <1>4, <1>8, <1>2, TakenFacts
  <2>2. CASE ~New(p) /\ ~New(r)
    BY <2>2, <1>5, <1>8 DEF PairInv, PairsHeld
  <2>3. ASSUME NEW x \in PendingPromises', NEW y \in PendingPromises', New(x), ~New(y)
        PROVE  PairOf(x)' # PairOf(y)'
    <3>1. PairOf(x)' = TakenPair(heap, x[2]) /\ x[2] \in Promised
      BY <1>4, <2>3
    <3>2. PairOf(y)' \in 1..heap.made /\ ~InPool(heap, PairOf(y)')
      BY <1>5, <2>3
    <3> QED BY <3>1, <3>2, <1>2, TakenFacts
  <2> QED BY <2>1, <2>2, <2>3, <1>8
<1> QED BY <1>6, <1>7, <1>8 DEF PairsHeld

\* A pair that points at the frame and does not fire is that of an entry that waits.
LEMMA StillWaiting ==
  ASSUME PairInv, NEW q \in Requests, NEW g \in Fields, NEW fired, NEW fr,
         Fires(q, g, fired, fr),
         NEW c \in 1..heap.made, heap.to[c].req = q, c # fired
  PROVE  /\ heap.to[c].field \in Promised
         /\ fr.entry[heap.to[c].field] = "waiting"
         /\ fr.ctx[heap.to[c].field] = c
<1>1. \A d \in 1..heap.made :
        heap.to[d].req = q /\ d # fired =>
          /\ heap.to[d].field \in Promised
          /\ heap.to[d] = [req |-> q, field |-> heap.to[d].field]
          /\ fr.entry[heap.to[d].field] = "waiting"
          /\ fr.ctx[heap.to[d].field] = d
  BY FiringFacts
<1> QED BY <1>1

\* A frame that is consumed or resolved is one that no other pair points at.
LEMMA NothingLeftPointing ==
  ASSUME PairInv, NEW q \in Requests, NEW g \in Fields, NEW fired, NEW fr,
         Fires(q, g, fired, fr), StartsWave(q, fr) \/ Resolves(q, fr)
  PROVE  \A c \in 1..heap.made : heap.to[c].req = q => c = fired
<1> SUFFICES ASSUME NEW c \in 1..heap.made, heap.to[c].req = q, c # fired
             PROVE  FALSE
  OBVIOUS
<1>1. heap.to[c].field \in Promised /\ fr.entry[heap.to[c].field] = "waiting"
  BY StillWaiting
<1>2. heap.to[c].field \in Waiting(fr.entry) /\ fr.entry # Absent
  BY <1>1, PairTypes DEF Waiting, Absent
<1> QED BY <1>2 DEF StartsWave, Resolves

\* Where the pairs point after a frame was processed.
LEMMA ProcessFramePointers ==
  ASSUME PairInv, NEW q \in Requests, NEW g \in Fields, NEW fired, NEW fr,
         Fires(q, g, fired, fr), ProcessFrame(q, fr, fired, Settled(q, g)),
         NEW c \in 1..heap'.made, heap'.to[c] # Idle
  PROVE  \/ /\ StartsWave(q, fr) /\ \E i \in Promised :
                   TakenPair(heap, i) = c /\ heap'.to[c] = [req |-> q, field |-> i]
         \/ /\ c \in 1..heap.made /\ c # fired /\ heap'.to[c] = heap.to[c]
            /\ heap.to[c] \in Target /\ heap.to[c].req \in Requests
            /\ heap.to[c].field \in Promised
            /\ heap.to[c].req = q => ~StartsWave(q, fr) /\ ~Resolves(q, fr)
<1>1. PICK h : h = IF StartsWave(q, fr) THEN Armed(heap, q) ELSE heap
  OBVIOUS
<1>2. /\ HeapOK(heap) /\ heap'.made = h.made
      /\ \A d \in 1..h.made : heap'.to[d] = IF d = fired THEN Idle ELSE h.to[d]
  <2>1. PairsAfter(q, g, fired, StartsWave(q, fr))
    BY DEF PairsAfter, ProcessFrame
  <2> QED BY <1>1, <2>1, ProcessFrameHeap DEF PairInv
<1>3. c # fired /\ heap'.to[c] = h.to[c] /\ c \in 1..h.made
  BY <1>2
<1>4. ASSUME c \in 1..heap.made, h.to[c] = heap.to[c]
      PROVE  /\ heap.to[c] \in Target /\ heap.to[c].req \in Requests
             /\ heap.to[c].field \in Promised
             /\ heap.to[c].req = q => ~StartsWave(q, fr) /\ ~Resolves(q, fr)
  <2>1. heap.to[c] \in Target
    BY <1>2, <1>3, <1>4 DEF HeapOK
  <2>2. heap.to[c].req \in Requests /\ heap.to[c].field \in Promised
    BY <2>1, PairTypes
  <2> QED BY <2>1, <2>2, <1>3, <1>4, NothingLeftPointing
<1>5. CASE ~StartsWave(q, fr)
  BY <1>1, <1>3, <1>4, <1>5
<1>6. CASE StartsWave(q, fr)
  <2>1. h = Armed(heap, q)
    BY <1>1, <1>6
  <2>2. CASE \E i \in Promised : TakenPair(heap, i) = c
    BY <2>1, <2>2, <1>2, <1>3, <1>6, ArmedFacts
  <2>3. CASE \A i \in Promised : TakenPair(heap, i) # c
    <3>1. c \in 1..heap.made /\ h.to[c] = heap.to[c]
      BY <2>1, <2>3, <1>2, <1>3, ArmedFacts
    <3> QED BY <3>1, <1>3, <1>4
  <2> QED BY <2>2, <2>3
<1> QED BY <1>5, <1>6

\* Processing a frame keeps the whole invariant.
LEMMA ProcessFrameKeepsPairs ==
  ASSUME PairInv, NEW q \in Requests, NEW g \in Fields, NEW fired, NEW fr,
         Fires(q, g, fired, fr), ProcessFrame(q, fr, fired, Settled(q, g)),
         stack' \in Seq(Drivers)
  PROVE  PairInv'
<1>1. TypeOK' /\ HeapOK(heap') /\ PairsHeld'
  <2>1. PairsAfter(q, g, fired, StartsWave(q, fr))
    BY DEF PairsAfter, ProcessFrame
  <2> QED BY <2>1, ProcessFrameTypes, ProcessFrameHolders
<1>2. /\ frame'[q] = FrameAfter(q, fr, heap)
      /\ \A r \in Requests \ {q} : frame'[r] = frame[r]
      /\ cancelled' = cancelled
  BY DEF ProcessFrame, PairInv, TypeOK
<1>3. fr \in Frames /\ HeapOK(heap)
  BY FiringFacts DEF PairInv
<1>4. PointsBack'
  <2> SUFFICES ASSUME NEW c \in 1..heap'.made, heap'.to[c] # Idle
               PROVE  /\ frame'[heap'.to[c].req].ctx[heap'.to[c].field] = c
                      /\ frame'[heap'.to[c].req].entry[heap'.to[c].field] = "waiting"
    BY DEF PointsBack, PointsAtItsEntry
  <2>1. CASE StartsWave(q, fr) /\ \E i \in Promised :
               TakenPair(heap, i) = c /\ heap'.to[c] = [req |-> q, field |-> i]
    <3>1. PICK i \in Promised : TakenPair(heap, i) = c /\ heap'.to[c] = [req |-> q, field |-> i]
      BY <2>1
    <3>2. frame'[q] = NextWave(fr, heap)
      BY <2>1, <1>2 DEF FrameAfter
    <3>3. frame'[q].ctx[i] = c /\ frame'[q].entry[i] = "waiting"
      BY <3>1, <3>2, <1>3, PairsForFacts, PairTypes DEF NextWave
    <3> QED BY <3>1, <3>3
  <2>2. CASE /\ c \in 1..heap.made /\ c # fired /\ heap'.to[c] = heap.to[c]
             /\ heap.to[c].req \in Requests /\ heap.to[c].field \in Promised
             /\ heap.to[c].req = q => ~StartsWave(q, fr) /\ ~Resolves(q, fr)
    <3>1. CASE heap.to[c].req # q
      BY <3>1, <2>2, <1>2 DEF PairInv, PointsBack, PointsAtItsEntry
    <3>2. CASE heap.to[c].req = q
      <4>1. frame'[q] = ReadyConsumed(fr)
        BY <3>2, <2>2, <1>2 DEF FrameAfter
      <4>2. fr.entry[heap.to[c].field] = "waiting" /\ fr.ctx[heap.to[c].field] = c
        BY <3>2, <2>2, StillWaiting
      <4>3. \A f \in Fields : fr.entry[f] = "waiting" =>
              ReadyConsumed(fr).entry[f] = "waiting" /\ ReadyConsumed(fr).ctx[f] = fr.ctx[f]
        BY DEF ReadyConsumed
      <4>4. heap.to[c].field \in Fields
        BY <2>2, PairTypes
      <4>5. frame'[q].entry[heap.to[c].field] = "waiting" /\ frame'[q].ctx[heap.to[c].field] = c
        BY <4>1, <4>2, <4>3, <4>4
      <4> QED BY <4>5, <3>2, <2>2
    <3> QED BY <3>1, <3>2
  <2>3. \/ StartsWave(q, fr) /\ \E i \in Promised :
               TakenPair(heap, i) = c /\ heap'.to[c] = [req |-> q, field |-> i]
        \/ /\ c \in 1..heap.made /\ c # fired /\ heap'.to[c] = heap.to[c]
           /\ heap.to[c] \in Target /\ heap.to[c].req \in Requests
           /\ heap.to[c].field \in Promised
           /\ heap.to[c].req = q => ~StartsWave(q, fr) /\ ~Resolves(q, fr)
    BY ProcessFramePointers
  <2> QED BY <2>1, <2>2, <2>3
<1>5. NotStarted'
  <2> SUFFICES ASSUME NEW r \in Requests, outcome'[r] = "none"
               PROVE  /\ frame'[r].entry = Absent /\ promise'[r] = Absent
                      /\ ~cancelled'[r] /\ ~completed'[r]
    BY DEF NotStarted
  <2>1. outcome[q] # "none" /\ outcome \in [Requests -> {"none", "pending", "answered", "refused"}]
    BY FiringFacts DEF PairInv, TypeOK
  <2>2. outcome[r] = "none" /\ r # q
    BY <2>1 DEF ProcessFrame
  <2>3. promise'[r] = promise[r] /\ completed'[r] = completed[r]
    BY <2>2 DEF ProcessFrame, Settled, PairInv, TypeOK
  <2> QED BY <2>2, <2>3, <1>2 DEF PairInv, NotStarted
<1>6. CancelledIsTornDown'
  <2> SUFFICES ASSUME NEW r \in Requests, cancelled'[r]
               PROVE  /\ frame'[r].entry = Absent
                      /\ \A c \in 1..heap'.made : heap'.to[c].req # r
    BY DEF CancelledIsTornDown
  <2>1. cancelled[r] /\ \A c \in 1..heap.made : heap.to[c].req # r
    BY <1>2 DEF PairInv, CancelledIsTornDown
  <2>2. r = q => fr.entry = Absent
    BY <2>1, FiringFacts
  <2>3. r = q => ~StartsWave(q, fr) /\ frame'[r] = Emptied(fr)
    BY <2>2, <1>2 DEF StartsWave, Resolves, FrameAfter
  <2>4. frame'[r].entry = Absent
    <3>1. CASE r = q
      BY <3>1, <2>3 DEF Emptied
    <3>2. CASE r # q
      BY <3>2, <1>2, <2>1 DEF PairInv, CancelledIsTornDown
    <3> QED BY <3>1, <3>2
  <2>5. ASSUME NEW c \in 1..heap'.made PROVE heap'.to[c].req # r
    <3>1. CASE heap'.to[c] = Idle
      BY <3>1, PairTypes DEF Idle
    <3>2. CASE heap'.to[c] # Idle
      <4>1. CASE StartsWave(q, fr) /\ \E i \in Promised :
                   TakenPair(heap, i) = c /\ heap'.to[c] = [req |-> q, field |-> i]
        BY <4>1, <2>3
      <4>2. CASE c \in 1..heap.made /\ heap'.to[c] = heap.to[c]
        BY <4>2, <2>1
      <4> QED BY <3>2, <4>1, <4>2, ProcessFramePointers
    <3> QED BY <3>1, <3>2
  <2> QED BY <2>4, <2>5
<1> QED BY <1>1, <1>4, <1>5, <1>6 DEF PairInv

-----------------------------------------------------------------------------
(* A request starts *)

TakenPairs == {TakenPair(heap, i) : i \in Promised}

\* Nothing points at a request that has not started.
LEMMA NotStartedFacts ==
  ASSUME PairInv, NEW r \in Requests, outcome[r] = "none"
  PROVE  /\ \A c \in 1..heap.made : heap.to[c].req # r
         /\ ~cancelled[r] /\ ~completed[r]
<1>1. frame[r].entry = Absent /\ ~cancelled[r] /\ ~completed[r]
  BY DEF PairInv, NotStarted
<1>2. ASSUME NEW c \in 1..heap.made, heap.to[c].req = r
      PROVE  FALSE
  <2>1. heap.to[c] \in Target /\ heap.to[c] # Idle
    BY <1>2, PairTypes DEF PairInv, HeapOK, Idle
  <2>2. /\ frame[r].entry[heap.to[c].field] = "waiting"
        /\ heap.to[c].field \in Fields
    BY <2>1, <1>2, PairTypes DEF PairInv, PointsBack, PointsAtItsEntry
  <2> QED BY <2>2, <1>1 DEF Absent
<1> QED BY <1>1, <1>2

\* The first wave's promises get pairs of their own; a refused request's are
\* disarmed at once (kept is then FALSE).
LEMMA FirstWaveHeap ==
  ASSUME PairInv, NEW r \in Requests, NEW kept \in BOOLEAN, NEW h,
         h = IF kept THEN Armed(heap, r) ELSE Disarmed(Armed(heap, r), TakenPairs)
  PROVE  /\ HeapOK(heap) /\ HeapOK(h) /\ heap.made <= h.made /\ h.made = Armed(heap, r).made
         /\ \A i \in Promised :
              /\ TakenPair(heap, i) \in 1..h.made /\ ~InPool(h, TakenPair(heap, i))
              /\ h.to[TakenPair(heap, i)] = IF kept THEN [req |-> r, field |-> i] ELSE Idle
         /\ \A c \in 1..h.made :
              (\A i \in Promised : TakenPair(heap, i) # c) =>
                c \in 1..heap.made /\ h.to[c] = heap.to[c]
         /\ \A c \in 1..heap.made :
              ~InPool(heap, c) => /\ ~InPool(h, c)
                                  /\ \A i \in Promised : TakenPair(heap, i) # c
<1>1. HeapOK(heap) /\ HeapOK(Armed(heap, r))
  BY ArmedFacts DEF PairInv
<1>2. CASE kept
  BY <1>1, <1>2, ArmedFacts
<1>3. CASE ~kept
  <2>1. /\ HeapOK(h) /\ h.made = Armed(heap, r).made /\ h.pool = Armed(heap, r).pool
        /\ \A c \in 1..h.made :
             h.to[c] = IF c \in TakenPairs THEN Idle ELSE Armed(heap, r).to[c]
    BY <1>1, <1>3, DisarmedFacts
  <2>2. \A c : InPool(h, c) <=> InPool(Armed(heap, r), c)
    BY <2>1 DEF InPool
  <2>3. \A i \in Promised : TakenPair(heap, i) \in TakenPairs
    BY DEF TakenPairs
  <2>4. \A c : (\A i \in Promised : TakenPair(heap, i) # c) => c \notin TakenPairs
    BY DEF TakenPairs
  <2>5. ASSUME NEW i \in Promised
        PROVE  /\ TakenPair(heap, i) \in 1..h.made /\ ~InPool(h, TakenPair(heap, i))
               /\ h.to[TakenPair(heap, i)] = Idle
    BY <1>1, <2>1, <2>2, <2>3, ArmedFacts
  <2>6. ASSUME NEW c \in 1..h.made, \A i \in Promised : TakenPair(heap, i) # c
        PROVE  c \in 1..heap.made /\ h.to[c] = heap.to[c]
    BY <1>1, <2>1, <2>4, <2>6, ArmedFacts
  <2>7. ASSUME NEW c \in 1..heap.made, ~InPool(heap, c)
        PROVE  ~InPool(h, c) /\ \A i \in Promised : TakenPair(heap, i) # c
    BY <1>1, <2>2, <2>7, ArmedFacts
  <2>8. heap.made <= h.made
    BY <1>1, <2>1, ArmedFacts
  <2> QED BY <1>1, <1>3, <2>1, <2>5, <2>6, <2>7, <2>8
<1> QED BY <1>2, <1>3

\* Starting a request keeps the invariant, whether it is driven or refused.
LEMMA FirstWaveKeepsPairs ==
  ASSUME PairInv, NEW r \in Requests, outcome[r] = "none", NEW kept \in BOOLEAN, NEW h,
         h = IF kept THEN Armed(heap, r) ELSE Disarmed(Armed(heap, r), TakenPairs),
         ArmsFirstWave(r, h),
         frame' = [frame EXCEPT ![r] = IF kept THEN NextWave(@, heap)
                                              ELSE Emptied(NextWave(@, heap))],
         cancelled' = IF kept THEN cancelled ELSE [cancelled EXCEPT ![r] = TRUE],
         outcome' = [outcome EXCEPT ![r] = IF kept THEN "pending" ELSE "refused"],
         stack' \in Seq(Drivers)
  PROVE  PairInv'
<1>1. /\ HeapOK(heap) /\ HeapOK(h) /\ heap.made <= h.made
      /\ heap' = h /\ heap.made \in Nat /\ h.made \in Nat
  BY SMTT(40), FirstWaveHeap DEF ArmsFirstWave, HeapOK
<1>2. /\ frame[r] \in Frames /\ promise' = [promise EXCEPT ![r] = [f \in Fields |-> "pending"]]
      /\ sub' = [sub EXCEPT ![r] = PairsFor(heap)] /\ mode' = mode /\ completed' = completed
  BY FrameFacts DEF PairInv, ArmsFirstWave
<1>3. /\ NextWave(frame[r], heap) \in Frames
      /\ Emptied(NextWave(frame[r], heap)) \in Frames
      /\ PairsFor(heap) \in [Fields -> 0..h.made]
  <2>1. /\ PairsFor(heap) \in [Fields -> 0..h.made] /\ PairsFor(heap) \in [Fields -> Nat]
    BY <1>1, FirstWaveHeap, PairsForFacts
  <2>2. frame[r].wave + 1 \in Nat
    BY <1>2 DEF Frames
  <2> QED BY <2>1, <2>2 DEF NextWave, Emptied, Frames, Absent, NoPair
<1>4. TypeOK'
  <2>1. sub' \in [Requests -> [Fields -> 0..h.made]]
    BY <1>1, <1>2, <1>3 DEF PairInv, TypeOK
  <2>2. frame' \in [Requests -> Frames]
    BY <1>3 DEF PairInv, TypeOK
  <2>3. promise' \in [Requests -> [Fields -> {"none", "pending", "settled"}]]
    BY <1>2 DEF PairInv, TypeOK
  <2>4. /\ cancelled' \in [Requests -> BOOLEAN] /\ mode' \in [Requests -> Modes]
        /\ completed' \in [Requests -> BOOLEAN]
        /\ outcome' \in [Requests -> {"none", "pending", "answered", "refused"}]
    BY <1>2 DEF PairInv, TypeOK
  <2>5. /\ h.to \in [1..h.made -> Target \cup {Idle}] /\ h.pool \in Seq(1..h.made)
        /\ Len(h.pool) <= PoolMax
    BY <1>1 DEF HeapOK
  <2> QED BY <1>1, <2>1, <2>2, <2>3, <2>4, <2>5 DEF TypeOK
<1>5. PairsHeld'
  <2>1. ASSUME NEW p \in PendingPromises', p[1] = r
        PROVE  /\ p[2] \in Promised /\ p = <<r, p[2]>>
               /\ PairOf(p)' = TakenPair(heap, p[2])
    <3>1. p[2] \in Promised /\ p = <<r, p[2]>>
      BY <2>1 DEF PendingPromises
    <3>2. sub'[r] = PairsFor(heap)
      BY <1>2 DEF PairInv, TypeOK
    <3> QED BY <3>1, <3>2, <1>1, PairsForFacts DEF PairOf
  <2>2. ASSUME NEW p \in PendingPromises', p[1] # r
        PROVE  /\ p \in PendingPromises /\ PairOf(p)' = PairOf(p)
               /\ PairOf(p) \in 1..heap.made /\ ~InPool(heap, PairOf(p))
               /\ heap.to[PairOf(p)] \in {Idle, [req |-> p[1], field |-> p[2]]}
    <3>1. p[1] \in Requests /\ p[2] \in Promised /\ p = <<p[1], p[2]>>
      BY DEF PendingPromises
    <3>2. p \in PendingPromises /\ PairOf(p)' = PairOf(p)
      BY <2>2, <3>1, <1>2 DEF PendingPromises, PairOf, PairInv, TypeOK
    <3> QED BY <3>2 DEF PairInv, PairsHeld
  <2>3. ASSUME NEW p \in PendingPromises'
        PROVE  /\ PairOf(p)' \in 1..h.made /\ ~InPool(h, PairOf(p)')
               /\ h.to[PairOf(p)'] \in {Idle, [req |-> p[1], field |-> p[2]]}
    <3>1. CASE p[1] = r
      <4>1. /\ p[2] \in Promised /\ p = <<r, p[2]>> /\ PairOf(p)' = TakenPair(heap, p[2])
        BY <3>1, <2>1
      <4>2. /\ TakenPair(heap, p[2]) \in 1..h.made /\ ~InPool(h, TakenPair(heap, p[2]))
            /\ h.to[TakenPair(heap, p[2])] = IF kept THEN [req |-> r, field |-> p[2]] ELSE Idle
        BY <4>1, FirstWaveHeap
      <4> QED BY <4>1, <4>2, <3>1
    <3>2. CASE p[1] # r
      <4>1. /\ PairOf(p)' = PairOf(p) /\ PairOf(p) \in 1..heap.made /\ ~InPool(heap, PairOf(p))
            /\ heap.to[PairOf(p)] \in {Idle, [req |-> p[1], field |-> p[2]]}
        BY <3>2, <2>2
      <4>2. ~InPool(h, PairOf(p)) /\ \A i \in Promised : TakenPair(heap, i) # PairOf(p)
        BY <4>1, FirstWaveHeap
      <4>3. PairOf(p) \in 1..h.made
        BY <4>1, <1>1
      <4> QED BY <4>1, <4>2, <4>3, FirstWaveHeap
    <3> QED BY <3>1, <3>2
  <2>4. ASSUME NEW p \in PendingPromises', NEW q \in PendingPromises', PairOf(p)' = PairOf(q)'
        PROVE  q = p
    <3>1. CASE p[1] = r /\ q[1] = r
      BY <3>1, <2>1, <2>4, <1>1, TakenFacts
    <3>2. CASE p[1] # r /\ q[1] # r
      BY <3>2, <2>2, <2>4 DEF PairInv, PairsHeld
    <3>3. ASSUME NEW x \in PendingPromises', NEW y \in PendingPromises', x[1] = r, y[1] # r
          PROVE  PairOf(x)' # PairOf(y)'
      <4>1. PairOf(x)' = TakenPair(heap, x[2]) /\ x[2] \in Promised
        BY <2>1, <3>3
      <4>2. PairOf(y)' \in 1..heap.made /\ ~InPool(heap, PairOf(y)')
        BY <2>2, <3>3
      <4> QED BY <4>1, <4>2, <1>1, TakenFacts
    <3> QED BY <3>1, <3>2, <3>3, <2>4
  <2> QED BY <1>1, <2>3, <2>4 DEF PairsHeld
<1>6. /\ frame'[r] = IF kept THEN NextWave(frame[r], heap) ELSE Emptied(NextWave(frame[r], heap))
      /\ \A q \in Requests \ {r} : frame'[q] = frame[q]
  BY DEF PairInv, TypeOK
<1>7. ASSUME NEW c \in 1..h.made, h.to[c] # Idle
      PROVE  \/ kept /\ \E i \in Promised :
                   TakenPair(heap, i) = c /\ h.to[c] = [req |-> r, field |-> i]
             \/ /\ c \in 1..heap.made /\ h.to[c] = heap.to[c]
                /\ heap.to[c].req \in Requests \ {r}
  <2>1. CASE \E i \in Promised : TakenPair(heap, i) = c
    <3>1. PICK i \in Promised : TakenPair(heap, i) = c
      BY <2>1
    <3>2. h.to[c] = IF kept THEN [req |-> r, field |-> i] ELSE Idle
      BY <3>1, FirstWaveHeap
    <3> QED BY <3>1, <3>2, <1>7
  <2>2. CASE \A i \in Promised : TakenPair(heap, i) # c
    <3>1. c \in 1..heap.made /\ h.to[c] = heap.to[c]
      BY <2>2, FirstWaveHeap
    <3>2. heap.to[c] \in Target /\ heap.to[c].req # r
      BY <3>1, <1>7, <1>1, NotStartedFacts DEF HeapOK
    <3> QED BY <3>1, <3>2, PairTypes
  <2> QED BY <2>1, <2>2
<1>8. PointsBack'
  <2> SUFFICES ASSUME NEW c \in 1..h.made
               PROVE  PointsAtItsEntry(h, frame', c)
    BY <1>1 DEF PointsBack
  <2> SUFFICES ASSUME h.to[c] # Idle
               PROVE  /\ frame'[h.to[c].req].ctx[h.to[c].field] = c
                      /\ frame'[h.to[c].req].entry[h.to[c].field] = "waiting"
    BY Zenon DEF PointsAtItsEntry
  <2>1. CASE kept /\ \E i \in Promised :
                   TakenPair(heap, i) = c /\ h.to[c] = [req |-> r, field |-> i]
    <3>1. PICK i \in Promised : TakenPair(heap, i) = c /\ h.to[c] = [req |-> r, field |-> i]
      BY <2>1
    <3>2. frame'[r].ctx[i] = c /\ frame'[r].entry[i] = "waiting"
      BY <2>1, <3>1, <1>1, <1>6, PairsForFacts, PairTypes DEF NextWave
    <3>3. h.to[c].req = r /\ h.to[c].field = i
      BY <3>1
    <3> QED BY <3>2, <3>3
  <2>2. CASE /\ c \in 1..heap.made /\ h.to[c] = heap.to[c]
             /\ heap.to[c].req \in Requests \ {r}
    <3>1. PointsAtItsEntry(heap, frame, c)
      BY <2>2 DEF PairInv, PointsBack
    <3>2. frame'[heap.to[c].req] = frame[heap.to[c].req]
      BY <2>2, <1>6
    <3> QED BY <2>2, <3>1, <3>2 DEF PointsAtItsEntry
  <2> QED BY <2>1, <2>2, <1>7
<1>9. NotStarted'
  BY <1>2, <1>6 DEF PairInv, NotStarted, TypeOK
<1>10. CancelledIsTornDown'
  <2> SUFFICES ASSUME NEW q \in Requests, cancelled'[q]
               PROVE  /\ frame'[q].entry = Absent
                      /\ \A c \in 1..h.made : h.to[c].req # q
    BY <1>1 DEF CancelledIsTornDown
  <2>1. q = r => ~kept
    BY NotStartedFacts
  <2>2. q # r => cancelled[q]
    BY DEF PairInv, TypeOK
  <2>3. frame'[q].entry = Absent
    BY <2>1, <2>2, <1>6 DEF PairInv, CancelledIsTornDown, Emptied
  <2>4. ASSUME NEW c \in 1..h.made PROVE h.to[c].req # q
    <3>1. CASE h.to[c] = Idle
      BY <3>1, PairTypes DEF Idle
    <3>2. CASE h.to[c] # Idle
      <4>1. CASE kept /\ \E i \in Promised :
                   TakenPair(heap, i) = c /\ h.to[c] = [req |-> r, field |-> i]
        BY <4>1, <2>1
      <4>2. CASE /\ c \in 1..heap.made /\ h.to[c] = heap.to[c]
                 /\ heap.to[c].req \in Requests \ {r}
        BY <4>2, <2>2 DEF PairInv, CancelledIsTornDown
      <4> QED BY <3>2, <4>1, <4>2, <1>7
    <3> QED BY <3>1, <3>2
  <2> QED BY <2>3, <2>4
<1> QED BY <1>1, <1>4, <1>5, <1>8, <1>9, <1>10 DEF PairInv

-----------------------------------------------------------------------------
(* The other steps *)

\* Cancelling a request leaves no pair that points at it: each one that does is
\* named by an entry of its frame.
LEMMA CancelKeepsPairs ==
  ASSUME PairInv, NEW r \in Requests, Cancel(r),
         outcome' = [outcome EXCEPT ![r] = "refused"], stack' \in Seq(Drivers)
  PROVE  PairInv'
<1>1. /\ HeapOK(heap) /\ heap.made \in Nat
      /\ HeapOK(heap') /\ heap'.made = heap.made /\ heap'.pool = heap.pool
      /\ \A c \in 1..heap.made :
           heap'.to[c] = IF c \in ArmedContexts(r) THEN Idle ELSE heap.to[c]
  BY SMTT(40), DisarmedFacts DEF Cancel, PairInv, HeapOK
<1>2. /\ frame'[r] = Emptied(frame[r]) /\ Emptied(frame[r]) \in Frames
      /\ \A q \in Requests \ {r} : frame'[q] = frame[q]
  <2>1. Emptied(frame[r]) \in Frames
    BY FrameFacts DEF PairInv, Emptied, Frames, Absent, NoPair
  <2> QED BY <2>1 DEF Cancel, PairInv, TypeOK
<1>3. /\ mode' = mode /\ promise' = promise /\ sub' = sub /\ completed' = completed
      /\ cancelled' = [cancelled EXCEPT ![r] = TRUE]
  BY DEF Cancel
<1>4. TypeOK'
  <2>1. frame' \in [Requests -> Frames]
    BY <1>2 DEF Cancel, PairInv, TypeOK
  <2>2. /\ heap'.to \in [1..heap'.made -> Target \cup {Idle}] /\ heap'.pool \in Seq(1..heap'.made)
        /\ Len(heap'.pool) <= PoolMax /\ heap'.made \in Nat
    BY <1>1 DEF HeapOK
  <2> QED BY <1>1, <1>3, <2>1, <2>2 DEF PairInv, TypeOK
<1>5. PairsHeld'
  <2>1. PendingPromises' = PendingPromises /\ \A p \in PendingPromises : PairOf(p)' = PairOf(p)
    BY <1>3 DEF PendingPromises, PairOf
  <2>2. \A c : InPool(heap', c) <=> InPool(heap, c)
    BY <1>1 DEF InPool
  <2> QED BY <2>1, <2>2, <1>1 DEF PairInv, PairsHeld
<1>6. ASSUME NEW c \in 1..heap.made, heap'.to[c] # Idle
      PROVE  /\ heap'.to[c] = heap.to[c] /\ heap.to[c].req \in Requests \ {r}
             /\ heap.to[c].field \in Promised
  <2>1. heap'.to[c] = heap.to[c] /\ c \notin ArmedContexts(r)
    BY <1>1, <1>6
  <2>2. heap.to[c] \in Target
    BY <2>1, <1>6, <1>1 DEF HeapOK
  <2>3. heap.to[c].req \in Requests /\ heap.to[c].field \in Promised
    BY <2>2, PairTypes
  <2>4. frame[heap.to[c].req].ctx[heap.to[c].field] = c
    BY <2>1, <1>6 DEF PairInv, PointsBack, PointsAtItsEntry
  <2>5. heap.to[c].req = r => c \in ArmedContexts(r)
    BY <2>3, <2>4, <1>1, PairTypes DEF ArmedContexts
  <2> QED BY <2>1, <2>3, <2>5
<1>7. PointsBack'
  BY <1>1, <1>2, <1>6 DEF PairInv, PointsBack, PointsAtItsEntry
<1>8. NotStarted'
  BY <1>2, <1>3 DEF PairInv, NotStarted, TypeOK
<1>9. CancelledIsTornDown'
  <2> SUFFICES ASSUME NEW q \in Requests, cancelled'[q]
               PROVE  /\ frame'[q].entry = Absent
                      /\ \A c \in 1..heap.made : heap'.to[c].req # q
    BY <1>1 DEF CancelledIsTornDown
  <2>1. q # r => cancelled[q]
    BY <1>3 DEF PairInv, TypeOK
  <2>2. frame'[q].entry = Absent
    BY <1>2, <2>1 DEF PairInv, CancelledIsTornDown, Emptied
  <2>3. ASSUME NEW c \in 1..heap.made PROVE heap'.to[c].req # q
    <3>1. CASE heap'.to[c] = Idle
      BY <3>1, PairTypes DEF Idle
    <3>2. CASE heap'.to[c] # Idle
      BY <3>2, <1>6, <2>1 DEF PairInv, CancelledIsTornDown
    <3> QED BY <3>1, <3>2
  <2> QED BY <2>2, <2>3
<1> QED BY <1>1, <1>4, <1>5, <1>7, <1>8, <1>9 DEF PairInv

\* A promise settles while others of its frame are pending: its entry is ready.
LEMMA SettledAloneKeepsPairs ==
  ASSUME PairInv, NEW q \in Requests, NEW g \in Promised, NEW fired, NEW fr,
         Fires(q, g, fired, fr), PairsAfter(q, g, fired, FALSE), fired # 0,
         frame' = [frame EXCEPT ![q] = fr], stack' \in Seq(Drivers),
         UNCHANGED <<mode, completed, cancelled, outcome>>
  PROVE  PairInv'
<1>1. g \in Fields
  BY PairTypes
<1>2. PairsHeld'
  BY <1>1, ProcessFrameHolders
<1>3. /\ HeapOK(heap) /\ HeapOK(heap') /\ heap'.made = heap.made /\ heap.made \in Nat
      /\ \A c \in 1..heap.made : heap'.to[c] = IF c = fired THEN Idle ELSE heap.to[c]
  <2>1. PICK starts : starts = FALSE
    OBVIOUS
  <2>2. PairsAfter(q, g, fired, starts)
    BY <2>1
  <2>3. PICK h : h = IF starts THEN Armed(heap, q) ELSE heap
    OBVIOUS
  <2>4. h = heap
    BY <2>3, <2>1
  <2>5. /\ HeapOK(heap') /\ heap'.made = h.made
        /\ \A c \in 1..h.made : heap'.to[c] = IF c = fired THEN Idle ELSE h.to[c]
    BY <1>1, <2>3, <2>2, ProcessFrameHeap
  <2>6. HeapOK(heap) /\ heap.made \in Nat
    BY DEF PairInv, HeapOK
  <2> QED BY <2>4, <2>5, <2>6
<1>4. /\ fr \in Frames /\ outcome[q] # "none"
      /\ cancelled[q] => fr.entry = Absent
  BY <1>1, FiringFacts
<1>5. /\ frame'[q] = fr /\ \A r \in Requests \ {q} : frame'[r] = frame[r]
      /\ promise' = Settled(q, g) /\ sub' = sub
  BY DEF PairInv, TypeOK, PairsAfter
<1>6. TypeOK'
  <2>1. frame' \in [Requests -> Frames]
    BY <1>4 DEF PairInv, TypeOK
  <2>2. promise' \in [Requests -> [Fields -> {"none", "pending", "settled"}]]
    BY <1>1, <1>5 DEF PairInv, TypeOK, Settled
  <2>3. /\ heap'.to \in [1..heap'.made -> Target \cup {Idle}] /\ heap'.pool \in Seq(1..heap'.made)
        /\ Len(heap'.pool) <= PoolMax /\ heap'.made \in Nat
    BY <1>3 DEF HeapOK
  <2> QED BY <1>3, <1>5, <2>1, <2>2, <2>3 DEF PairInv, TypeOK
<1>7. PointsBack'
  <2> SUFFICES ASSUME NEW c \in 1..heap.made, heap'.to[c] # Idle
               PROVE  /\ frame'[heap'.to[c].req].ctx[heap'.to[c].field] = c
                      /\ frame'[heap'.to[c].req].entry[heap'.to[c].field] = "waiting"
    BY <1>3 DEF PointsBack, PointsAtItsEntry
  <2>1. c # fired /\ heap'.to[c] = heap.to[c] /\ heap.to[c] \in Target
    BY <1>3 DEF HeapOK
  <2>2. heap.to[c].req \in Requests
    BY <2>1, PairTypes
  <2>3. CASE heap.to[c].req = q
    <3>1. fr.entry[heap.to[c].field] = "waiting" /\ fr.ctx[heap.to[c].field] = c
      BY <1>1, <2>1, <2>3, StillWaiting
    <3> QED BY <3>1, <2>1, <2>3, <1>5
  <2>4. CASE heap.to[c].req # q
    BY <2>1, <2>2, <2>4, <1>5 DEF PairInv, PointsBack, PointsAtItsEntry
  <2> QED BY <2>3, <2>4
<1>8. NotStarted'
  <2> SUFFICES ASSUME NEW r \in Requests, outcome[r] = "none"
               PROVE  /\ frame'[r].entry = Absent /\ promise'[r] = Absent
                      /\ ~cancelled[r] /\ ~completed[r]
    BY DEF NotStarted
  <2>1. r # q
    BY <1>4
  <2>2. promise'[r] = promise[r] /\ frame'[r] = frame[r]
    BY <2>1, <1>5 DEF Settled, PairInv, TypeOK
  <2> QED BY <2>2 DEF PairInv, NotStarted
<1>9. CancelledIsTornDown'
  <2> SUFFICES ASSUME NEW r \in Requests, cancelled[r]
               PROVE  /\ frame'[r].entry = Absent
                      /\ \A c \in 1..heap.made : heap'.to[c].req # r
    BY <1>3 DEF CancelledIsTornDown
  <2>1. frame'[r].entry = Absent
    BY <1>4, <1>5 DEF PairInv, CancelledIsTornDown
  <2>2. ASSUME NEW c \in 1..heap.made PROVE heap'.to[c].req # r
    <3>1. heap.to[c].req # r /\ Idle.req # r
      BY PairTypes DEF PairInv, CancelledIsTornDown, Idle
    <3> QED BY <3>1, <1>3
  <2> QED BY <2>1, <2>2
<1> QED BY <1>2, <1>3, <1>6, <1>7, <1>8, <1>9 DEF PairInv

\* A promise whose pair was disarmed settles nothing.
LEMMA UnheardKeepsPairs ==
  ASSUME PairInv, NEW q \in Requests, NEW g \in Promised, promise[q][g] = "pending",
         promise' = Settled(q, g), stack' \in Seq(Drivers),
         UNCHANGED <<mode, frame, sub, heap, completed, cancelled, outcome>>
  PROVE  PairInv'
<1>1. promise' \in [Requests -> [Fields -> {"none", "pending", "settled"}]]
  BY PairTypes DEF PairInv, TypeOK, Settled
<1>2. TypeOK' /\ HeapOK(heap') /\ PointsBack' /\ CancelledIsTornDown'
  BY <1>1 DEF PairInv, TypeOK, PointsBack, PointsAtItsEntry, CancelledIsTornDown
<1>3. \A p \in PendingPromises' : p \in PendingPromises /\ PairOf(p)' = PairOf(p)
  BY FrameFacts, PairTypes DEF PendingPromises, PairOf, Settled, PairInv, TypeOK
<1>4. PairsHeld'
  BY <1>3 DEF PairInv, PairsHeld
<1>5. NotStarted'
  BY PairTypes DEF PairInv, NotStarted, TypeOK, Settled, Absent
<1> QED BY <1>2, <1>4, <1>5 DEF PairInv

\* Steps that only move the stack of drivers or tell the caller an answer.
LEMMA OutcomeStepKeepsPairs ==
  ASSUME PairInv, NotCancelled, stack' \in Seq(Drivers),
         outcome' \in [Requests -> {"none", "pending", "answered", "refused"}],
         \A r \in Requests : outcome'[r] = "none" => outcome[r] = "none"
  PROVE  PairInv'
<1>1. /\ mode' = mode /\ frame' = frame /\ promise' = promise /\ sub' = sub
      /\ heap' = heap /\ completed' = completed /\ cancelled' = cancelled
  BY DEF NotCancelled
<1>2. TypeOK' /\ HeapOK(heap') /\ PointsBack' /\ CancelledIsTornDown' /\ NotStarted'
  BY <1>1 DEF PairInv, TypeOK, PointsBack, PointsAtItsEntry, CancelledIsTornDown, NotStarted
<1>3. PendingPromises' = PendingPromises /\ \A p \in PendingPromises : PairOf(p)' = PairOf(p)
  BY <1>1 DEF PendingPromises, PairOf
<1>4. PairsHeld'
  BY <1>1, <1>3 DEF PairInv, PairsHeld
<1> QED BY <1>2, <1>4 DEF PairInv

-----------------------------------------------------------------------------
(* Types and pairs, for every behaviour *)

\* Drivers stay drivers, whatever is pushed, popped or changed at the top.
LEMMA StackFacts ==
  ASSUME TypeOK
  PROVE  /\ stack \in Seq(Drivers) /\ Progressed \in Seq(Drivers)
         /\ \A r \in Requests :
              Append(stack, [req |-> r, phase |-> "loop", progress |-> FALSE]) \in Seq(Drivers)
         /\ Depth > 0 =>
              /\ Top \in Drivers /\ Top.req \in Requests /\ Popped \in Seq(Drivers)
              /\ \A phase \in {"loop", "hook"}, progress \in BOOLEAN :
                   TopIn(phase, progress) \in Seq(Drivers)
<1>1. stack \in Seq(Drivers) /\ Len(stack) \in Nat
  BY DEF TypeOK
<1>2. \A r \in Requests :
        Append(stack, [req |-> r, phase |-> "loop", progress |-> FALSE]) \in Seq(Drivers)
  BY <1>1 DEF Drivers
<1>3. ASSUME Depth > 0
      PROVE  Top \in Drivers /\ Top.req \in Requests /\ Popped \in Seq(Drivers)
  <2>1. Top \in Drivers
    BY <1>1, <1>3 DEF Depth, Top
  <2>2. Popped \in Seq(Drivers)
    BY <1>1, <1>3 DEF Depth, Popped
  <2> QED BY <2>1, <2>2 DEF Drivers
<1>4. ASSUME Depth > 0, NEW phase \in {"loop", "hook"}, NEW progress \in BOOLEAN
      PROVE  TopIn(phase, progress) \in Seq(Drivers)
  <2>1. [req |-> Top.req, phase |-> phase, progress |-> progress] \in Drivers
    BY <1>3, <1>4 DEF Drivers
  <2> QED BY <2>1, <1>1, <1>4 DEF TopIn, Depth
<1>5. Progressed \in Seq(Drivers)
  BY <1>1, <1>4 DEF Progressed, InHook
<1> QED BY <1>1, <1>2, <1>3, <1>4, <1>5

\* The initial state satisfies the invariant.
LEMMA InitPairs == Init => PairInv
<1> SUFFICES ASSUME Init PROVE PairInv
  OBVIOUS
<1>1. heap.made = 0 /\ heap.to = <<>> /\ heap.pool = <<>>
  BY DEF Init
<1>2. HeapOK(heap)
  BY <1>1, PairTypes DEF HeapOK, Init
<1>3. TypeOK
  <2>1. mode \in [Requests -> Modes]
    BY ModeAssumption DEF Init
  <2>2. frame \in [Requests -> Frames]
    BY DEF Init, Frames, Absent, NoPair
  <2>3. /\ promise \in [Requests -> [Fields -> {"none", "pending", "settled"}]]
        /\ sub \in [Requests -> [Fields -> 0..heap.made]]
    BY <1>1 DEF Init, NoPair
  <2>4. /\ heap.made \in Nat /\ heap.to \in [1..heap.made -> Target \cup {Idle}]
        /\ heap.pool \in Seq(1..heap.made) /\ Len(heap.pool) <= PoolMax
    BY <1>2 DEF HeapOK
  <2>5. /\ completed \in [Requests -> BOOLEAN] /\ cancelled \in [Requests -> BOOLEAN]
        /\ outcome \in [Requests -> {"none", "pending", "answered", "refused"}]
        /\ stack \in Seq(Drivers)
    BY DEF Init
  <2> QED BY <2>1, <2>2, <2>3, <2>4, <2>5 DEF TypeOK
<1>4. PairsHeld
  <2>1. \A r \in Requests, f \in Promised : promise[r][f] # "pending"
    BY PairTypes DEF Init
  <2> QED BY <2>1 DEF PairsHeld, PendingPromises
<1>5. PointsBack
  BY <1>1 DEF PointsBack
<1>6. NotStarted /\ CancelledIsTornDown
  BY DEF Init, NotStarted, CancelledIsTornDown, Absent
<1> QED BY <1>2, <1>3, <1>4, <1>5, <1>6 DEF PairInv

\* A promise that settles, through the pair it holds.
LEMMA SettlePromiseKeepsPairs ==
  ASSUME PairInv, NEW r \in Requests, NEW f \in Promised, SettlePromise(r, f)
  PROVE  PairInv'
<1> DEFINE c == sub[r][f]
           t == heap.to[c]
           reaches == t # Idle /\ frame[t.req].entry[t.field] # "none"
           fr == EntryReady(frame[t.req], t.field)
<1>1. promise[r][f] = "pending" /\ stack' \in Seq(Drivers) /\ f \in Fields
  BY StackFacts, PairTypes DEF SettlePromise, PairInv
<1>2. <<r, f>> \in PendingPromises /\ PairOf(<<r, f>>) = c
  BY <1>1 DEF PendingPromises, PairOf
<1>3. c \in 1..heap.made /\ heap.made \in Nat /\ t \in {Idle, [req |-> r, field |-> f]}
  BY <1>2 DEF PairInv, PairsHeld, HeapOK
<1>4. ASSUME reaches
      PROVE  /\ t = [req |-> r, field |-> f] /\ t.req = r /\ c # 0
             /\ fr = EntryReady(frame[r], f) /\ Fires(r, f, c, fr)
  <2>1. t = [req |-> r, field |-> f] /\ t.req = r /\ c # 0
    <3>1. t # Idle /\ c # 0
      <4>1. t # Idle
        BY <1>4, Zenon
      <4>2. c # 0
        BY <1>3
      <4> QED BY <4>1, <4>2
    <3>2. t = [req |-> r, field |-> f]
      BY <1>3, <3>1
    <3> HIDE DEF t, c
    <3> QED BY <3>1, <3>2
  <2> QED BY <2>1, <1>1 DEF Fires
<1>5. CASE /\ promise' = Settled(r, f)
           /\ UNCHANGED <<mode, frame, sub, heap, completed, cancelled, outcome>>
  BY <1>1, <1>5, UnheardKeepsPairs
<1>6. CASE /\ reaches /\ frame' = [frame EXCEPT ![t.req] = fr] /\ heap' = Recycled(heap, c)
           /\ promise' = Settled(r, f)
           /\ UNCHANGED <<mode, sub, completed, cancelled, outcome>>
  <2>1. t.req = r /\ c # 0 /\ Fires(r, f, c, fr)
    BY <1>4, <1>6
  <2>2. PairsAfter(r, f, c, FALSE)
    BY <2>1, <1>6 DEF PairsAfter
  <2>3. frame' = [frame EXCEPT ![r] = fr]
    BY <2>1, <1>6
  <2> HIDE DEF fr, c, t
  <2> QED BY <2>1, <2>2, <2>3, <1>1, <1>6, SettledAloneKeepsPairs
<1>7. CASE reaches /\ ProcessFrame(t.req, fr, c, Settled(r, f))
  <2>1. t.req = r /\ Fires(r, f, c, fr)
    BY <1>4, <1>7
  <2>2. ProcessFrame(r, fr, c, Settled(r, f))
    BY <2>1, <1>7
  <2> HIDE DEF fr, c, t
  <2> QED BY <2>1, <2>2, <1>1, ProcessFrameKeepsPairs
<1> QED BY <1>5, <1>6, <1>7 DEF SettlePromise

\* The last item of a list settles.
LEMMA SettleItemKeepsPairs ==
  ASSUME PairInv, NEW r \in Requests, NEW l \in Lists, SettleItem(r, l)
  PROVE  PairInv'
<1> DEFINE fr == IF frame[r].entry[l] = "waiting" THEN EntryReady(frame[r], l) ELSE frame[r]
<1>1. stack' \in Seq(Drivers) /\ l \in Fields
  BY StackFacts DEF SettleItem, PairInv, Fields
<1>2. Fires(r, l, 0, fr) /\ ProcessFrame(r, fr, 0, Settled(r, l))
  BY DEF SettleItem, Fires
<1> HIDE DEF fr
<1> QED BY <1>1, <1>2, ProcessFrameKeepsPairs

\* A request starts, driven or held by its caller.
LEMMA StartKeepsPairs ==
  ASSUME PairInv, NEW r \in Requests, Start(r)
  PROVE  PairInv'
<1>1. stack' \in Seq(Drivers)
  BY StackFacts DEF Start, PairInv
<1>2. PICK kept \in BOOLEAN : kept
  OBVIOUS
<1>3. PICK h : h = IF kept THEN Armed(heap, r) ELSE Disarmed(Armed(heap, r), TakenPairs)
  OBVIOUS
<1>4. ArmsFirstWave(r, h) /\ outcome[r] = "none"
  BY <1>2, <1>3 DEF Start
<1>5. /\ frame' = [frame EXCEPT ![r] = IF kept THEN NextWave(@, heap)
                                               ELSE Emptied(NextWave(@, heap))]
      /\ cancelled' = IF kept THEN cancelled ELSE [cancelled EXCEPT ![r] = TRUE]
      /\ outcome' = [outcome EXCEPT ![r] = IF kept THEN "pending" ELSE "refused"]
  BY <1>2 DEF Start
<1> QED BY <1>1, <1>3, <1>4, <1>5, FirstWaveKeepsPairs

\* A request starts and is refused on the spot.
LEMMA StartRefusedKeepsPairs ==
  ASSUME PairInv, NEW r \in Requests, StartRefused(r)
  PROVE  PairInv'
<1>1. stack' \in Seq(Drivers)
  BY StackFacts DEF StartRefused, PairInv
<1>2. PICK kept \in BOOLEAN : ~kept
  OBVIOUS
<1>3. PICK h : h = IF kept THEN Armed(heap, r) ELSE Disarmed(Armed(heap, r), TakenPairs)
  OBVIOUS
<1>4. ArmsFirstWave(r, h) /\ outcome[r] = "none"
  BY <1>2, <1>3 DEF StartRefused, TakenPairs
<1>5. /\ frame' = [frame EXCEPT ![r] = IF kept THEN NextWave(@, heap)
                                               ELSE Emptied(NextWave(@, heap))]
      /\ cancelled' = IF kept THEN cancelled ELSE [cancelled EXCEPT ![r] = TRUE]
      /\ outcome' = [outcome EXCEPT ![r] = IF kept THEN "pending" ELSE "refused"]
  BY <1>2 DEF StartRefused
<1> QED BY <1>1, <1>3, <1>4, <1>5, FirstWaveKeepsPairs

\* A driver returns, calls its hook, hears from it or gives up.
LEMMA DriverStepKeepsPairs ==
  ASSUME PairInv, DriverStep
  PROVE  PairInv'
<1>1. /\ outcome \in [Requests -> {"none", "pending", "answered", "refused"}]
      /\ stack \in Seq(Drivers)
  BY DEF PairInv, TypeOK
<1>2. Depth > 0
  BY DEF DriverStep, DriverReturns, CallHook, HookReturns, HookStalls, HookDies, InLoop, InHook
<1>3. /\ Top.req \in Requests /\ Top \in Drivers /\ Popped \in Seq(Drivers)
      /\ \A phase \in {"loop", "hook"}, progress \in BOOLEAN :
           TopIn(phase, progress) \in Seq(Drivers)
  BY <1>2, StackFacts DEF PairInv
<1>4. CASE DriverReturns
  BY <1>1, <1>3, <1>4, OutcomeStepKeepsPairs DEF DriverReturns
<1>5. CASE CallHook
  BY <1>1, <1>3, <1>5, OutcomeStepKeepsPairs DEF CallHook
<1>6. CASE HookReturns
  <2>1. Top.progress \in BOOLEAN
    BY <1>3 DEF Drivers
  <2> QED BY <1>1, <1>3, <1>6, <2>1, OutcomeStepKeepsPairs DEF HookReturns
<1>7. CASE HookStalls
  BY <1>3, <1>7, CancelKeepsPairs DEF HookStalls
<1>8. CASE HookDies
  <2>1. /\ outcome' = [outcome EXCEPT ![Top.req] = "refused"] /\ stack' \in Seq(Drivers)
        /\ Cancel(Top.req) \/ NotCancelled
    BY <1>3, <1>8 DEF HookDies
  <2>2. CASE Cancel(Top.req)
    BY <1>3, <2>1, <2>2, CancelKeepsPairs
  <2>3. CASE NotCancelled
    BY <1>1, <1>3, <2>1, <2>3, OutcomeStepKeepsPairs
  <2> QED BY <2>1, <2>2, <2>3
<1> QED BY <1>4, <1>5, <1>6, <1>7, <1>8 DEF DriverStep

\* Steps that change nothing.
LEMMA StutterKeepsPairs ==
  ASSUME PairInv, UNCHANGED vars
  PROVE  PairInv'
<1>1. NotCancelled /\ outcome' = outcome /\ stack' = stack
  BY DEF vars, NotCancelled
<1>2. /\ outcome \in [Requests -> {"none", "pending", "answered", "refused"}]
      /\ stack \in Seq(Drivers)
  BY DEF PairInv, TypeOK
<1> QED BY <1>1, <1>2, OutcomeStepKeepsPairs

\* Every step keeps the invariant about pairs.
LEMMA NextPairs == PairInv /\ [Next]_vars => PairInv'
<1> SUFFICES ASSUME PairInv, [Next]_vars PROVE PairInv'
  OBVIOUS
<1>1. CASE UNCHANGED vars
  BY <1>1, StutterKeepsPairs
<1>2. CASE DriverStep
  BY <1>2, DriverStepKeepsPairs
<1>3. CASE UserStep
  BY <1>3, StartKeepsPairs, StartRefusedKeepsPairs, SettlePromiseKeepsPairs,
     SettleItemKeepsPairs DEF UserStep
<1> QED BY <1>1, <1>2, <1>3 DEF Next

\* Pairs stay with the promise and the entry they serve, in every behaviour.
THEOREM PairInvHolds == Spec => []PairInv
BY InitPairs, NextPairs, PTL DEF Spec

\* Requests, promises, pairs and drivers keep their types, and a pooled pair was
\* made (TypeOK).
THEOREM TypesAreKept == Spec => []TypeOK
<1>1. PairInv => TypeOK
  BY DEF PairInv
<1> QED BY <1>1, PairInvHolds, PTL

\* A pair that fires settles the entry its promise was armed for, or nothing:
\* pair_recycle and ctx_disarm never hand a pair on while a promise holds it.
THEOREM CallbacksStayTrue == Spec => []CallbackSettlesItsOwnEntry
<1>1. PairInv => CallbackSettlesItsOwnEntry
  BY DEF PairInv, PairsHeld, InPool, CallbackSettlesItsOwnEntry
<1> QED BY <1>1, PairInvHolds, PTL

\* A cancelled request stays torn down, whatever settles later
\* (gql_runtime_vm_cancel_exec_state_sv).
THEOREM CancelTearsDown == Spec => []CancelledIsTornDown
<1>1. PairInv => CancelledIsTornDown
  BY DEF PairInv
<1> QED BY <1>1, PairInvHolds, PTL

-----------------------------------------------------------------------------
(* Waiting entries and the pairs that will settle them *)

\* A waiting entry's promise has not settled and holds a pair that points at it.
WaitingIsArmed ==
  \A r \in Requests, f \in Promised :
    frame[r].entry[f] = "waiting" =>
      /\ promise[r][f] = "pending"
      /\ heap.to[sub[r][f]] = [req |-> r, field |-> f]

\* A step that cancels a request finds no pair of another request in its entries:
\* what the code would ensure if an entry forgot its context when its pair fired.
CancelsItsOwn ==
  \A r \in Requests : cancelled'[r] =>
    \A c \in ArmedContexts(r) : heap.to[c] = Idle \/ heap.to[c].req = r

\* No entry names a pair of another request, whether it waits or has settled.
ContextsAreOwn ==
  \A r \in Requests : \A c \in ArmedContexts(r) :
    c \in 1..heap.made /\ (heap.to[c] = Idle \/ heap.to[c].req = r)

\* The pair of an entry that waits is made, out of the pool and its promise's own.
LEMMA WaitingPair ==
  ASSUME PairInv, WaitingIsArmed, NEW r \in Requests, NEW f \in Promised,
         frame[r].entry[f] = "waiting"
  PROVE  /\ promise[r][f] = "pending"
         /\ heap.to[sub[r][f]] = [req |-> r, field |-> f]
         /\ sub[r][f] \in 1..heap.made /\ ~InPool(heap, sub[r][f])
         /\ \A q \in Requests, g \in Promised :
              promise[q][g] = "pending" /\ sub[q][g] = sub[r][f] => q = r /\ g = f
<1>1. /\ promise[r][f] = "pending"
      /\ heap.to[sub[r][f]] = [req |-> r, field |-> f]
  BY DEF WaitingIsArmed
<1>2. \A q \in Requests, g \in Promised : promise[q][g] = "pending" =>
        <<q, g>> \in PendingPromises /\ PairOf(<<q, g>>) = sub[q][g]
  BY DEF PendingPromises, PairOf
<1>3. <<r, f>> \in PendingPromises /\ PairOf(<<r, f>>) = sub[r][f]
  BY <1>1, <1>2
<1>4. sub[r][f] \in 1..heap.made /\ ~InPool(heap, sub[r][f])
  BY <1>3 DEF PairInv, PairsHeld
<1>5. ASSUME NEW q \in Requests, NEW g \in Promised, promise[q][g] = "pending",
             sub[q][g] = sub[r][f]
      PROVE  q = r /\ g = f
  <2>1. <<q, g>> \in PendingPromises /\ PairOf(<<q, g>>) = PairOf(<<r, f>>)
    BY <1>2, <1>3, <1>5
  <2>2. <<q, g>> = <<r, f>>
    BY <1>3, <2>1 DEF PairInv, PairsHeld
  <2> QED BY <2>2
<1> QED BY <1>1, <1>4, <1>5

\* When a promise settles, the pairs of other waiting entries stay as they are,
\* and those of the wave it uncovers are armed.
LEMMA SettlingKeepsArmed ==
  ASSUME PairInv, WaitingIsArmed, NEW q \in Requests, NEW g \in Fields,
         NEW fired, NEW fr, Fires(q, g, fired, fr),
         NEW starts, PairsAfter(q, g, fired, starts)
  PROVE  /\ \A r \in Requests, f \in Promised :
              /\ frame[r].entry[f] = "waiting"
              /\ ~(r = q /\ f = g) /\ ~(starts /\ r = q)
              => /\ promise'[r][f] = "pending"
                 /\ heap'.to[sub'[r][f]] = [req |-> r, field |-> f]
         /\ \A f \in Promised : starts =>
              /\ promise'[q][f] = "pending"
              /\ heap'.to[sub'[q][f]] = [req |-> q, field |-> f]
<1>1. PICK h : h = IF starts THEN Armed(heap, q) ELSE heap
  OBVIOUS
<1>2. /\ HeapOK(heap) /\ HeapOK(h) /\ heap.made <= h.made
      /\ \A c \in 1..h.made : heap'.to[c] = IF c = fired THEN Idle ELSE h.to[c]
  BY <1>1, ProcessFrameHeap DEF PairInv
<1>3. heap.made \in Nat /\ h.made \in Nat
  BY <1>2 DEF HeapOK
<1>4. fired # 0 => /\ fired \in 1..heap.made /\ ~InPool(heap, fired)
                   /\ fired = sub[q][g] /\ g \in Promised
  BY FiringFacts
<1>5. promise[q][g] = "pending"
  BY DEF Fires
<1>6. ASSUME NEW r \in Requests, NEW f \in Promised, frame[r].entry[f] = "waiting",
             ~(r = q /\ f = g), ~(starts /\ r = q)
      PROVE  /\ promise'[r][f] = "pending"
             /\ heap'.to[sub'[r][f]] = [req |-> r, field |-> f]
  <2>1. /\ promise[r][f] = "pending"
        /\ heap.to[sub[r][f]] = [req |-> r, field |-> f]
        /\ sub[r][f] \in 1..heap.made /\ ~InPool(heap, sub[r][f])
        /\ \A p \in Requests, x \in Promised :
             promise[p][x] = "pending" /\ sub[p][x] = sub[r][f] => p = r /\ x = f
    BY <1>6, WaitingPair
  <2>2. sub[r][f] # fired
    BY <2>1, <1>3, <1>4, <1>5, <1>6
  <2>3. promise'[r][f] = promise[r][f]
    <3>1. promise' \in {Settled(q, g), [Settled(q, g) EXCEPT ![q] = [x \in Fields |-> "pending"]]}
      BY DEF PairsAfter
    <3>2. promise'[r] = Settled(q, g)[r]
      BY <1>6, <3>1 DEF PairsAfter, Settled, PairInv, TypeOK
    <3>3. Settled(q, g)[r][f] = promise[r][f]
      BY <1>6, FrameFacts, PairTypes DEF Settled, PairInv, TypeOK
    <3> QED BY <3>2, <3>3
  <2>4. sub'[r] = sub[r]
    BY <1>6 DEF PairsAfter, PairInv, TypeOK
  <2>5. sub[r][f] \in 1..h.made /\ h.to[sub[r][f]] = heap.to[sub[r][f]]
    <3>1. CASE ~starts
      BY <3>1, <1>1, <2>1
    <3>2. CASE starts
      <4>1. h = Armed(heap, q)
        BY <3>2, <1>1
      <4>2. sub[r][f] \in 1..h.made
        <5>1. sub[r][f] \in 1..heap.made /\ heap.made <= h.made
          BY <2>1, <1>2
        <5> QED BY <5>1, <1>3
      <4>3. \A i \in Promised : TakenPair(heap, i) # sub[r][f]
        BY <2>1, <1>2, ArmedFacts
      <4>4. \A c \in 1..h.made :
              (\A i \in Promised : TakenPair(heap, i) # c) => h.to[c] = heap.to[c]
        BY <4>1, <1>2, ArmedFacts
      <4> QED BY <4>2, <4>3, <4>4
    <3> QED BY <3>1, <3>2
  <2> QED BY <2>1, <2>2, <2>3, <2>4, <2>5, <1>2
<1>7. ASSUME NEW f \in Promised, starts
      PROVE  /\ promise'[q][f] = "pending"
             /\ heap'.to[sub'[q][f]] = [req |-> q, field |-> f]
  <2>1. h = Armed(heap, q)
    BY <1>1, <1>7
  <2>2. sub'[q] = PairsFor(heap) /\ PairsFor(heap)[f] = TakenPair(heap, f)
    BY <1>2, <1>7, PairsForFacts DEF PairsAfter, PairInv, TypeOK
  <2>3. promise'[q] = [x \in Fields |-> "pending"]
    BY <1>7 DEF PairsAfter, Settled, PairInv, TypeOK
  <2>4. /\ TakenPair(heap, f) \in 1..h.made
        /\ h.to[TakenPair(heap, f)] = [req |-> q, field |-> f]
    BY <2>1, <1>2, ArmedFacts
  <2>5. TakenPair(heap, f) # fired
    <3>1. CASE fired = 0
      BY <3>1, <2>4, <1>3
    <3>2. CASE fired # 0
      BY <3>2, <1>2, <1>4, ArmedFacts
    <3> QED BY <3>1, <3>2
  <2> QED BY <2>2, <2>3, <2>4, <2>5, <1>2, PairTypes
<1> QED BY <1>6, <1>7

\* An entry that waits once a promise has settled waited before, on another one.
LEMMA StillWaited ==
  ASSUME PairInv, NEW q \in Requests, NEW g \in Fields, NEW fired, NEW fr,
         Fires(q, g, fired, fr), NEW f \in Promised, fr.entry[f] = "waiting"
  PROVE  frame[q].entry[f] = "waiting" /\ f # g
<1>1. frame[q].entry \in [Fields -> {"none", "waiting", "ready"}] /\ f \in Fields
  BY FrameFacts, PairTypes DEF PairInv
<1>2. CASE fr = EntryReady(frame[q], g)
  BY <1>1, <1>2 DEF EntryReady
<1>3. CASE fr = frame[q] /\ g \in Lists
  BY <1>3, FieldAssumption
<1> QED BY <1>2, <1>3 DEF Fires

\* Processing a frame keeps waiting entries armed.
LEMMA ProcessFrameKeepsArmed ==
  ASSUME PairInv, WaitingIsArmed, NEW q \in Requests, NEW g \in Fields,
         NEW fired, NEW fr, Fires(q, g, fired, fr),
         ProcessFrame(q, fr, fired, Settled(q, g))
  PROVE  WaitingIsArmed'
<1>1. PairsAfter(q, g, fired, StartsWave(q, fr))
  BY DEF PairsAfter, ProcessFrame
<1>2. /\ frame'[q] = FrameAfter(q, fr, heap)
      /\ \A r \in Requests \ {q} : frame'[r] = frame[r]
  BY DEF ProcessFrame, PairInv, TypeOK
<1> SUFFICES ASSUME NEW r \in Requests, NEW f \in Promised,
                    frame'[r].entry[f] = "waiting"
             PROVE  /\ promise'[r][f] = "pending"
                    /\ heap'.to[sub'[r][f]] = [req |-> r, field |-> f]
  BY DEF WaitingIsArmed
<1>3. CASE r # q
  BY <1>1, <1>2, <1>3, SettlingKeepsArmed
<1>4. CASE r = q /\ StartsWave(q, fr)
  BY <1>1, <1>4, SettlingKeepsArmed
<1>5. CASE r = q /\ ~StartsWave(q, fr)
  <2>1. f \in Fields
    BY PairTypes
  <2>2. ~Resolves(q, fr)
    BY <1>2, <1>5, <2>1 DEF FrameAfter, Emptied, Absent
  <2>3. fr.entry[f] = "waiting"
    BY <1>2, <1>5, <2>1, <2>2 DEF FrameAfter, ReadyConsumed
  <2>4. frame[q].entry[f] = "waiting" /\ f # g
    BY <2>3, StillWaited
  <2> QED BY <1>1, <1>5, <2>4, SettlingKeepsArmed
<1> QED BY <1>3, <1>4, <1>5

\* A promise that settles alone, or that nobody hears, keeps them armed.
LEMMA SettlePromiseKeepsArmed ==
  ASSUME PairInv, WaitingIsArmed, NEW r \in Requests, NEW f \in Promised,
         SettlePromise(r, f)
  PROVE  WaitingIsArmed'
<1> DEFINE c == sub[r][f]
           t == heap.to[c]
           reaches == t # Idle /\ frame[t.req].entry[t.field] # "none"
           fr == EntryReady(frame[t.req], t.field)
<1>1. promise[r][f] = "pending" /\ f \in Fields
  BY PairTypes DEF SettlePromise
<1>2. <<r, f>> \in PendingPromises /\ PairOf(<<r, f>>) = c
  BY <1>1 DEF PendingPromises, PairOf
<1>3. c \in 1..heap.made /\ heap.made \in Nat /\ t \in {Idle, [req |-> r, field |-> f]}
  BY <1>2 DEF PairInv, PairsHeld, HeapOK
<1>4. ASSUME reaches
      PROVE  /\ t.req = r /\ c # 0
             /\ fr = EntryReady(frame[r], f) /\ Fires(r, f, c, fr)
  <2>1. t = [req |-> r, field |-> f] /\ t.req = r /\ c # 0
    <3>1. t # Idle /\ c # 0
      <4>1. t # Idle
        BY <1>4, Zenon
      <4>2. c # 0
        BY <1>3
      <4> QED BY <4>1, <4>2
    <3>2. t = [req |-> r, field |-> f]
      BY <1>3, <3>1
    <3> HIDE DEF t, c
    <3> QED BY <3>1, <3>2
  <2> QED BY <2>1, <1>1 DEF Fires
<1>5. CASE /\ ~reaches /\ promise' = Settled(r, f)
           /\ UNCHANGED <<mode, frame, sub, heap, completed, cancelled, outcome>>
  <2>1. frame[r].entry[f] # "waiting"
    <3> SUFFICES ASSUME frame[r].entry[f] = "waiting" PROVE FALSE
      OBVIOUS
    <3>1. t = [req |-> r, field |-> f]
      BY DEF WaitingIsArmed
    <3>2. t # Idle
      BY <3>1, PairTypes DEF Idle
    <3> QED BY <3>1, <3>2, <1>5
  <2>2. \A q \in Requests, g \in Promised :
          ~(q = r /\ g = f) => promise'[q][g] = promise[q][g]
    BY <1>5, FrameFacts, PairTypes DEF Settled, PairInv, TypeOK
  <2>3. frame' = frame /\ sub' = sub /\ heap' = heap
    BY <1>5
  <2>4. ASSUME NEW q \in Requests, NEW g \in Promised, frame[q].entry[g] = "waiting"
        PROVE  /\ promise'[q][g] = "pending"
               /\ heap.to[sub[q][g]] = [req |-> q, field |-> g]
    <3>1. /\ promise[q][g] = "pending"
          /\ heap.to[sub[q][g]] = [req |-> q, field |-> g]
      BY <2>4 DEF WaitingIsArmed
    <3>2. promise'[q][g] = promise[q][g]
      BY <2>1, <2>2, <2>4
    <3> QED BY <3>1, <3>2
  <2> QED BY <2>3, <2>4 DEF WaitingIsArmed
<1>6. CASE /\ reaches /\ frame' = [frame EXCEPT ![t.req] = fr] /\ heap' = Recycled(heap, c)
           /\ promise' = Settled(r, f)
           /\ UNCHANGED <<mode, sub, completed, cancelled, outcome>>
  <2>1. t.req = r /\ c # 0 /\ Fires(r, f, c, fr)
    BY <1>4, <1>6
  <2>2. PairsAfter(r, f, c, FALSE)
    BY <2>1, <1>6 DEF PairsAfter
  <2>3. frame' = [frame EXCEPT ![r] = fr]
    BY <2>1, <1>6
  <2> HIDE DEF fr, c, t
  <2>4. /\ frame'[r] = fr /\ \A q \in Requests \ {r} : frame'[q] = frame[q]
    BY <2>3 DEF PairInv, TypeOK
  <2>5. ASSUME NEW q \in Requests, NEW g \in Promised, frame'[q].entry[g] = "waiting"
        PROVE  frame[q].entry[g] = "waiting" /\ ~(q = r /\ g = f)
    BY <2>1, <2>4, <2>5, <1>1, StillWaited
  <2>6. PICK starts : starts = FALSE
    OBVIOUS
  <2>7. PairsAfter(r, f, c, starts)
    BY <2>2, <2>6
  <2>8. \A q \in Requests, g \in Promised :
          frame[q].entry[g] = "waiting" /\ ~(q = r /\ g = f) =>
            /\ promise'[q][g] = "pending"
            /\ heap'.to[sub'[q][g]] = [req |-> q, field |-> g]
    BY <2>1, <2>6, <2>7, <1>1, SettlingKeepsArmed
  <2> QED BY <2>5, <2>8 DEF WaitingIsArmed
<1>7. CASE reaches /\ ProcessFrame(t.req, fr, c, Settled(r, f))
  <2>1. t.req = r /\ Fires(r, f, c, fr)
    BY <1>4, <1>7
  <2>2. ProcessFrame(r, fr, c, Settled(r, f))
    BY <2>1, <1>7
  <2> HIDE DEF fr, c, t
  <2> QED BY <2>1, <2>2, <1>1, ProcessFrameKeepsArmed
<1> QED BY <1>5, <1>6, <1>7 DEF SettlePromise

\* The last item of a list settles.
LEMMA SettleItemKeepsArmed ==
  ASSUME PairInv, WaitingIsArmed, NEW r \in Requests, NEW l \in Lists, SettleItem(r, l)
  PROVE  WaitingIsArmed'
<1> DEFINE fr == IF frame[r].entry[l] = "waiting" THEN EntryReady(frame[r], l) ELSE frame[r]
<1>1. l \in Fields
  BY DEF Fields
<1>2. Fires(r, l, 0, fr) /\ ProcessFrame(r, fr, 0, Settled(r, l))
  BY DEF SettleItem, Fires
<1> HIDE DEF fr
<1> QED BY <1>1, <1>2, ProcessFrameKeepsArmed

\* The first wave of a request is armed, or its request is refused and waits for
\* nothing; no other request's pair is touched.
LEMMA FirstWaveKeepsArmed ==
  ASSUME PairInv, WaitingIsArmed, NEW r \in Requests, NEW kept \in BOOLEAN, NEW h,
         h = IF kept THEN Armed(heap, r) ELSE Disarmed(Armed(heap, r), TakenPairs),
         ArmsFirstWave(r, h),
         frame' = [frame EXCEPT ![r] = IF kept THEN NextWave(@, heap)
                                              ELSE Emptied(NextWave(@, heap))]
  PROVE  WaitingIsArmed'
<1>1. /\ heap' = h /\ promise' = [promise EXCEPT ![r] = [f \in Fields |-> "pending"]]
      /\ sub' = [sub EXCEPT ![r] = PairsFor(heap)]
  BY DEF ArmsFirstWave
<1>2. /\ frame'[r] = IF kept THEN NextWave(frame[r], heap) ELSE Emptied(NextWave(frame[r], heap))
      /\ promise'[r] = [f \in Fields |-> "pending"] /\ sub'[r] = PairsFor(heap)
      /\ \A q \in Requests \ {r} :
           frame'[q] = frame[q] /\ promise'[q] = promise[q] /\ sub'[q] = sub[q]
  BY <1>1 DEF PairInv, TypeOK
<1>3. /\ HeapOK(heap) /\ heap.made <= h.made /\ heap.made \in Nat /\ h.made \in Nat
      /\ \A i \in Promised :
           h.to[TakenPair(heap, i)] = IF kept THEN [req |-> r, field |-> i] ELSE Idle
      /\ \A c \in 1..h.made :
           (\A i \in Promised : TakenPair(heap, i) # c) =>
             c \in 1..heap.made /\ h.to[c] = heap.to[c]
      /\ \A c \in 1..heap.made :
           ~InPool(heap, c) => \A i \in Promised : TakenPair(heap, i) # c
  BY FirstWaveHeap DEF HeapOK
<1> SUFFICES ASSUME NEW q \in Requests, NEW f \in Promised,
                    frame'[q].entry[f] = "waiting"
             PROVE  /\ promise'[q][f] = "pending"
                    /\ heap'.to[sub'[q][f]] = [req |-> q, field |-> f]
  BY DEF WaitingIsArmed
<1>4. CASE q = r
  <2>1. f \in Fields
    BY PairTypes
  <2>2. kept
    BY <1>2, <1>4, <2>1 DEF Emptied, Absent
  <2>3. sub'[q][f] = TakenPair(heap, f)
    BY <1>2, <1>3, <1>4, PairsForFacts
  <2> QED BY <1>1, <1>2, <1>3, <1>4, <2>1, <2>2, <2>3
<1>5. CASE q # r
  <2>1. frame[q].entry[f] = "waiting"
    BY <1>2, <1>5
  <2>2. /\ promise[q][f] = "pending"
        /\ heap.to[sub[q][f]] = [req |-> q, field |-> f]
        /\ sub[q][f] \in 1..heap.made /\ ~InPool(heap, sub[q][f])
    BY <2>1, WaitingPair
  <2>3. sub[q][f] \in 1..h.made /\ \A i \in Promised : TakenPair(heap, i) # sub[q][f]
    BY <2>2, <1>3
  <2> QED BY <1>1, <1>2, <1>3, <1>5, <2>2, <2>3
<1> QED BY <1>4, <1>5

\* Cancelling a request keeps the entries of others armed, if it names no pair of theirs.
LEMMA CancelKeepsArmed ==
  ASSUME PairInv, WaitingIsArmed, NEW r \in Requests, Cancel(r), CancelsItsOwn
  PROVE  WaitingIsArmed'
<1>1. /\ HeapOK(heap)
      /\ \A c \in 1..heap.made :
           heap'.to[c] = IF c \in ArmedContexts(r) THEN Idle ELSE heap.to[c]
  BY DisarmedFacts DEF Cancel, PairInv
<1>2. /\ frame'[r].entry = Absent /\ cancelled'[r]
      /\ \A q \in Requests \ {r} : frame'[q] = frame[q]
      /\ promise' = promise /\ sub' = sub
  BY DEF Cancel, Emptied, PairInv, TypeOK
<1> SUFFICES ASSUME NEW q \in Requests, NEW f \in Promised,
                    frame'[q].entry[f] = "waiting"
             PROVE  /\ promise'[q][f] = "pending"
                    /\ heap'.to[sub'[q][f]] = [req |-> q, field |-> f]
  BY DEF WaitingIsArmed
<1>3. q # r
  BY <1>2, PairTypes DEF Absent
<1>4. /\ promise[q][f] = "pending" /\ sub[q][f] \in 1..heap.made
      /\ heap.to[sub[q][f]] = [req |-> q, field |-> f]
  BY <1>2, <1>3, WaitingPair
<1>5. heap.to[sub[q][f]] # Idle /\ heap.to[sub[q][f]].req # r
  BY <1>3, <1>4, PairTypes DEF Idle
<1>6. sub[q][f] \notin ArmedContexts(r)
  BY <1>2, <1>5 DEF CancelsItsOwn
<1> QED BY <1>1, <1>2, <1>4, <1>6

\* Every step keeps waiting entries armed, if no cancellation names a foreign pair.
LEMMA NextArmed ==
  PairInv /\ WaitingIsArmed /\ [Next]_vars /\ [CancelsItsOwn]_vars => WaitingIsArmed'
<1> SUFFICES ASSUME PairInv, WaitingIsArmed, [Next]_vars, [CancelsItsOwn]_vars
             PROVE  WaitingIsArmed'
  OBVIOUS
<1>1. CASE UNCHANGED <<frame, promise, sub, heap>>
  BY <1>1 DEF WaitingIsArmed
<1>2. CASE UNCHANGED vars
  BY <1>1, <1>2 DEF vars
<1>3. ASSUME ~UNCHANGED vars, NEW r \in Requests, Cancel(r)
      PROVE  WaitingIsArmed'
  BY <1>3, CancelKeepsArmed
<1>4. CASE DriverStep
  <2>1. CASE NotCancelled
    BY <1>1, <2>1 DEF NotCancelled
  <2>2. CASE (HookStalls \/ HookDies) /\ Cancel(Top.req)
    <3>1. Top.req \in Requests
      BY <2>2, StackFacts DEF HookStalls, HookDies, InHook, PairInv
    <3> QED BY <2>2, <3>1, <1>2, <1>3
  <2> QED BY <1>4, <2>1, <2>2
          DEF DriverStep, DriverReturns, CallHook, HookReturns, HookStalls, HookDies
<1>5. ASSUME NEW r \in Requests, Start(r)
      PROVE  WaitingIsArmed'
  <2>1. PICK kept \in BOOLEAN : kept
    OBVIOUS
  <2>2. PICK h : h = IF kept THEN Armed(heap, r) ELSE Disarmed(Armed(heap, r), TakenPairs)
    OBVIOUS
  <2>3. /\ ArmsFirstWave(r, h)
        /\ frame' = [frame EXCEPT ![r] = IF kept THEN NextWave(@, heap)
                                                 ELSE Emptied(NextWave(@, heap))]
    BY <1>5, <2>1, <2>2 DEF Start
  <2> QED BY <2>2, <2>3, FirstWaveKeepsArmed
<1>6. ASSUME NEW r \in Requests, StartRefused(r)
      PROVE  WaitingIsArmed'
  <2>1. PICK kept \in BOOLEAN : ~kept
    OBVIOUS
  <2>2. PICK h : h = IF kept THEN Armed(heap, r) ELSE Disarmed(Armed(heap, r), TakenPairs)
    OBVIOUS
  <2>3. /\ ArmsFirstWave(r, h)
        /\ frame' = [frame EXCEPT ![r] = IF kept THEN NextWave(@, heap)
                                                 ELSE Emptied(NextWave(@, heap))]
    BY <1>6, <2>1, <2>2 DEF StartRefused, TakenPairs
  <2> QED BY <2>2, <2>3, FirstWaveKeepsArmed
<1>7. CASE UserStep
  BY <1>5, <1>6, <1>7, SettlePromiseKeepsArmed, SettleItemKeepsArmed DEF UserStep
<1> QED BY <1>2, <1>4, <1>7 DEF Next

\* The one cause of an entry that is never settled (gql_runtime_vm_cancel_frame_tree):
\* in a history where no cancellation finds a pair of another request, a waiting
\* entry's promise holds a pair that points at it.
THEOREM OnlyForeignPairsDisarm ==
  Spec /\ [][CancelsItsOwn]_vars => []WaitingEntriesStayArmed
<1>1. Init => WaitingIsArmed
  BY PairTypes DEF Init, WaitingIsArmed, Absent
<1>2. WaitingIsArmed => WaitingEntriesStayArmed
  BY DEF WaitingIsArmed, WaitingEntriesStayArmed
<1> QED BY <1>1, <1>2, NextArmed, PairInvHolds, PTL DEF Spec

\* The pairs a wave takes are those of its promises.
LEMMA PairsForContexts ==
  \A f \in Fields : PairsFor(heap)[f] # 0 =>
    f \in Promised /\ PairsFor(heap)[f] = TakenPair(heap, f)
BY DEF PairsFor

\* A step that only disarms old pairs, and whose new contexts are their request's.
LEMMA OwnContextsStay ==
  ASSUME ContextsAreOwn, heap.made \in Nat, heap'.made \in Nat, heap.made <= heap'.made,
         \A c \in 1..heap.made : heap'.to[c] \in {heap.to[c], Idle},
         \A r \in Requests, f \in Fields :
           LET c == frame'[r].ctx[f]
           IN  \/ c \in {0, frame[r].ctx[f]}
               \/ c \in 1..heap'.made /\ (heap'.to[c] = Idle \/ heap'.to[c].req = r)
  PROVE  ContextsAreOwn'
<1> SUFFICES ASSUME NEW r \in Requests, NEW f \in Fields, frame'[r].ctx[f] # 0
             PROVE  /\ frame'[r].ctx[f] \in 1..heap'.made
                    /\ \/ heap'.to[frame'[r].ctx[f]] = Idle
                       \/ heap'.to[frame'[r].ctx[f]].req = r
  BY DEF ContextsAreOwn, ArmedContexts
<1>1. CASE frame'[r].ctx[f] = frame[r].ctx[f]
  <2>1. frame[r].ctx[f] \in ArmedContexts(r)
    BY <1>1 DEF ArmedContexts
  <2>2. /\ frame[r].ctx[f] \in 1..heap.made
        /\ heap.to[frame[r].ctx[f]] = Idle \/ heap.to[frame[r].ctx[f]].req = r
    BY <2>1 DEF ContextsAreOwn
  <2>3. heap'.to[frame[r].ctx[f]] \in {heap.to[frame[r].ctx[f]], Idle}
    BY <2>2
  <2>4. frame[r].ctx[f] \in 1..heap'.made
    BY <2>2
  <2> QED BY <1>1, <2>2, <2>3, <2>4
<1>2. CASE frame'[r].ctx[f] # frame[r].ctx[f]
  BY <1>2
<1> QED BY <1>1, <1>2

\* With no pool, a pair that is made is taken once.
LEMMA ArmingAlone ==
  ASSUME PairInv, PoolMax = 0, NEW r \in Requests
  PROVE  /\ \A c : ~InPool(heap, c)
         /\ \A c \in 1..heap.made : Armed(heap, r).to[c] = heap.to[c]
<1>1. HeapOK(heap) /\ Len(heap.pool) = 0 /\ heap.made \in Nat
  BY DEF PairInv, HeapOK
<1>2. \A c : ~InPool(heap, c)
  BY <1>1 DEF InPool
<1>3. HeapOK(Armed(heap, r)) /\ heap.made <= Armed(heap, r).made
  BY <1>1, ArmedFacts
<1>4. Armed(heap, r).made \in Nat
  BY <1>3 DEF HeapOK
<1>5. ASSUME NEW c \in 1..heap.made
      PROVE  Armed(heap, r).to[c] = heap.to[c]
  <2>1. c \in 1..Armed(heap, r).made
    BY <1>1, <1>3, <1>4
  <2>2. \A i \in Promised : TakenPair(heap, i) # c
    BY <1>1, <1>2, ArmedFacts
  <2>3. \A d \in 1..Armed(heap, r).made :
          (\A i \in Promised : TakenPair(heap, i) # d) =>
            Armed(heap, r).to[d] = heap.to[d]
    BY <1>1, ArmedFacts
  <2> QED BY <2>1, <2>2, <2>3
<1> QED BY <1>2, <1>5

\* Processing a frame, with no pool: its next wave gets pairs nobody held.
LEMMA ProcessFrameKeepsOwn ==
  ASSUME PairInv, ContextsAreOwn, PoolMax = 0, NEW q \in Requests, NEW g \in Fields,
         NEW fired, NEW fr, Fires(q, g, fired, fr),
         ProcessFrame(q, fr, fired, Settled(q, g))
  PROVE  ContextsAreOwn'
<1>1. PICK h : h = IF StartsWave(q, fr) THEN Armed(heap, q) ELSE heap
  OBVIOUS
<1>2. /\ HeapOK(heap) /\ HeapOK(h) /\ heap.made <= h.made
      /\ HeapOK(heap') /\ heap'.made = h.made
      /\ \A c \in 1..h.made : heap'.to[c] = IF c = fired THEN Idle ELSE h.to[c]
  <2>1. PairsAfter(q, g, fired, StartsWave(q, fr))
    BY DEF PairsAfter, ProcessFrame
  <2> QED BY <1>1, <2>1, ProcessFrameHeap DEF PairInv
<1>3. heap.made \in Nat /\ heap'.made \in Nat /\ heap.made <= heap'.made
  BY <1>2 DEF HeapOK
<1>4. \A c \in 1..heap.made : heap'.to[c] \in {heap.to[c], Idle}
  <2> SUFFICES ASSUME NEW c \in 1..heap.made PROVE heap'.to[c] \in {heap.to[c], Idle}
    OBVIOUS
  <2>1. c \in 1..h.made
    BY <1>2, <1>3
  <2>2. h.to[c] = heap.to[c]
    BY <1>1, ArmingAlone
  <2> QED BY <2>1, <2>2, <1>2
<1>5. /\ frame'[q] = FrameAfter(q, fr, heap) /\ fr.ctx = frame[q].ctx
      /\ \A r \in Requests \ {q} : frame'[r] = frame[r]
  BY FiringFacts DEF ProcessFrame, PairInv, TypeOK
<1>6. ASSUME NEW r \in Requests, NEW f \in Fields
      PROVE  LET c == frame'[r].ctx[f]
             IN  \/ c \in {0, frame[r].ctx[f]}
                 \/ c \in 1..heap'.made /\ (heap'.to[c] = Idle \/ heap'.to[c].req = r)
  <2>1. CASE r # q
    BY <2>1, <1>5
  <2>2. CASE r = q /\ ~StartsWave(q, fr)
    BY <2>2, <1>5 DEF FrameAfter, Emptied, NoPair, ReadyConsumed
  <2>3. CASE r = q /\ StartsWave(q, fr)
    <3>1. frame'[q].ctx = PairsFor(heap) /\ h = Armed(heap, q)
      BY <2>3, <1>1, <1>5 DEF FrameAfter, NextWave
    <3>2. CASE PairsFor(heap)[f] = 0
      BY <2>3, <3>1, <3>2
    <3>3. CASE PairsFor(heap)[f] # 0
      <4>1. f \in Promised /\ PairsFor(heap)[f] = TakenPair(heap, f)
        BY <3>3, PairsForContexts
      <4>2. /\ TakenPair(heap, f) \in 1..h.made
            /\ h.to[TakenPair(heap, f)] = [req |-> q, field |-> f]
        BY <3>1, <4>1, <1>2, ArmedFacts
      <4>3. heap'.to[TakenPair(heap, f)] \in {Idle, [req |-> q, field |-> f]}
        BY <4>2, <1>2
      <4> QED BY <2>3, <3>1, <4>1, <4>2, <4>3, <1>2
    <3> QED BY <3>2, <3>3
  <2> QED BY <2>1, <2>2, <2>3
<1> QED BY <1>3, <1>4, <1>6, OwnContextsStay

\* A request starts, with no pool.
LEMMA FirstWaveKeepsOwn ==
  ASSUME PairInv, ContextsAreOwn, PoolMax = 0, NEW r \in Requests, NEW kept \in BOOLEAN,
         NEW h, h = IF kept THEN Armed(heap, r) ELSE Disarmed(Armed(heap, r), TakenPairs),
         ArmsFirstWave(r, h),
         frame' = [frame EXCEPT ![r] = IF kept THEN NextWave(@, heap)
                                              ELSE Emptied(NextWave(@, heap))]
  PROVE  ContextsAreOwn'
<1>1. /\ HeapOK(heap) /\ HeapOK(h) /\ heap.made <= h.made /\ heap' = h
      /\ \A i \in Promised :
           /\ TakenPair(heap, i) \in 1..h.made
           /\ h.to[TakenPair(heap, i)] = IF kept THEN [req |-> r, field |-> i] ELSE Idle
  BY FirstWaveHeap DEF ArmsFirstWave
<1>2. heap.made \in Nat /\ h.made \in Nat
  BY <1>1 DEF HeapOK
<1>3. ASSUME NEW c \in 1..heap.made PROVE h.to[c] = heap.to[c]
  <2>1. c \in 1..h.made
    BY <1>1, <1>2
  <2>2. \A i \in Promised : TakenPair(heap, i) # c
    BY <1>1, ArmingAlone, ArmedFacts
  <2>3. \A d \in 1..h.made :
          (\A i \in Promised : TakenPair(heap, i) # d) => h.to[d] = heap.to[d]
    BY FirstWaveHeap
  <2> QED BY <2>1, <2>2, <2>3
<1>4. ASSUME NEW q \in Requests, NEW f \in Fields
      PROVE  LET c == frame'[q].ctx[f]
             IN  \/ c \in {0, frame[q].ctx[f]}
                 \/ c \in 1..heap'.made /\ (heap'.to[c] = Idle \/ heap'.to[c].req = q)
  <2>1. /\ frame'[r] = IF kept THEN NextWave(frame[r], heap)
                               ELSE Emptied(NextWave(frame[r], heap))
        /\ q # r => frame'[q] = frame[q]
    BY DEF PairInv, TypeOK
  <2>2. CASE q # r \/ ~kept
    BY <2>1, <2>2 DEF Emptied, NoPair
  <2>3. CASE q = r /\ kept
    <3>1. frame'[q].ctx[f] = PairsFor(heap)[f]
      BY <2>1, <2>3 DEF NextWave
    <3>2. CASE PairsFor(heap)[f] = 0
      BY <3>1, <3>2
    <3>3. CASE PairsFor(heap)[f] # 0
      <4>1. f \in Promised /\ PairsFor(heap)[f] = TakenPair(heap, f)
        BY <3>3, PairsForContexts
      <4>2. /\ TakenPair(heap, f) \in 1..h.made
            /\ h.to[TakenPair(heap, f)] = [req |-> r, field |-> f]
        BY <2>3, <4>1, <1>1
      <4>3. heap'.to[TakenPair(heap, f)].req = r /\ TakenPair(heap, f) \in 1..heap'.made
        BY <4>2, <1>1
      <4> QED BY <2>3, <3>1, <4>1, <4>3
    <3> QED BY <3>2, <3>3
  <2> QED BY <2>2, <2>3
<1> QED BY <1>1, <1>2, <1>3, <1>4, OwnContextsStay

\* Steps after which frames keep their contexts or lose them, and pairs where they
\* point or nothing.
LEMMA FewerContexts ==
  ASSUME PairInv, ContextsAreOwn, heap'.made = heap.made,
         \A c \in 1..heap.made : heap'.to[c] \in {heap.to[c], Idle},
         \A r \in Requests, f \in Fields : frame'[r].ctx[f] \in {0, frame[r].ctx[f]}
  PROVE  ContextsAreOwn'
<1>1. heap.made \in Nat
  BY DEF PairInv, HeapOK
<1> QED BY <1>1, OwnContextsStay

\* Every step keeps contexts with their request when no pair is recycled.
LEMMA NextOwn ==
  PoolMax = 0 /\ PairInv /\ ContextsAreOwn /\ [Next]_vars => ContextsAreOwn'
<1> SUFFICES ASSUME PoolMax = 0, PairInv, ContextsAreOwn, [Next]_vars
             PROVE  ContextsAreOwn'
  OBVIOUS
<1>1. CASE UNCHANGED <<frame, heap>>
  BY <1>1 DEF ContextsAreOwn, ArmedContexts
<1>2. ASSUME NEW r \in Requests, Cancel(r)
      PROVE  ContextsAreOwn'
  <2>1. /\ heap'.made = heap.made
        /\ \A c \in 1..heap.made : heap'.to[c] \in {heap.to[c], Idle}
    BY <1>2, DisarmedFacts DEF Cancel, PairInv
  <2>2. \A q \in Requests, f \in Fields : frame'[q].ctx[f] \in {0, frame[q].ctx[f]}
    BY <1>2 DEF Cancel, Emptied, NoPair, PairInv, TypeOK
  <2> QED BY <2>1, <2>2, FewerContexts
<1>3. CASE DriverStep
  <2>1. CASE NotCancelled
    BY <1>1, <2>1 DEF NotCancelled
  <2>2. CASE (HookStalls \/ HookDies) /\ Cancel(Top.req)
    <3>1. Top.req \in Requests
      BY <2>2, StackFacts DEF HookStalls, HookDies, InHook, PairInv
    <3> QED BY <2>2, <3>1, <1>2
  <2> QED BY <1>3, <2>1, <2>2
          DEF DriverStep, DriverReturns, CallHook, HookReturns, HookStalls, HookDies
<1>4. ASSUME NEW r \in Requests, Start(r)
      PROVE  ContextsAreOwn'
  <2>1. PICK kept \in BOOLEAN : kept
    OBVIOUS
  <2>2. PICK h : h = IF kept THEN Armed(heap, r) ELSE Disarmed(Armed(heap, r), TakenPairs)
    OBVIOUS
  <2>3. /\ ArmsFirstWave(r, h)
        /\ frame' = [frame EXCEPT ![r] = IF kept THEN NextWave(@, heap)
                                                 ELSE Emptied(NextWave(@, heap))]
    BY <1>4, <2>1, <2>2 DEF Start
  <2> QED BY <2>2, <2>3, FirstWaveKeepsOwn
<1>5. ASSUME NEW r \in Requests, StartRefused(r)
      PROVE  ContextsAreOwn'
  <2>1. PICK kept \in BOOLEAN : ~kept
    OBVIOUS
  <2>2. PICK h : h = IF kept THEN Armed(heap, r) ELSE Disarmed(Armed(heap, r), TakenPairs)
    OBVIOUS
  <2>3. /\ ArmsFirstWave(r, h)
        /\ frame' = [frame EXCEPT ![r] = IF kept THEN NextWave(@, heap)
                                                 ELSE Emptied(NextWave(@, heap))]
    BY <1>5, <2>1, <2>2 DEF StartRefused, TakenPairs
  <2> QED BY <2>2, <2>3, FirstWaveKeepsOwn
<1>6. ASSUME NEW r \in Requests, NEW f \in Promised, SettlePromise(r, f)
      PROVE  ContextsAreOwn'
  <2> DEFINE c == sub[r][f]
             t == heap.to[c]
             reaches == t # Idle /\ frame[t.req].entry[t.field] # "none"
             fr == EntryReady(frame[t.req], t.field)
  <2>1. promise[r][f] = "pending" /\ f \in Fields
    BY <1>6, PairTypes DEF SettlePromise
  <2>2. <<r, f>> \in PendingPromises /\ PairOf(<<r, f>>) = c
    BY <2>1 DEF PendingPromises, PairOf
  <2>3. /\ c \in 1..heap.made /\ heap.made \in Nat /\ ~InPool(heap, c)
        /\ t \in {Idle, [req |-> r, field |-> f]} /\ HeapOK(heap)
    BY <2>2 DEF PairInv, PairsHeld, HeapOK
  <2>4. ASSUME reaches
        PROVE  /\ t.req = r /\ c # 0
               /\ fr = EntryReady(frame[r], f) /\ Fires(r, f, c, fr)
    <3>1. t = [req |-> r, field |-> f] /\ t.req = r /\ c # 0
      <4>1. t # Idle /\ c # 0
        <5>1. t # Idle
          BY <2>4, Zenon
        <5>2. c # 0
          BY <2>3
        <5> QED BY <5>1, <5>2
      <4>2. t = [req |-> r, field |-> f]
        BY <2>3, <4>1
      <4> HIDE DEF t, c
      <4> QED BY <4>1, <4>2
    <3> QED BY <3>1, <2>1 DEF Fires
  <2>5. CASE UNCHANGED <<frame, heap>>
    BY <1>1, <2>5
  <2>6. CASE reaches /\ frame' = [frame EXCEPT ![t.req] = fr] /\ heap' = Recycled(heap, c)
    <3>1. fr.ctx = frame[t.req].ctx
      BY DEF EntryReady
    <3>2. \A q \in Requests, g \in Fields : frame'[q].ctx[g] \in {0, frame[q].ctx[g]}
      BY <2>6, <3>1 DEF PairInv, TypeOK
    <3>3. /\ heap'.made = heap.made
          /\ \A d \in 1..heap.made : heap'.to[d] \in {heap.to[d], Idle}
      <4>1. heap'.made = heap.made /\ heap'.to = [heap.to EXCEPT ![c] = Idle]
        BY <2>6 DEF Recycled
      <4>2. heap.to \in [1..heap.made -> Target \cup {Idle}]
        BY <2>3 DEF HeapOK
      <4> QED BY <4>1, <4>2
    <3> QED BY <3>2, <3>3, FewerContexts
  <2>7. CASE reaches /\ ProcessFrame(t.req, fr, c, Settled(r, f))
    <3>1. t.req = r /\ Fires(r, f, c, fr)
      BY <2>4, <2>7
    <3>2. ProcessFrame(r, fr, c, Settled(r, f))
      BY <3>1, <2>7
    <3> HIDE DEF fr, c, t
    <3> QED BY <3>1, <3>2, <2>1, ProcessFrameKeepsOwn
  <2> QED BY <1>6, <2>5, <2>6, <2>7 DEF SettlePromise
<1>7. ASSUME NEW r \in Requests, NEW l \in Lists, SettleItem(r, l)
      PROVE  ContextsAreOwn'
  <2> DEFINE fr == IF frame[r].entry[l] = "waiting" THEN EntryReady(frame[r], l) ELSE frame[r]
  <2>1. l \in Fields
    BY DEF Fields
  <2>2. Fires(r, l, 0, fr) /\ ProcessFrame(r, fr, 0, Settled(r, l))
    BY <1>7 DEF SettleItem, Fires
  <2> HIDE DEF fr
  <2> QED BY <2>1, <2>2, ProcessFrameKeepsOwn
<1>8. CASE UNCHANGED vars
  BY <1>1, <1>8 DEF vars
<1>9. CASE UserStep
  BY <1>4, <1>5, <1>6, <1>7, <1>9 DEF UserStep
<1> QED BY <1>3, <1>8, <1>9 DEF Next

\* Without the pool (GQL_VM_PENDING_CB_POOL_MAX of 0) no request is lost: every
\* waiting entry's promise holds a pair that points at it, whatever is cancelled.
THEOREM NothingDisarmedWithoutPool ==
  ASSUME PoolMax = 0
  PROVE  Spec => []WaitingEntriesStayArmed
<1>1. Init => WaitingIsArmed /\ ContextsAreOwn
  BY PairTypes
     DEF Init, WaitingIsArmed, ContextsAreOwn, ArmedContexts, Absent, NoPair
<1>2. ContextsAreOwn => CancelsItsOwn
  BY DEF ContextsAreOwn, CancelsItsOwn
<1>3. PairInv /\ WaitingIsArmed /\ ContextsAreOwn /\ [Next]_vars
        => WaitingIsArmed' /\ ContextsAreOwn'
  BY <1>2, NextArmed, NextOwn
<1>4. WaitingIsArmed => WaitingEntriesStayArmed
  BY DEF WaitingIsArmed, WaitingEntriesStayArmed
<1> QED BY <1>1, <1>3, <1>4, PairInvHolds, PTL DEF Spec

-----------------------------------------------------------------------------
(* Lifecycle implements RequestOutcome *)

Inv == PairInv /\ OutcomeInv

\* What the caller is promised of one step.
ContractStep == Contract!Next \/ UNCHANGED <<WaitingPromises, outcome>>

\* How the set of promises a request waits for changes.
LEMMA WaitingFacts ==
  ASSUME TypeOK, NEW q \in Requests, NEW g \in Fields, promise[q][g] = "pending"
  PROVE  /\ WaitingPromises \in [Requests -> SUBSET Fields]
         /\ g \in WaitingPromises[q]
         /\ promise' = Settled(q, g) =>
              WaitingPromises' = [WaitingPromises EXCEPT ![q] = @ \ {g}]
         /\ promise' = [Settled(q, g) EXCEPT ![q] = [f \in Fields |-> "pending"]] =>
              WaitingPromises' = [WaitingPromises EXCEPT ![q] = Fields]
<1>1. WaitingPromises \in [Requests -> SUBSET Fields] /\ g \in WaitingPromises[q]
  BY DEF WaitingPromises
<1>2. ASSUME promise' = Settled(q, g)
      PROVE  WaitingPromises' = [WaitingPromises EXCEPT ![q] = @ \ {g}]
  <2>1. \A r \in Requests \ {q} : promise'[r] = promise[r]
    BY <1>2 DEF Settled, TypeOK
  <2>2. \A f \in Fields : promise'[q][f] = IF f = g THEN "settled" ELSE promise[q][f]
    BY <1>2 DEF Settled, TypeOK
  <2>3. {f \in Fields : promise'[q][f] = "pending"} = {f \in Fields : promise[q][f] = "pending"} \ {g}
    BY <2>2
  <2>4. \A r \in Requests : {f \in Fields : promise'[r][f] = "pending"} =
          IF r = q THEN WaitingPromises[q] \ {g} ELSE WaitingPromises[r]
    BY <2>1, <2>3 DEF WaitingPromises
  <2> QED BY <2>4 DEF WaitingPromises
<1>3. ASSUME promise' = [Settled(q, g) EXCEPT ![q] = [f \in Fields |-> "pending"]]
      PROVE  WaitingPromises' = [WaitingPromises EXCEPT ![q] = Fields]
  <2>1. \A r \in Requests \ {q} : promise'[r] = promise[r]
    BY <1>3 DEF Settled, TypeOK
  <2>2. \A f \in Fields : promise'[q][f] = "pending"
    BY <1>3 DEF Settled, TypeOK
  <2>3. \A r \in Requests : {f \in Fields : promise'[r][f] = "pending"} =
          IF r = q THEN Fields ELSE WaitingPromises[r]
    BY <2>1, <2>2 DEF WaitingPromises
  <2> QED BY <2>3 DEF WaitingPromises
<1> QED BY <1>1, <1>2, <1>3

\* The driver that runs and the ones below it drive what they drove.
SameDrivers ==
  /\ Len(stack') = Len(stack)
  /\ \A i \in 1..Len(stack) : stack'[i].req = stack[i].req

\* Changing the phase of the top driver leaves every driver its request.
LEMMA TopInKeepsDrivers ==
  ASSUME TypeOK, Depth > 0, NEW phase \in {"loop", "hook"}, NEW progress \in BOOLEAN,
         stack' = TopIn(phase, progress)
  PROVE  SameDrivers
<1>1. stack \in Seq(Drivers) /\ Len(stack) \in Nat /\ Len(stack) > 0
  BY DEF TypeOK, Depth
<1>2. /\ Len(stack') = Len(stack)
      /\ \A i \in 1..Len(stack) :
           stack'[i] = IF i = Len(stack)
                       THEN [req |-> Top.req, phase |-> phase, progress |-> progress]
                       ELSE stack[i]
  <2>1. [req |-> Top.req, phase |-> phase, progress |-> progress] \in Drivers
    BY StackFacts DEF Drivers
  <2> QED BY <1>1, <2>1 DEF TopIn, Depth
<1> QED BY <1>1, <1>2 DEF SameDrivers, Top, Depth

\* A hook that dispatches changes only what the top driver will hear.
LEMMA ProgressedKeepsDrivers ==
  ASSUME TypeOK, stack' = Progressed
  PROVE  SameDrivers
<1>1. CASE InHook
  BY <1>1, TopInKeepsDrivers DEF Progressed, InHook
<1>2. CASE ~InHook
  BY <1>2 DEF Progressed, SameDrivers
<1> QED BY <1>1, <1>2

\* Each driver on the stack drives a request.
LEMMA DriversFacts ==
  ASSUME TypeOK
  PROVE  /\ Len(stack) \in Nat
         /\ \A i \in 1..Len(stack) : stack[i] \in Drivers /\ stack[i].req \in Requests
<1>1. stack \in Seq(Drivers) /\ Len(stack) \in Nat
  BY DEF TypeOK
<1>2. \A i \in 1..Len(stack) : stack[i] \in Drivers
  BY <1>1
<1>3. \A d \in Drivers : d.req \in Requests
  BY DEF Drivers
<1> QED BY <1>1, <1>2, <1>3

\* Drivers are undisturbed when no request that is driven changes its outcome.
LEMMA SameDriversDriveOnce ==
  ASSUME TypeOK, DriversDriveOnce, SameDrivers, mode' = mode,
         \A r \in Requests : mode[r] \in Driven /\ outcome[r] = "pending" => outcome'[r] = "pending"
  PROVE  DriversDriveOnce'
BY DriversFacts DEF DriversDriveOnce, SameDrivers

\* Processing a frame settles a promise of the contract, and answers or calls more
\* resolvers only when it was the request's last.
LEMMA ProcessFrameImplements ==
  ASSUME Inv, NEW q \in Requests, NEW g \in Fields, NEW fired, NEW fr,
         Fires(q, g, fired, fr), ProcessFrame(q, fr, fired, Settled(q, g)), SameDrivers
  PROVE  OutcomeInv' /\ ContractStep
<1>1. /\ frame[q] \in Frames /\ frame[q].entry \in [Fields -> {"none", "waiting", "ready"}]
      /\ frame[q].wave \in Nat /\ promise[q][g] = "pending" /\ TypeOK
      /\ Waves[q] \in Nat
  BY FrameFacts, BoundAssumption DEF Inv, PairInv, Fires
<1>2. /\ frame'[q] = FrameAfter(q, fr, heap)
      /\ \A r \in Requests \ {q} :
           /\ frame'[r] = frame[r] /\ promise'[r] = promise[r]
           /\ completed'[r] = completed[r] /\ outcome'[r] = outcome[r]
      /\ completed'[q] = (completed[q] \/ Resolves(q, fr))
      /\ outcome'[q] = IF Resolves(q, fr) /\ mode[q] = "async" THEN "answered" ELSE outcome[q]
      /\ mode' = mode
  BY <1>1 DEF ProcessFrame, Settled, TypeOK
<1>3. outcome[q] # "none" /\ outcome[q] \in {"none", "pending", "answered", "refused"}
  BY <1>1, FiringFacts DEF Inv, TypeOK
<1>4. CASE frame[q].entry[g] # "waiting"
  <2>1. outcome[q] # "pending" /\ frame[q].entry = Absent
    BY <1>1, <1>4 DEF Inv, OutcomeInv, PendingPromiseIsAwaited, FrameMeansPending
  <2>2. fr = frame[q]
    <3>1. g \notin Promised \/ fr = frame[q]
      <4> SUFFICES ASSUME g \in Promised PROVE FALSE
        OBVIOUS
      <4>1. fired = sub[q][g] /\ heap.to[fired] = [req |-> q, field |-> g]
        BY FieldAssumption DEF Fires
      <4>2. <<q, g>> \in PendingPromises /\ PairOf(<<q, g>>) = fired
        BY <1>1, <4>1 DEF PendingPromises, PairOf
      <4>3. fired \in 1..heap.made
        BY <4>2 DEF Inv, PairInv, PairsHeld
      <4>4. heap.to[fired] # Idle
        BY <4>1, PairTypes DEF Idle
      <4> QED BY <4>1, <4>3, <4>4, <1>4 DEF Inv, PairInv, PointsBack, PointsAtItsEntry
    <3> QED BY <3>1, <1>4 DEF Fires
  <2>3. Resolves(q, fr) /\ ~StartsWave(q, fr) /\ frame'[q] = Emptied(fr)
    BY <2>1, <2>2, <1>2 DEF Resolves, StartsWave, FrameAfter
  <2>4. outcome' = outcome
    <3>1. mode[q] = "async" => outcome[q] = "answered"
      BY <1>3, <2>1 DEF Inv, OutcomeInv, HeldIsNotRefused
    <3>2. outcome \in [Requests -> {"none", "pending", "answered", "refused"}]
      BY <1>1 DEF TypeOK
    <3>3. CASE mode[q] = "async"
      <4>1. outcome' = [outcome EXCEPT ![q] = "answered"]
        BY <2>3, <3>3 DEF ProcessFrame
      <4> QED BY <4>1, <3>1, <3>2, <3>3
    <3>4. CASE mode[q] # "async"
      BY <3>4 DEF ProcessFrame
    <3> QED BY <3>3, <3>4
  <2>5. promise' = Settled(q, g)
    BY <2>3 DEF ProcessFrame
  <2>6. OutcomeInv'
    <3>1. FrameMeansPending' /\ CompletedIsEmpty'
      BY <1>2, <2>3, <2>4 DEF Inv, OutcomeInv, FrameMeansPending, CompletedIsEmpty, Emptied
    <3>2. PendingPromiseIsAwaited'
      BY <1>2, <2>1, <2>4 DEF Inv, OutcomeInv, PendingPromiseIsAwaited
    <3>3. HeldIsNotRefused'
      BY <1>2, <2>4 DEF Inv, OutcomeInv, HeldIsNotRefused
    <3>4. DriversDriveOnce'
      BY <1>1, <1>2, <2>4, SameDriversDriveOnce DEF Inv, OutcomeInv
    <3> QED BY <3>1, <3>2, <3>3, <3>4 DEF OutcomeInv
  <2>7. Contract!Settle(q, g)
    BY <1>1, <2>4, <2>5, WaitingFacts DEF Contract!Settle
  <2> QED BY <2>6, <2>7 DEF ContractStep, Contract!Next
<1>5. CASE frame[q].entry[g] = "waiting"
  <2>1. /\ fr = EntryReady(frame[q], g) /\ fr.wave = frame[q].wave
        /\ fr.entry = [frame[q].entry EXCEPT ![g] = "ready"] /\ fr.entry # Absent
    BY <1>1, <1>5 DEF Fires, EntryReady, Absent
  <2>2. outcome[q] = "pending" /\ ~completed[q]
    BY <1>5 DEF Inv, OutcomeInv, FrameMeansPending, CompletedIsEmpty, Absent
  <2>3. \A f \in Fields : promise[q][f] = "pending" => frame[q].entry[f] = "waiting"
    BY <2>2 DEF Inv, OutcomeInv, PendingPromiseIsAwaited
  <2>4. CASE Waiting(fr.entry) # {}
    <3>1. ~StartsWave(q, fr) /\ ~Resolves(q, fr) /\ frame'[q] = ReadyConsumed(fr)
      BY <2>1, <2>4, <1>2 DEF StartsWave, Resolves, FrameAfter
    <3>2. outcome' = outcome /\ promise' = Settled(q, g) /\ ~completed'[q]
      BY <1>2, <2>2, <3>1 DEF ProcessFrame
    <3>3. \A f \in Fields : promise'[q][f] = "pending" =>
                               promise[q][f] = "pending" /\ f # g
      BY <3>2, <1>1 DEF Settled, TypeOK
    <3>4. OutcomeInv'
      <4>1. FrameMeansPending'
        BY <1>2, <2>2, <3>2 DEF Inv, OutcomeInv, FrameMeansPending
      <4>2. CompletedIsEmpty'
        BY <1>2, <2>2, <3>2 DEF Inv, OutcomeInv, CompletedIsEmpty
      <4>3. \A f \in Fields : promise'[q][f] = "pending" => frame'[q].entry[f] = "waiting"
        BY <1>1, <2>1, <2>3, <3>1, <3>3 DEF ReadyConsumed
      <4>4. PendingPromiseIsAwaited'
        BY <1>2, <3>2, <4>3 DEF Inv, OutcomeInv, PendingPromiseIsAwaited
      <4>5. HeldIsNotRefused'
        BY <1>2, <3>2 DEF Inv, OutcomeInv, HeldIsNotRefused
      <4>6. DriversDriveOnce'
        BY <1>1, <1>2, <3>2, SameDriversDriveOnce DEF Inv, OutcomeInv
      <4> QED BY <4>1, <4>2, <4>4, <4>5, <4>6 DEF OutcomeInv
    <3>5. Contract!Settle(q, g)
      BY <1>1, <3>2, WaitingFacts DEF Contract!Settle
    <3> QED BY <3>4, <3>5 DEF ContractStep, Contract!Next
  <2>5. CASE Waiting(fr.entry) = {}
    <3>1. \A f \in Fields \ {g} : promise[q][f] # "pending"
      BY <1>1, <2>1, <2>3, <2>5 DEF Waiting
    <3>2. WaitingPromises[q] = {g}
      BY <3>1, <1>1 DEF WaitingPromises
    <3>3. CASE StartsWave(q, fr)
      <4>1. /\ ~Resolves(q, fr) /\ frame'[q] = NextWave(fr, heap)
            /\ promise' = [Settled(q, g) EXCEPT ![q] = [f \in Fields |-> "pending"]]
        BY <1>1, <1>2, <2>1, <3>3 DEF StartsWave, Resolves, FrameAfter, ProcessFrame
      <4>2. outcome' = outcome /\ ~completed'[q]
        BY <1>2, <2>2, <4>1 DEF ProcessFrame
      <4>3. OutcomeInv'
        <5>1. FrameMeansPending' /\ CompletedIsEmpty'
          BY <1>2, <2>2, <4>2 DEF Inv, OutcomeInv, FrameMeansPending, CompletedIsEmpty
        <5>2. PendingPromiseIsAwaited'
          BY <1>2, <4>1, <4>2 DEF Inv, OutcomeInv, PendingPromiseIsAwaited, NextWave
        <5>3. HeldIsNotRefused'
          BY <1>2, <4>2 DEF Inv, OutcomeInv, HeldIsNotRefused
        <5>4. DriversDriveOnce'
          BY <1>1, <1>2, <4>2, SameDriversDriveOnce DEF Inv, OutcomeInv
        <5> QED BY <5>1, <5>2, <5>3, <5>4 DEF OutcomeInv
      <4>4. Contract!SettleAndResolveMore(q, g)
        BY <1>1, <2>2, <3>2, <4>1, <4>2, WaitingFacts DEF Contract!SettleAndResolveMore
      <4> QED BY <4>3, <4>4 DEF ContractStep, Contract!Next
    <3>4. CASE ~StartsWave(q, fr)
      <4>1. Resolves(q, fr) /\ frame'[q] = Emptied(fr) /\ promise' = Settled(q, g)
        BY <1>1, <1>2, <2>1, <2>5, <3>4 DEF StartsWave, Resolves, FrameAfter, ProcessFrame
      <4>2. \A f \in Fields : promise'[q][f] # "pending"
        BY <1>1, <3>1, <4>1 DEF Settled, TypeOK
      <4>3. OutcomeInv'
        <5>1. FrameMeansPending' /\ CompletedIsEmpty'
          BY <1>2, <4>1 DEF Inv, OutcomeInv, FrameMeansPending, CompletedIsEmpty, Emptied
        <5>2. PendingPromiseIsAwaited'
          BY <1>2, <4>2 DEF Inv, OutcomeInv, PendingPromiseIsAwaited
        <5>3. HeldIsNotRefused'
          BY <1>2, <2>2 DEF Inv, OutcomeInv, HeldIsNotRefused
        <5>4. \A r \in Requests : mode[r] \in Driven /\ outcome[r] = "pending" => outcome'[r] = "pending"
          BY <1>2 DEF Driven
        <5>5. DriversDriveOnce'
          BY <1>1, <1>2, <5>4, SameDriversDriveOnce DEF Inv, OutcomeInv
        <5> QED BY <5>1, <5>2, <5>3, <5>5 DEF OutcomeInv
      <4>4. WaitingPromises' = [WaitingPromises EXCEPT ![q] = {}]
        BY <1>1, <3>2, <4>1, WaitingFacts
      <4>5. CASE mode[q] = "async"
        <5>1. outcome' = [outcome EXCEPT ![q] = "answered"]
          BY <4>1, <4>5 DEF ProcessFrame
        <5>2. Contract!SettleAndAnswer(q, g)
          BY <2>2, <3>2, <4>4, <5>1 DEF Contract!SettleAndAnswer
        <5> QED BY <4>3, <5>2 DEF ContractStep, Contract!Next
      <4>6. CASE mode[q] # "async"
        <5>1. outcome' = outcome
          BY <4>6 DEF ProcessFrame
        <5>2. Contract!Settle(q, g)
          BY <1>1, <4>1, <5>1, WaitingFacts DEF Contract!Settle
        <5> QED BY <4>3, <5>2 DEF ContractStep, Contract!Next
      <4> QED BY <4>5, <4>6
    <3> QED BY <3>3, <3>4
  <2> QED BY <2>4, <2>5
<1> QED BY <1>4, <1>5

\* A promise that settles nothing, or settles one entry of several, is one the
\* contract lets settle.
LEMMA SettleAloneImplements ==
  ASSUME Inv, NEW q \in Requests, NEW g \in Fields, NEW fr, promise[q][g] = "pending",
         promise' = Settled(q, g), frame' = [frame EXCEPT ![q] = fr],
         \/ fr = frame[q] /\ frame[q].entry[g] # "waiting"
         \/ fr = EntryReady(frame[q], g) /\ frame[q].entry[g] = "waiting",
         UNCHANGED <<mode, completed, outcome>>, SameDrivers
  PROVE  OutcomeInv' /\ ContractStep
<1>1. TypeOK /\ frame[q].entry \in [Fields -> {"none", "waiting", "ready"}]
  BY FrameFacts DEF Inv, PairInv
<1>2. /\ frame'[q] = fr
      /\ \A r \in Requests \ {q} : frame'[r] = frame[r] /\ promise'[r] = promise[r]
      /\ \A f \in Fields : promise'[q][f] = "pending" => promise[q][f] = "pending" /\ f # g
  BY <1>1 DEF TypeOK, Settled
<1>3. /\ \A f \in Fields \ {g} : fr.entry[f] = frame[q].entry[f]
      /\ fr.entry # Absent => frame[q].entry # Absent
      /\ frame[q].entry = Absent => fr.entry = Absent
  BY <1>1 DEF EntryReady, Absent
<1>4. FrameMeansPending' /\ CompletedIsEmpty'
  BY <1>2, <1>3 DEF Inv, OutcomeInv, FrameMeansPending, CompletedIsEmpty
<1>5. PendingPromiseIsAwaited'
  BY <1>2, <1>3 DEF Inv, OutcomeInv, PendingPromiseIsAwaited
<1>6. HeldIsNotRefused' /\ DriversDriveOnce'
  BY <1>1, SameDriversDriveOnce DEF Inv, OutcomeInv, HeldIsNotRefused
<1>7. Contract!Settle(q, g)
  BY <1>1, WaitingFacts DEF Contract!Settle
<1> QED BY <1>4, <1>5, <1>6, <1>7 DEF OutcomeInv, ContractStep, Contract!Next

\* A promise that settles through its pair is one the contract lets settle.
LEMMA SettlePromiseImplements ==
  ASSUME Inv, NEW r \in Requests, NEW f \in Promised, SettlePromise(r, f)
  PROVE  OutcomeInv' /\ ContractStep
<1> DEFINE c == sub[r][f]
           t == heap.to[c]
           reaches == t # Idle /\ frame[t.req].entry[t.field] # "none"
           fr == EntryReady(frame[t.req], t.field)
<1>1. promise[r][f] = "pending" /\ SameDrivers /\ f \in Fields
  BY ProgressedKeepsDrivers, PairTypes DEF SettlePromise, Inv, PairInv
<1>2. <<r, f>> \in PendingPromises /\ PairOf(<<r, f>>) = c
  BY <1>1 DEF PendingPromises, PairOf
<1>3. c \in 1..heap.made /\ t \in {Idle, [req |-> r, field |-> f]}
  BY <1>2 DEF Inv, PairInv, PairsHeld
<1>4. t # Idle => t.req = r /\ t.field = f /\ frame[r].entry[f] = "waiting"
  <2> HAVE t # Idle
  <2>1. t.req = r /\ t.field = f
    BY <1>3
  <2> QED BY <2>1, <1>3 DEF Inv, PairInv, PointsBack, PointsAtItsEntry
<1>5. CASE /\ promise' = Settled(r, f)
           /\ UNCHANGED <<mode, frame, sub, heap, completed, cancelled, outcome>>
           /\ ~reaches
  <2>1. TypeOK /\ frame[r].entry \in [Fields -> {"none", "waiting", "ready"}]
    BY FrameFacts DEF Inv, PairInv
  <2>2. t = Idle
    BY <1>4, <1>5
  <2>3. CASE outcome[r] = "pending" /\ frame[r].entry[f] = "waiting"
    <3>1. PendingPromiseIsAwaited'
      <4>1. \A q \in Requests, g \in Fields :
              promise'[q][g] = "pending" => promise[q][g] = "pending"
        BY <1>5, <2>1 DEF Settled, TypeOK
      <4>2. frame' = frame /\ outcome' = outcome
        BY <1>5
      <4> QED BY <4>1, <4>2 DEF Inv, OutcomeInv, PendingPromiseIsAwaited
    <3>2. FrameMeansPending' /\ CompletedIsEmpty' /\ HeldIsNotRefused'
      BY <1>5 DEF Inv, OutcomeInv, FrameMeansPending, CompletedIsEmpty, HeldIsNotRefused
    <3>3. DriversDriveOnce'
      BY <1>1, <1>5, <2>1, SameDriversDriveOnce DEF Inv, OutcomeInv
    <3>4. Contract!Settle(r, f)
      BY <1>1, <1>5, <2>1, WaitingFacts DEF Contract!Settle
    <3> QED BY <1>1, <3>1, <3>2, <3>3, <3>4 DEF OutcomeInv, ContractStep, Contract!Next
  <2>4. CASE frame[r].entry[f] # "waiting"
    <3>1. frame' = [frame EXCEPT ![r] = frame[r]]
      BY <1>5, <2>1 DEF TypeOK
    <3> QED BY <3>1, <2>4, <1>1, <1>5, SettleAloneImplements
  <2>5. CASE frame[r].entry[f] = "waiting" /\ outcome[r] # "pending"
    BY <2>5, <1>1 DEF Inv, OutcomeInv, FrameMeansPending, Absent
  <2> QED BY <2>3, <2>4, <2>5
<1>6. CASE /\ reaches /\ frame' = [frame EXCEPT ![t.req] = fr]
           /\ promise' = Settled(r, f)
           /\ UNCHANGED <<mode, completed, outcome>>
  <2>1. /\ fr = EntryReady(frame[r], f) /\ frame[r].entry[f] = "waiting"
        /\ frame' = [frame EXCEPT ![r] = fr]
    BY <1>4, <1>6
  <2> HIDE DEF fr, c, t
  <2> QED BY <2>1, <1>1, <1>6, SettleAloneImplements
<1>7. CASE reaches /\ ProcessFrame(t.req, fr, c, Settled(r, f))
  <2>1. fr = EntryReady(frame[r], f) /\ ProcessFrame(r, fr, c, Settled(r, f))
    BY <1>4, <1>7
  <2>2. Fires(r, f, c, fr)
    BY <1>1, <1>3, <1>7, <2>1 DEF Fires
  <2> HIDE DEF fr, c, t
  <2> QED BY <2>1, <2>2, <1>1, ProcessFrameImplements
<1> QED BY <1>5, <1>6, <1>7 DEF SettlePromise

\* A list's last item is one the contract lets settle, even after a cancellation.
LEMMA SettleItemImplements ==
  ASSUME Inv, NEW r \in Requests, NEW l \in Lists, SettleItem(r, l)
  PROVE  OutcomeInv' /\ ContractStep
<1> DEFINE fr == IF frame[r].entry[l] = "waiting" THEN EntryReady(frame[r], l) ELSE frame[r]
<1>1. SameDrivers /\ l \in Fields
  BY ProgressedKeepsDrivers DEF SettleItem, Inv, PairInv, Fields
<1>2. Fires(r, l, 0, fr) /\ ProcessFrame(r, fr, 0, Settled(r, l))
  BY DEF SettleItem, Fires
<1> HIDE DEF fr
<1> QED BY <1>1, <1>2, ProcessFrameImplements

\* Starting a request begins it: its resolvers returned the first wave.
LEMMA BeginImplements ==
  ASSUME Inv, NEW r \in Requests, outcome[r] = "none", NEW o \in {"pending", "refused"},
         promise' = [promise EXCEPT ![r] = [f \in Fields |-> "pending"]],
         outcome' = [outcome EXCEPT ![r] = o]
  PROVE  ContractStep
<1>1. WaitingPromises' = [WaitingPromises EXCEPT ![r] = Fields]
  <2>1. \A q \in Requests : {f \in Fields : promise'[q][f] = "pending"} =
          IF q = r THEN Fields ELSE WaitingPromises[q]
    BY DEF WaitingPromises, Inv, PairInv, TypeOK
  <2> QED BY <2>1 DEF WaitingPromises
<1>2. Contract!Begin(r)
  BY <1>1 DEF Contract!Begin
<1> QED BY <1>2 DEF ContractStep, Contract!Next

\* A request that starts begins, and no other driver drives it.
LEMMA StartImplements ==
  ASSUME Inv, NEW r \in Requests, Start(r)
  PROVE  OutcomeInv' /\ ContractStep
<1>1. /\ TypeOK /\ outcome[r] = "none"
      /\ promise' = [promise EXCEPT ![r] = [f \in Fields |-> "pending"]]
      /\ frame' = [frame EXCEPT ![r] = NextWave(@, heap)]
      /\ outcome' = [outcome EXCEPT ![r] = "pending"]
      /\ mode' = mode /\ completed' = completed /\ ~completed[r]
  BY NotStartedFacts DEF Start, ArmsFirstWave, Inv, PairInv
<1>2. /\ frame'[r] = NextWave(frame[r], heap) /\ outcome'[r] = "pending"
      /\ \A q \in Requests \ {r} :
           frame'[q] = frame[q] /\ promise'[q] = promise[q] /\ outcome'[q] = outcome[q]
  BY <1>1 DEF TypeOK
<1>3. FrameMeansPending' /\ CompletedIsEmpty'
  BY <1>1, <1>2 DEF Inv, OutcomeInv, FrameMeansPending, CompletedIsEmpty
<1>4. PendingPromiseIsAwaited'
  <2>1. \A f \in Fields : frame'[r].entry[f] = "waiting"
    BY <1>2 DEF NextWave
  <2> QED BY <1>2, <2>1 DEF Inv, OutcomeInv, PendingPromiseIsAwaited
<1>5. HeldIsNotRefused'
  BY <1>1, <1>2 DEF Inv, OutcomeInv, HeldIsNotRefused
<1>6. DriversDriveOnce'
  <2>1. \A i \in 1..Len(stack) : stack[i].req # r
    BY <1>1 DEF Inv, OutcomeInv, DriversDriveOnce
  <2>2. CASE mode[r] \notin Driven
    <3>1. stack' = stack
      BY <2>2 DEF Start
    <3> QED BY <1>1, <1>2, <2>1, <3>1, DriversFacts DEF Inv, OutcomeInv, DriversDriveOnce
  <2>3. CASE mode[r] \in Driven
    <3> DEFINE d == [req |-> r, phase |-> "loop", progress |-> FALSE]
    <3>1. stack' = Append(stack, d) /\ d \in Drivers /\ stack \in Seq(Drivers)
      BY <1>1, <2>3 DEF Start, Drivers, TypeOK
    <3> HIDE DEF d
    <3>2. /\ Len(stack') = Len(stack) + 1 /\ Len(stack) \in Nat
          /\ \A i \in 1..Len(stack) : stack'[i] = stack[i]
          /\ stack'[Len(stack) + 1] = d
      BY <3>1
    <3>3. d.req = r
      BY DEF d
    <3>4. ASSUME NEW i \in 1..Len(stack')
          PROVE  \/ i \in 1..Len(stack) /\ stack'[i] = stack[i]
                 \/ i = Len(stack) + 1 /\ stack'[i].req = r
      BY <3>2, <3>3
    <3>5. ASSUME NEW i \in 1..Len(stack')
          PROVE  mode'[stack'[i].req] \in Driven /\ outcome'[stack'[i].req] = "pending"
      BY <3>4, <1>1, <1>2, <2>1, <2>3, DriversFacts DEF Inv, OutcomeInv, DriversDriveOnce
    <3>6. ASSUME NEW i \in 1..Len(stack'), NEW j \in 1..Len(stack'),
                 stack'[i].req = stack'[j].req
          PROVE  i = j
      BY <3>4, <3>6, <2>1 DEF Inv, OutcomeInv, DriversDriveOnce
    <3> QED BY <3>5, <3>6 DEF DriversDriveOnce
  <2> QED BY <2>2, <2>3
<1> QED BY <1>1, <1>3, <1>4, <1>5, <1>6, BeginImplements DEF OutcomeInv

\* A request refused on the spot begins refused.
LEMMA StartRefusedImplements ==
  ASSUME Inv, NEW r \in Requests, StartRefused(r)
  PROVE  OutcomeInv' /\ ContractStep
<1>1. /\ TypeOK /\ outcome[r] = "none" /\ mode[r] # "async"
      /\ promise' = [promise EXCEPT ![r] = [f \in Fields |-> "pending"]]
      /\ frame' = [frame EXCEPT ![r] = Emptied(NextWave(@, heap))]
      /\ outcome' = [outcome EXCEPT ![r] = "refused"]
      /\ mode' = mode /\ completed' = completed /\ stack' = stack
  BY DEF StartRefused, ArmsFirstWave, Inv, PairInv
<1>2. /\ frame'[r].entry = Absent /\ outcome'[r] = "refused"
      /\ \A q \in Requests \ {r} :
           frame'[q] = frame[q] /\ promise'[q] = promise[q] /\ outcome'[q] = outcome[q]
  BY <1>1 DEF TypeOK, Emptied
<1>3. FrameMeansPending' /\ CompletedIsEmpty' /\ PendingPromiseIsAwaited'
  BY <1>1, <1>2 DEF Inv, OutcomeInv, FrameMeansPending, CompletedIsEmpty, PendingPromiseIsAwaited
<1>4. HeldIsNotRefused'
  BY <1>1, <1>2 DEF Inv, OutcomeInv, HeldIsNotRefused
<1>5. DriversDriveOnce'
  BY <1>1, <1>2, DriversFacts DEF Inv, OutcomeInv, DriversDriveOnce
<1> QED BY <1>1, <1>3, <1>4, <1>5, BeginImplements DEF OutcomeInv

\* The request on top of the stack is driven and pending; when its driver is
\* popped no other driver drives it.
LEMMA PopFacts ==
  ASSUME Inv, Depth > 0
  PROVE  /\ TypeOK /\ Top.req \in Requests
         /\ mode[Top.req] \in Driven /\ outcome[Top.req] = "pending"
         /\ \A o : mode' = mode /\ outcome' = [outcome EXCEPT ![Top.req] = o] /\ stack' = Popped
                   => DriversDriveOnce'
<1>1. /\ TypeOK /\ stack \in Seq(Drivers) /\ Len(stack) \in Nat /\ Len(stack) > 0
      /\ Top = stack[Len(stack)] /\ Top.req \in Requests
  BY StackFacts DEF Inv, PairInv, TypeOK, Depth, Top
<1>2. mode[Top.req] \in Driven /\ outcome[Top.req] = "pending"
  BY <1>1 DEF Inv, OutcomeInv, DriversDriveOnce
<1>3. ASSUME NEW o, mode' = mode, outcome' = [outcome EXCEPT ![Top.req] = o], stack' = Popped
      PROVE  DriversDriveOnce'
  <2>1. /\ Len(stack') = Len(stack) - 1
        /\ \A i \in 1..Len(stack') : i \in 1..Len(stack) /\ i # Len(stack) /\ stack'[i] = stack[i]
    <3>1. PICK n : n = Len(stack) - 1
      OBVIOUS
    <3>2. stack' = SubSeq(stack, 1, n) /\ n \in Nat /\ n < Len(stack)
      BY <1>1, <1>3, <3>1 DEF Popped, Depth
    <3>3. Len(stack') = n /\ \A i \in 1..n : stack'[i] = stack[i]
      BY <1>1, <3>2
    <3>4. \A i \in 1..n : i \in 1..Len(stack) /\ i # Len(stack)
      BY <1>1, <3>2
    <3> QED BY <3>1, <3>3, <3>4
  <2>2. \A i \in 1..Len(stack') : stack'[i].req # Top.req
    BY <1>1, <2>1 DEF Inv, OutcomeInv, DriversDriveOnce
  <2>3. \A r \in Requests : r # Top.req => outcome'[r] = outcome[r]
    BY <1>1, <1>3 DEF TypeOK
  <2>4. \A i \in 1..Len(stack') : /\ mode'[stack'[i].req] \in Driven
                                  /\ outcome'[stack'[i].req] = "pending"
    <3> SUFFICES ASSUME NEW i \in 1..Len(stack')
                 PROVE  mode'[stack'[i].req] \in Driven /\ outcome'[stack'[i].req] = "pending"
      OBVIOUS
    <3>1. i \in 1..Len(stack) /\ stack'[i] = stack[i] /\ stack[i].req # Top.req
      BY <2>1, <2>2
    <3>2. /\ mode[stack[i].req] \in Driven /\ outcome[stack[i].req] = "pending"
          /\ stack[i].req \in Requests
      BY <1>1, <3>1, DriversFacts DEF Inv, OutcomeInv, DriversDriveOnce
    <3> QED BY <1>3, <2>3, <3>1, <3>2
  <2>5. \A i, j \in 1..Len(stack') : stack'[i].req = stack'[j].req => i = j
    BY <2>1 DEF Inv, OutcomeInv, DriversDriveOnce
  <2> QED BY <2>4, <2>5 DEF DriversDriveOnce
<1> QED BY <1>1, <1>2, <1>3

\* A driver gives up: it cancels the request it drives and refuses it.
LEMMA RefuseImplements ==
  ASSUME Inv, Depth > 0, Cancel(Top.req), stack' = Popped,
         outcome' = [outcome EXCEPT ![Top.req] = "refused"]
  PROVE  OutcomeInv' /\ ContractStep
<1>1. /\ TypeOK /\ Top.req \in Requests /\ mode[Top.req] \in Driven
      /\ outcome[Top.req] = "pending" /\ DriversDriveOnce'
      /\ mode' = mode /\ promise' = promise /\ completed' = completed
  BY PopFacts DEF Cancel
<1> DEFINE r == Top.req
<1>2. /\ frame'[r].entry = Absent /\ outcome'[r] = "refused"
      /\ \A q \in Requests \ {r} : frame'[q] = frame[q] /\ outcome'[q] = outcome[q]
  BY <1>1 DEF Cancel, Emptied, TypeOK
<1> HIDE DEF r
<1>3. FrameMeansPending' /\ CompletedIsEmpty' /\ PendingPromiseIsAwaited'
  BY <1>1, <1>2 DEF Inv, OutcomeInv, FrameMeansPending, CompletedIsEmpty, PendingPromiseIsAwaited
<1>4. HeldIsNotRefused'
  BY <1>1, <1>2 DEF Inv, OutcomeInv, HeldIsNotRefused, Driven, r
<1>5. Contract!Refuse(Top.req)
  BY <1>1 DEF Contract!Refuse, WaitingPromises
<1> QED BY <1>1, <1>3, <1>4, <1>5 DEF OutcomeInv, ContractStep, Contract!Next

\* A driver returns the response of a request whose promises have all settled.
LEMMA AnswerImplements ==
  ASSUME Inv, DriverReturns
  PROVE  OutcomeInv' /\ ContractStep
<1>1. /\ TypeOK /\ Top.req \in Requests /\ mode[Top.req] \in Driven /\ completed[Top.req]
      /\ outcome[Top.req] = "pending" /\ DriversDriveOnce'
      /\ mode' = mode /\ promise' = promise /\ completed' = completed /\ frame' = frame
      /\ outcome' = [outcome EXCEPT ![Top.req] = "answered"]
  BY PopFacts DEF DriverReturns, InLoop, NotCancelled
<1>2. frame[Top.req].entry = Absent
  BY <1>1 DEF Inv, OutcomeInv, CompletedIsEmpty
<1>3. \A f \in Fields : promise[Top.req][f] # "pending"
  BY <1>1, <1>2 DEF Inv, OutcomeInv, PendingPromiseIsAwaited, Absent
<1>4. WaitingPromises[Top.req] = {} /\ WaitingPromises' = WaitingPromises
  BY <1>1, <1>3 DEF WaitingPromises
<1>5. FrameMeansPending' /\ CompletedIsEmpty' /\ PendingPromiseIsAwaited' /\ HeldIsNotRefused'
  BY <1>1, <1>2, <1>3 DEF Inv, OutcomeInv, FrameMeansPending, CompletedIsEmpty,
     PendingPromiseIsAwaited, HeldIsNotRefused, TypeOK
<1>6. Contract!Answer(Top.req)
  BY <1>1, <1>4 DEF Contract!Answer
<1> QED BY <1>1, <1>5, <1>6 DEF OutcomeInv, ContractStep, Contract!Next

\* A driver calls its hook or hears from it: the caller notices nothing.
LEMMA HookStepImplements ==
  ASSUME Inv, CallHook \/ HookReturns
  PROVE  OutcomeInv' /\ ContractStep
<1>1. TypeOK /\ Depth > 0
  BY DEF Inv, PairInv, CallHook, HookReturns, InLoop, InHook
<1>2. Top.progress \in BOOLEAN
  BY <1>1, StackFacts DEF Drivers
<1>3. SameDrivers
  BY <1>1, <1>2, TopInKeepsDrivers DEF CallHook, HookReturns
<1>4. /\ mode' = mode /\ frame' = frame /\ promise' = promise /\ completed' = completed
      /\ outcome' = outcome
  BY DEF CallHook, HookReturns, NotCancelled
<1>5. DriversDriveOnce'
  BY <1>1, <1>3, <1>4, SameDriversDriveOnce DEF Inv, OutcomeInv
<1> QED BY <1>4, <1>5 DEF Inv, OutcomeInv, FrameMeansPending, CompletedIsEmpty,
     PendingPromiseIsAwaited, HeldIsNotRefused, ContractStep, WaitingPromises

\* Before any request starts nothing is awaited and nothing told.
LEMMA InitOutcome == Init => OutcomeInv /\ Contract!Init
<1> SUFFICES ASSUME Init PROVE OutcomeInv /\ Contract!Init
  OBVIOUS
<1>1. OutcomeInv
  BY DEF Init, OutcomeInv, FrameMeansPending, CompletedIsEmpty, PendingPromiseIsAwaited,
     HeldIsNotRefused, DriversDriveOnce, Absent
<1>2. Contract!Init
  <2>1. \A r \in Requests : {f \in Fields : promise[r][f] = "pending"} = {}
    BY DEF Init
  <2> QED BY <2>1 DEF Init, Contract!Init, WaitingPromises
<1> QED BY <1>1, <1>2

\* Every step keeps the invariants and is a step of the contract or none.
LEMMA NextImplements ==
  ASSUME DyingHooks \subseteq {"c"}
  PROVE  Inv /\ [Next]_vars => Inv' /\ ContractStep
<1> SUFFICES ASSUME Inv, [Next]_vars PROVE OutcomeInv' /\ ContractStep
  BY NextPairs DEF Inv
<1>1. CASE UNCHANGED vars
  BY <1>1 DEF vars, Inv, OutcomeInv, FrameMeansPending, CompletedIsEmpty,
     PendingPromiseIsAwaited, HeldIsNotRefused, DriversDriveOnce, ContractStep, WaitingPromises
<1>2. CASE DriverStep
  <2>1. CASE HookStalls
    BY <2>1, RefuseImplements DEF HookStalls, InHook
  <2>2. CASE HookDies
    <3>1. Depth > 0 /\ mode[Top.req] = "c"
      BY <2>2 DEF HookDies, InHook
    <3> QED BY <2>2, <3>1, RefuseImplements DEF HookDies
  <2> QED BY <1>2, <2>1, <2>2, AnswerImplements, HookStepImplements DEF DriverStep
<1>3. CASE UserStep
  BY <1>3, StartImplements, StartRefusedImplements, SettlePromiseImplements,
     SettleItemImplements DEF UserStep
<1> QED BY <1>1, <1>2, <1>3 DEF Next

\* A request ends once, answered only when its promises have settled, and no
\* resolver is called after that, provided the hook of a JSON result does not die:
\* the Perl driver does not cancel the request when it does (_settle_result).
THEOREM LifecycleImplementsOutcome ==
  ASSUME DyingHooks \subseteq {"c"}
  PROVE  Spec => ImplementsOutcome
<1>1. Init => Inv /\ Contract!Init
  BY InitPairs, InitOutcome DEF Inv
<1>2. Inv /\ [Next]_vars => Inv' /\ [Contract!Next]_<<WaitingPromises, outcome>>
  BY NextImplements DEF ContractStep
<1>3. ImplementsOutcome <=> Contract!Init /\ [][Contract!Next]_<<WaitingPromises, outcome>>
  BY DEF ImplementsOutcome, Contract!Spec, Contract!vars
<1> QED BY <1>1, <1>2, <1>3, PTL DEF Spec

=============================================================================
