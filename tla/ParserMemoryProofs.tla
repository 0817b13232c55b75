------------------------- MODULE ParserMemoryProofs -------------------------
(***************************************************************************)
(* Proofs about ParserMemory, for every sequence of calls and every table  *)
(* of lines and of rewrites: blocks stay apart, arrays keep what is pushed *)
(* and a line is found as if nothing had been looked up before.            *)
(***************************************************************************)
EXTENDS ParserMemory, FiniteSetTheorems, SequenceTheorems, WellFoundedInduction, TLAPS

\* Induction over the natural numbers, for a set.
LEMMA Numbers ==
  ASSUME NEW S \in SUBSET Nat, 0 \in S, \A n \in S : n + 1 \in S
  PROVE  S = Nat
<1> DEFINE R == OpToRel(<, Nat)
<1>1. SUFFICES ASSUME Nat \ S # {} PROVE FALSE
  OBVIOUS
<1>2. PICK T : T = Nat \ S
  OBVIOUS
<1>3. IsWellFoundedOn(R, Nat)
  BY NatLessThanWellFounded
<1>4. PICK n \in T : \A k \in T : <<k, n>> \notin R
  <2> HIDE DEF R
  <2>1. T \subseteq Nat /\ T # {}
    BY <1>1, <1>2
  <2> QED BY <1>3, <2>1, WFMin
<1>5. \A k, m \in Nat : k < m => <<k, m>> \in R
  BY DEF OpToRel
<1>6. n \in Nat /\ n # 0 /\ n - 1 \in Nat /\ n - 1 < n /\ n \notin S
  BY <1>2
<1>7. n - 1 \in S
  BY <1>2, <1>4, <1>5, <1>6
<1> QED BY <1>6, <1>7

\* What a loop computes: it ends with a value, or goes on with what is next.
Computes(f, S, Done, Value, Next) ==
  /\ f = [w \in S |-> f[w]]
  /\ \A w \in S : f[w] = IF w \in Done THEN Value[w] ELSE f[Next[w]]

\* Every loop computes something.
LEMMA LoopsHaveValues ==
  ASSUME NEW S, NEW Done, NEW Value, NEW Next \in [S -> S]
  PROVE  \E f : Computes(f, S, Done, Value, Next)
<1> DEFINE Closed(R) ==
      /\ \A w \in S \cap Done : <<w, w>> \in R
      /\ \A w \in S \ Done, v \in S : <<Next[w], v>> \in R => <<w, v>> \in R
    Reach == {e \in S \X S : \A R \in SUBSET (S \X S) : Closed(R) => e \in R}
    Ends(w) == {v \in S : <<w, v>> \in Reach}
<1>1. Closed(Reach)
  <2>1. \A w \in S \cap Done : <<w, w>> \in Reach
    OBVIOUS
  <2>2. ASSUME NEW w \in S \ Done, NEW v \in S, <<Next[w], v>> \in Reach
        PROVE  <<w, v>> \in Reach
    <3>1. \A R \in SUBSET (S \X S) : Closed(R) => <<Next[w], v>> \in R
      BY <2>2
    <3> QED BY <3>1
  <2> QED BY <2>1, <2>2
<1>2. \A w \in S \cap Done : Ends(w) = {w}
  <2>0. \A w \in S \cap Done : w \in Ends(w)
    BY <1>1
  <2>1. SUFFICES ASSUME NEW w \in S \cap Done, NEW v \in Ends(w), v # w
                 PROVE  FALSE
    <3> HIDE DEF Ends
    <3> QED BY <2>0
  <2>2. PICK R \in SUBSET (S \X S) : R = Reach \ {<<w, v>>}
    OBVIOUS
  <2>3. \A u \in S \cap Done : <<u, u>> \in R
    BY <1>1, <2>1, <2>2
  <2>4. \A u \in S \ Done, x \in S : <<Next[u], x>> \in R => <<u, x>> \in R
    <3>1. SUFFICES ASSUME NEW u \in S \ Done, NEW x \in S, <<Next[u], x>> \in Reach
                   PROVE  <<u, x>> \in R
      BY <2>2
    <3>2. <<u, x>> \in Reach /\ u # w
      BY <1>1, <2>1, <3>1
    <3> QED BY <2>2, <3>2
  <2>5. Closed(R)
    BY <2>3, <2>4
  <2>6. <<w, v>> \in R
    BY <2>1, <2>5
  <2> QED BY <2>2, <2>6
<1>3. \A w \in S \ Done : Ends(w) = Ends(Next[w])
  <2>1. SUFFICES ASSUME NEW w \in S \ Done, NEW v \in S, <<w, v>> \in Reach,
                        <<Next[w], v>> \notin Reach
                 PROVE  FALSE
    BY <1>1
  <2>2. PICK R \in SUBSET (S \X S) : R = Reach \ {<<w, v>>}
    OBVIOUS
  <2>3. \A u \in S \cap Done : <<u, u>> \in R
    BY <1>1, <2>1, <2>2
  <2>4. \A u \in S \ Done, x \in S : <<Next[u], x>> \in R => <<u, x>> \in R
    <3>1. SUFFICES ASSUME NEW u \in S \ Done, NEW x \in S, <<Next[u], x>> \in Reach
                   PROVE  <<u, x>> \in R
      BY <2>2
    <3>2. <<u, x>> \in Reach /\ <<u, x>> # <<w, v>>
      BY <1>1, <2>1, <3>1
    <3> QED BY <2>2, <3>2
  <2>5. Closed(R)
    BY <2>3, <2>4
  <2>6. <<w, v>> \in R
    BY <2>1, <2>5
  <2> QED BY <2>2, <2>6
<1>4. PICK f : f = [w \in S |-> Value[CHOOSE v : v \in Ends(w)]]
  OBVIOUS
<1>5. /\ f = [w \in S |-> f[w]]
      /\ \A w \in S : f[w] = IF w \in Done THEN Value[w] ELSE f[Next[w]]
  <2> HIDE DEF Ends
  <2>0. f = [w \in S |-> f[w]]
    BY <1>4
  <2>1. \A w \in S \cap Done : f[w] = Value[w]
    BY <1>2, <1>4
  <2>2. \A w \in S \ Done : f[w] = f[Next[w]]
    BY <1>3, <1>4
  <2> QED BY <2>0, <2>1, <2>2
<1> QED BY <1>5 DEF Computes

-----------------------------------------------------------------------------
(* Lines and rewrites are found                                            *)

Ascending(s) == s \in Seq(Int) /\ \A j, k \in 1..Len(s) : j < k => s[j] < s[k]

\* The middle of a window is in it, and its halves are smaller windows.
LEMMA HalvesAreWindows ==
  ASSUME NEW s \in Seq(Int), NEW x \in Int, NEW w \in Windows(s), w.low <= w.high
  PROVE  /\ Middle(w) \in w.low..w.high
         /\ Halved(s, x, w) \in Windows(s)
         /\ IF s[Middle(w)] <= x
            THEN /\ Halved(s, x, w).low = Middle(w) + 1 /\ Halved(s, x, w).high = w.high
                 /\ Halved(s, x, w).match = Middle(w)
            ELSE /\ Halved(s, x, w).low = w.low /\ Halved(s, x, w).high = Middle(w) - 1
                 /\ Halved(s, x, w).match = w.match
<1>1. /\ Len(s) \in Nat /\ w.low \in 1..Len(s) + 1 /\ w.high \in 0..Len(s)
      /\ w.match \in 0..Len(s)
  BY DEF Windows
<1>2. Middle(w) \in w.low..w.high
  BY <1>1 DEF Middle
<1> HIDE DEF Middle
<1>3. CASE s[Middle(w)] <= x
  BY <1>1, <1>2, <1>3 DEF Halved, Window, Windows
<1>4. CASE ~(s[Middle(w)] <= x)
  BY <1>1, <1>2, <1>4 DEF Halved, Window, Windows
<1> QED BY <1>2, <1>3, <1>4

\* The search goes on in a half until the window is empty.
LEMMA HalvingEquation ==
  ASSUME NEW s \in Seq(Int), NEW x \in Int
  PROVE  halving(s, x) = [w \in Windows(s) |->
           IF w.low > w.high THEN w.match ELSE halving(s, x)[Halved(s, x, w)]]
<1>1. PICK W, Done, Value : /\ W = Windows(s) /\ Done = {w \in W : w.low > w.high}
                            /\ Value = [w \in W |-> w.match]
  OBVIOUS
<1>2. PICK next : next = [w \in W |-> IF w \in Done THEN w ELSE Halved(s, x, w)]
  OBVIOUS
<1>3. \A w \in W : w.low \in Int /\ w.high \in Int
  BY <1>1 DEF Windows
<1>4. next \in [W -> W]
  BY <1>1, <1>2, <1>3, HalvesAreWindows
<1>5. PICK f : /\ f = [w \in W |-> f[w]]
               /\ \A w \in W : f[w] = IF w \in Done THEN Value[w] ELSE f[next[w]]
  <2>1. PICK f : Computes(f, W, Done, Value, next)
    BY <1>4, LoopsHaveValues
  <2> QED BY <2>1 DEF Computes
<1>6. f = [w \in Windows(s) |-> IF w.low > w.high THEN w.match ELSE f[Halved(s, x, w)]]
  <2> DEFINE Right(w) == IF w.low > w.high THEN w.match ELSE f[Halved(s, x, w)]
  <2>1. ASSUME NEW w \in W PROVE f[w] = Right(w)
    <3>1. CASE w.low > w.high
      BY <1>1, <1>5, <3>1
    <3>2. CASE ~(w.low > w.high)
      <4>1. f[w] = f[next[w]] /\ next[w] = Halved(s, x, w)
        BY <1>1, <1>2, <1>5, <3>2
      <4> QED BY <3>2, <4>1
    <3> QED BY <3>1, <3>2
  <2> HIDE DEF Right
  <2>2. f = [w \in W |-> Right(w)]
    BY <1>5, <2>1
  <2> QED BY <1>1, <2>2 DEF Right
<1> QED BY <1>6 DEF halving

\* What the search returns is the last entry not past x, or none.
LEMMA SearchFinds ==
  ASSUME NEW s, Ascending(s), NEW x \in Int, NEW none \in 0..Len(s),
         NEW r, r = search(s, x, none)
  PROVE  /\ r \in 0..Len(s)
         /\ \/ \A k \in 1..Len(s) : s[k] <= x <=> k <= r
            \/ r = none /\ \A k \in 1..Len(s) : s[k] > x
<1>1. s \in Seq(Int) /\ Len(s) \in Nat /\ \A k \in 1..Len(s) : s[k] \in Int
  BY DEF Ascending
<1> DEFINE Below(w) == \A k \in 1..w.low - 1 : s[k] <= x
           Above(w) == \A k \in w.high + 1..Len(s) : s[k] > x
           Holds(w) == IF w.low = 1 THEN w.match = none ELSE w.match = w.low - 1
           Sound(w) == w.low <= w.high + 1 /\ Below(w) /\ Above(w) /\ Holds(w)
           Found(m) == /\ m \in 0..Len(s)
                       /\ \/ \A k \in 1..Len(s) : s[k] <= x <=> k <= m
                          \/ m = none /\ \A k \in 1..Len(s) : s[k] > x
<1>2. PICK f : f = halving(s, x)
  OBVIOUS
<1>3. \A w \in Windows(s) : f[w] = IF w.low > w.high THEN w.match ELSE f[Halved(s, x, w)]
  BY <1>1, <1>2, HalvingEquation
<1>4. PICK S : S = {n \in Nat : \A w \in Windows(s) :
                      Sound(w) /\ w.high - w.low < n => Found(f[w])}
  OBVIOUS
<1>5. ASSUME NEW w \in Windows(s), Sound(w), w.low > w.high
      PROVE  Found(f[w])
  <2>1. /\ w.low \in 1..Len(s) + 1 /\ w.high \in 0..Len(s) /\ w.match \in 0..Len(s)
        /\ w.low = w.high + 1 /\ f[w] = w.match
    BY <1>1, <1>3, <1>5 DEF Windows
  <2>2. CASE w.low = 1
    BY <1>1, <1>5, <2>1, <2>2
  <2>3. CASE w.low # 1
    <3>1. w.match = w.high
      BY <1>1, <1>5, <2>1, <2>3
    <3>2. \A k \in 1..Len(s) : k <= w.high => s[k] <= x
      BY <1>1, <1>5, <2>1
    <3>3. \A k \in 1..Len(s) : ~(k <= w.high) => ~(s[k] <= x)
      BY <1>1, <1>5, <2>1
    <3> QED BY <1>1, <2>1, <3>1, <3>2, <3>3
  <2> QED BY <2>2, <2>3
<1>6. ASSUME NEW w \in Windows(s), Sound(w), w.low <= w.high
      PROVE  /\ Sound(Halved(s, x, w)) /\ Halved(s, x, w) \in Windows(s)
             /\ Halved(s, x, w).high - Halved(s, x, w).low < w.high - w.low
             /\ f[w] = f[Halved(s, x, w)]
  <2>1. /\ w.low \in 1..Len(s) + 1 /\ w.high \in 0..Len(s) /\ w.match \in 0..Len(s)
    BY DEF Windows
  <2>2. PICK m \in w.low..w.high : m = Middle(w)
    BY <1>1, <1>6, HalvesAreWindows
  <2>3. f[w] = f[Halved(s, x, w)]
    BY <1>3, <1>6, <2>1
  <2>4. PICK v \in Windows(s) :
          /\ v = Halved(s, x, w)
          /\ IF s[m] <= x THEN v.low = m + 1 /\ v.high = w.high /\ v.match = m
             ELSE v.low = w.low /\ v.high = m - 1 /\ v.match = w.match
    BY <1>1, <1>6, <2>2, HalvesAreWindows
  <2>5. CASE s[m] <= x
    <3>1. v.low = m + 1 /\ v.high = w.high /\ v.match = m
      BY <2>4, <2>5
    <3>2. \A k \in 1..m : s[k] <= x
      <4>1. SUFFICES ASSUME NEW k \in 1..m, k # m PROVE s[k] <= x
        BY <2>5
      <4>2. k \in 1..Len(s) /\ m \in 1..Len(s) /\ k < m
        BY <1>1, <2>1, <2>2, <4>1
      <4>3. s[k] \in Int /\ s[m] \in Int /\ s[k] < s[m]
        BY <1>1, <4>2 DEF Ascending
      <4> QED BY <2>5, <4>3
    <3>3. Sound(v)
      BY <1>1, <1>6, <2>1, <2>2, <3>1, <3>2
    <3> QED BY <2>1, <2>2, <2>3, <2>4, <3>1, <3>3
  <2>6. CASE ~(s[m] <= x)
    <3>1. v.low = w.low /\ v.high = m - 1 /\ v.match = w.match
      BY <2>4, <2>6
    <3>2. \A k \in m..Len(s) : s[k] > x
      <4>1. SUFFICES ASSUME NEW k \in m..Len(s) PROVE s[k] > x
        OBVIOUS
      <4>2. k \in 1..Len(s) /\ m \in 1..Len(s) /\ (k = m \/ m < k)
        BY <1>1, <2>1, <2>2, <4>1
      <4>3. s[k] \in Int /\ s[m] \in Int /\ (k = m \/ s[m] < s[k])
        BY <1>1, <4>2 DEF Ascending
      <4> QED BY <2>6, <4>3
    <3>3. Sound(v)
      BY <1>1, <1>6, <2>1, <2>2, <3>1, <3>2
    <3> QED BY <2>1, <2>2, <2>3, <2>4, <3>1, <3>3
  <2> QED BY <2>5, <2>6
<1>7. S = Nat
  <2> HIDE DEF Sound, Found
  <2>1. 0 \in S
    <3>1. \A w \in Windows(s) : w.high - w.low < 0 => w.low > w.high
      BY <1>1 DEF Windows
    <3> QED BY <1>4, <1>5, <3>1
  <2>2. ASSUME NEW n \in S PROVE n + 1 \in S
    <3>1. SUFFICES ASSUME NEW w \in Windows(s), Sound(w), w.high - w.low < n + 1
                   PROVE  Found(f[w])
      BY <1>4, <2>2
    <3>2. w.low \in Int /\ w.high \in Int
      BY <1>1 DEF Windows
    <3>3. CASE w.low <= w.high
      <4>1. PICK v \in Windows(s) : /\ v = Halved(s, x, w) /\ Sound(v) /\ f[w] = f[v]
                                    /\ v.high - v.low < w.high - w.low
        BY <1>6, <3>1, <3>3
      <4>2. v.low \in Int /\ v.high \in Int /\ n \in Int
        BY <1>1, <1>4, <2>2 DEF Windows
      <4>3. v.high - v.low < n
        BY <3>1, <3>2, <4>1, <4>2
      <4> QED BY <1>4, <2>2, <4>1, <4>3
    <3>4. CASE ~(w.low <= w.high)
      BY <1>5, <3>1, <3>2, <3>4
    <3> QED BY <3>3, <3>4
  <2>3. S \in SUBSET Nat
    BY <1>4
  <2> QED BY <2>1, <2>2, <2>3, Numbers
<1>8. PICK w \in Windows(s) : /\ w = Window(1, Len(s), none)
                              /\ w.low = 1 /\ w.high = Len(s) /\ w.match = none
  <2>1. PICK w : w = Window(1, Len(s), none)
    OBVIOUS
  <2>2. w.low = 1 /\ w.high = Len(s) /\ w.match = none
    BY <2>1 DEF Window
  <2>3. w \in Windows(s)
    BY <1>1, <2>1 DEF Windows, Window
  <2> QED BY <2>1, <2>2, <2>3
<1>9. Sound(w) /\ w.high - w.low < Len(s)
  BY <1>1, <1>8
<1>10. Found(f[w])
  <2> HIDE DEF Sound, Found
  <2> QED BY <1>1, <1>4, <1>7, <1>9
<1>11. r = f[w]
  BY <1>2, <1>8 DEF search
<1> QED BY <1>10, <1>11


\* The line starts gql_parser_init collects ascend, and there is at least the
\* first.
LEMMA LineStartsAscend == Ascending(LineStarts) /\ Len(LineStarts) \in Nat \ {0}
<1>1. LineStarts \in Seq(Int) /\ LineStarts # <<>>
  BY LocationAssumption
<1> QED BY <1>1, LocationAssumption DEF Ascending

\* The scan goes on while the next line starts before the position.
LEMMA ScanningEquation ==
  ASSUME NEW pos \in Int
  PROVE  \A line \in 1..Len(LineStarts) :
           scanning(pos)[line] =
             IF Reaches(line, pos) THEN scanning(pos)[line + 1] ELSE line
<1>1. PICK W, Done, Value : /\ W = 1..Len(LineStarts)
                            /\ Done = {line \in W : ~Reaches(line, pos)}
                            /\ Value = [line \in W |-> line]
  OBVIOUS
<1>2. PICK next : next = [line \in W |-> IF line \in Done THEN line ELSE line + 1]
  OBVIOUS
<1>3. next \in [W -> W]
  BY <1>1, <1>2, LineStartsAscend DEF Reaches
<1>4. PICK f : Computes(f, W, Done, Value, next)
  BY <1>3, LoopsHaveValues
<1>5. f = [line \in 1..Len(LineStarts) |->
             IF Reaches(line, pos) THEN f[line + 1] ELSE line]
  <2> DEFINE Right(line) == IF Reaches(line, pos) THEN f[line + 1] ELSE line
  <2>1. ASSUME NEW line \in W PROVE f[line] = Right(line)
    BY <1>1, <1>2, <1>4 DEF Computes
  <2> HIDE DEF Right
  <2>2. f = [line \in W |-> f[line]]
    BY <1>4 DEF Computes
  <2>3. f = [line \in W |-> Right(line)]
    BY <2>1, <2>2
  <2> QED BY <1>1, <2>3 DEF Right
<1>6. scanning(pos) = [line \in 1..Len(LineStarts) |->
             IF Reaches(line, pos) THEN scanning(pos)[line + 1] ELSE line]
  BY <1>5 DEF scanning
<1> QED BY <1>6

\* From any line that starts before the position, the scan finds the last such line.
LEMMA ScanFinds ==
  ASSUME NEW pos \in Int, NEW line \in 1..Len(LineStarts), LineStarts[line] <= pos,
         NEW r, r = scan(line, pos)
  PROVE  r \in 1..Len(LineStarts) /\ \A k \in 1..Len(LineStarts) : LineStarts[k] <= pos <=> k <= r
<1> DEFINE Found(m) == /\ m \in 1..Len(LineStarts)
                       /\ \A k \in 1..Len(LineStarts) : LineStarts[k] <= pos <=> k <= m
<1>1. PICK f : f = scanning(pos)
  OBVIOUS
<1>2. \A l \in 1..Len(LineStarts) : f[l] = IF Reaches(l, pos) THEN f[l + 1] ELSE l
  BY <1>1, ScanningEquation
<1>3. /\ Len(LineStarts) \in Nat
      /\ \A k \in 1..Len(LineStarts) : LineStarts[k] \in Int
      /\ \A j, k \in 1..Len(LineStarts) : j < k => LineStarts[j] < LineStarts[k]
  BY LineStartsAscend DEF Ascending
<1>4. PICK S : S = {n \in Nat : \A l \in 1..Len(LineStarts) :
                      LineStarts[l] <= pos /\ Len(LineStarts) - l < n => Found(f[l])}
  OBVIOUS
<1>5. S = Nat
  <2>1. 0 \in S
    BY <1>3, <1>4
  <2>2. ASSUME NEW n \in S PROVE n + 1 \in S
    <3>1. SUFFICES ASSUME NEW l \in 1..Len(LineStarts), LineStarts[l] <= pos,
                          Len(LineStarts) - l < n + 1
                   PROVE  Found(f[l])
      BY <1>4, <2>2
    <3>2. n \in Nat
      BY <1>4, <2>2
    <3>3. CASE Reaches(l, pos)
      <4>1. /\ l + 1 \in 1..Len(LineStarts) /\ LineStarts[l + 1] <= pos
            /\ Len(LineStarts) - (l + 1) < n /\ f[l] = f[l + 1]
        BY <1>2, <1>3, <3>1, <3>2, <3>3 DEF Reaches
      <4> HIDE DEF Found
      <4> QED BY <1>4, <2>2, <4>1
    <3>4. CASE ~Reaches(l, pos)
      <4>1. f[l] = l
        BY <1>2, <3>4
      <4>2. ASSUME NEW k \in 1..Len(LineStarts), k <= l PROVE LineStarts[k] <= pos
        <5>1. k = l \/ LineStarts[k] < LineStarts[l]
          BY <1>3, <3>1, <4>2
        <5> QED BY <1>3, <3>1, <5>1
      <4>3. ASSUME NEW k \in 1..Len(LineStarts), ~(k <= l) PROVE ~(LineStarts[k] <= pos)
        <5>1. l + 1 \in 1..Len(LineStarts) /\ l + 1 <= k
          BY <1>3, <3>1, <4>3
        <5>2. ~(LineStarts[l + 1] <= pos)
          BY <1>3, <3>4, <5>1 DEF Reaches
        <5>3. k = l + 1 \/ LineStarts[l + 1] < LineStarts[k]
          BY <1>3, <5>1
        <5> QED BY <1>3, <5>1, <5>2, <5>3
      <4> QED BY <4>1, <4>2, <4>3
    <3> QED BY <3>3, <3>4
  <2>3. S \in SUBSET Nat
    BY <1>4
  <2> QED BY <2>1, <2>2, <2>3, Numbers
<1>6. Found(f[line])
  <2>1. Len(LineStarts) - line < Len(LineStarts)
    BY <1>3
  <2> HIDE DEF Found
  <2> QED BY <1>3, <1>4, <1>5, <2>1
<1>7. r = f[line]
  BY <1>1 DEF scan
<1> QED BY <1>6, <1>7

-----------------------------------------------------------------------------
(* A chunk holds the block it is made for                                  *)

\* The doubled capacity is what the loop computes: double while it is too
\* small.
LEMMA DoublingEquation ==
  ASSUME NEW size \in Nat
  PROVE  \A c \in Nat : doubling(size)[c] = IF c < size THEN doubling(size)[2 * c] ELSE c
<1>1. PICK Done, Value : Done = {c \in Nat : ~(c < size)} /\ Value = [c \in Nat |-> c]
  OBVIOUS
<1>2. PICK next : next = [c \in Nat |-> 2 * c]
  OBVIOUS
<1>3. next \in [Nat -> Nat]
  BY <1>2
<1>4. PICK f : Computes(f, Nat, Done, Value, next)
  BY <1>3, LoopsHaveValues
<1>5. f = [c \in Nat |-> IF c < size THEN f[2 * c] ELSE c]
  <2> DEFINE Right(c) == IF c < size THEN f[2 * c] ELSE c
  <2>1. ASSUME NEW c \in Nat PROVE f[c] = Right(c)
    BY <1>1, <1>2, <1>4 DEF Computes
  <2> HIDE DEF Right
  <2>2. f = [c \in Nat |-> f[c]]
    BY <1>4 DEF Computes
  <2>3. f = [c \in Nat |-> Right(c)]
    BY <2>1, <2>2
  <2> QED BY <2>3 DEF Right
<1>6. doubling(size) = [c \in Nat |-> IF c < size THEN doubling(size)[2 * c] ELSE c]
  BY <1>5 DEF doubling
<1> QED BY <1>6

\* A chunk is at least as large as the block.
LEMMA ChunkHolds ==
  ASSUME NEW size \in Nat
  PROVE  ChunkFor(size) \in Nat /\ size <= ChunkFor(size)
<1>1. PICK f : f = doubling(size)
  OBVIOUS
<1>2. \A c \in Nat : f[c] = IF c < size THEN f[2 * c] ELSE c
  BY <1>1, DoublingEquation
<1>3. PICK S : S = {n \in Nat : \A c \in Nat \ {0} :
                      size - c < n => f[c] \in Nat /\ size <= f[c]}
  OBVIOUS
<1>4. S = Nat
  <2>1. 0 \in S
    BY <1>2, <1>3
  <2>2. ASSUME NEW n \in S PROVE n + 1 \in S
    <3>1. SUFFICES ASSUME NEW c \in Nat \ {0}, size - c < n + 1
                   PROVE  f[c] \in Nat /\ size <= f[c]
      BY <1>3, <2>2
    <3>2. n \in Nat
      BY <1>3, <2>2
    <3>3. CASE c < size
      <4>1. 2 * c \in Nat \ {0} /\ size - 2 * c < n /\ f[c] = f[2 * c]
        BY <1>2, <3>1, <3>2, <3>3
      <4> QED BY <1>3, <2>2, <4>1
    <3>4. CASE ~(c < size)
      BY <1>2, <3>4
    <3> QED BY <3>3, <3>4
  <2>3. S \in SUBSET Nat
    BY <1>3
  <2> QED BY <2>1, <2>2, <2>3, Numbers
<1>5. ChunkBytes \in Nat \ {0} /\ size - ChunkBytes < size
  BY MemoryAssumption
<1>6. f[ChunkBytes] \in Nat /\ size <= f[ChunkBytes]
  BY <1>3, <1>4, <1>5
<1> QED BY <1>1, <1>6 DEF ChunkFor

\* A start that is aligned is not before the one it was made of.
LEMMA AlignedFacts ==
  ASSUME NEW n \in Nat
  PROVE  Aligned(n) \in Nat /\ n <= Aligned(n) /\ Aligned(n) % Word = 0
<1>1. Word \in Nat \ {0}
  BY MemoryAssumption
<1>2. PICK m \in Nat : m = n + Word - 1
  BY <1>1
<1>3. PICK q \in Nat : q = m \div Word
  BY <1>1
<1>4. Aligned(n) = q * Word
  BY <1>2, <1>3 DEF Aligned
<1>5. m = Word * q + (m % Word) /\ m % Word \in 0..Word - 1
  BY <1>1, <1>3
<1>6. q * Word \in Nat /\ q * Word = Word * q
  BY <1>1
<1>7. n <= q * Word
  BY <1>1, <1>2, <1>5, <1>6
<1>8. (q * Word) % Word = 0
  BY <1>1
<1> QED BY <1>4, <1>6, <1>7, <1>8

-----------------------------------------------------------------------------
(* The inductive invariant                                                 *)

\* The arena: chunks used within their capacity, and blocks in the used part of
\* a chunk, aligned, each after those handed out before it.
ArenaInv ==
  /\ arena \in Seq([used : Nat, cap : Nat])
  /\ blocks \in Seq([chunk : Nat, start : Nat, size : Nat])
  /\ \A c \in 1..Len(arena) : arena[c].used <= arena[c].cap
  /\ \A k \in 1..Len(blocks) :
       /\ blocks[k].chunk \in 1..Len(arena) /\ blocks[k].start % Word = 0
       /\ blocks[k].start + blocks[k].size <= arena[blocks[k].chunk].used
  /\ \A j, k \in 1..Len(blocks) :
       j < k /\ blocks[j].chunk = blocks[k].chunk =>
         blocks[j].start + blocks[j].size <= blocks[k].start

\* The array: as many slots as its capacity, the first count of them pushed.
ArrayInv ==
  /\ array \in [count : Nat, cap : Nat, items : Seq(Nat)]
  /\ Len(array.items) = array.cap /\ array.count <= array.cap
  /\ \A k \in 1..array.count : array.items[k] = k

\* The line remembered is one of the source, and it starts no later than the
\* position it was found for.
CtxInv ==
  /\ ctx \in [rewrites : Rewrites, has_last : BOOLEAN, last_pos : Nat, last_line : Nat]
  /\ ctx.has_last => /\ ctx.last_line \in 1..Len(LineStarts)
                     /\ LineStarts[ctx.last_line] <= ctx.last_pos

MemoryInv == ArenaInv /\ ArrayInv /\ CtxInv /\ LinesAreFoundAfresh

\* What the binary search makes of a rewritten position is what the last rewrite
\* before it says, and a position of the original (gql_parser_loc_from_rewritten_pos).
LEMMA OriginalFound ==
  ASSUME NEW rs \in Rewrites, NEW pos \in Nat,
         NEW past, past = {r \in ToSet(rs) : r.rewritten_start <= pos},
         NEW last, last = CHOOSE r \in past : \A q \in past : q.rewritten_start <= r.rewritten_start
  PROVE  /\ original_pos_from_rewritten_pos(rs, pos) =
              IF past = {} THEN pos
              ELSE IF pos < last.rewritten_end THEN last.original_start
              ELSE pos + last.delta_after
         /\ original_pos_from_rewritten_pos(rs, pos) \in Nat
<1>1. /\ rs \in Seq(RewriteSet) /\ Len(rs) \in Nat /\ DOMAIN rs = 1..Len(rs)
      /\ \A k \in 1..Len(rs) : rs[k] \in RewriteSet
      /\ \A j, k \in 1..Len(rs) : j < k => rs[j].rewritten_start < rs[k].rewritten_start
      /\ \A k \in 1..Len(rs) : rs[k].rewritten_end + rs[k].delta_after >= 0
  BY LocationAssumption
<1>2. PICK starts : starts = [k \in DOMAIN rs |-> rs[k].rewritten_start]
  OBVIOUS
<1>3. Ascending(starts) /\ Len(starts) = Len(rs)
  <2>1. \A k \in 1..Len(rs) : rs[k].rewritten_start \in Nat
    BY <1>1 DEF RewriteSet
  <2>2. starts \in Seq(Int) /\ Len(starts) = Len(rs)
    BY <1>1, <1>2, <2>1
  <2> QED BY <1>1, <1>2, <2>2 DEF Ascending
<1>4. PICK m : m = search(starts, pos, 0)
  OBVIOUS
<1>5. m \in 0..Len(rs) /\ \A k \in 1..Len(rs) : rs[k].rewritten_start <= pos <=> k <= m
  <2>1. 0 \in 0..Len(starts) /\ pos \in Int
    BY <1>1, <1>3
  <2>2. /\ m \in 0..Len(starts)
        /\ \/ \A k \in 1..Len(starts) : starts[k] <= pos <=> k <= m
           \/ m = 0 /\ \A k \in 1..Len(starts) : starts[k] > pos
    BY <1>3, <1>4, <2>1, SearchFinds
  <2>3. \A k \in 1..Len(rs) : starts[k] = rs[k].rewritten_start /\ starts[k] \in Nat
    BY <1>1, <1>2 DEF RewriteSet
  <2> QED BY <1>1, <1>3, <2>2, <2>3
<1>6. original_pos_from_rewritten_pos(rs, pos) =
        IF m = 0 THEN pos
        ELSE IF pos < rs[m].rewritten_end THEN rs[m].original_start
        ELSE pos + rs[m].delta_after
  BY <1>2, <1>4 DEF original_pos_from_rewritten_pos
<1>7. \A r : r \in past <=> \E k \in 1..Len(rs) : r = rs[k] /\ k <= m
  BY <1>1, <1>5 DEF ToSet
<1>8. CASE m = 0
  <2>1. past = {}
    BY <1>1, <1>7, <1>8
  <2> QED BY <1>6, <1>8, <2>1
<1>9. CASE m # 0
  <2>1. m \in 1..Len(rs) /\ rs[m] \in past
    BY <1>1, <1>5, <1>7, <1>9
  <2>2. \A k \in 1..m : k # m => rs[k].rewritten_start < rs[m].rewritten_start
    BY <1>1, <2>1
  <2>3. \A k \in 1..Len(rs) : rs[k].rewritten_start \in Nat
    BY <1>1 DEF RewriteSet
  <2>4. ASSUME NEW q \in past PROVE q.rewritten_start <= rs[m].rewritten_start
    <3>1. PICK k \in 1..Len(rs) : q = rs[k] /\ k <= m
      BY <1>7
    <3>2. k = m \/ rs[k].rewritten_start < rs[m].rewritten_start
      BY <1>1, <2>2, <3>1
    <3> QED BY <2>1, <2>3, <3>1, <3>2
  <2>5. last \in past /\ \A q \in past : q.rewritten_start <= last.rewritten_start
    BY <2>1, <2>4
  <2>6. last = rs[m]
    <3>1. PICK k \in 1..Len(rs) : last = rs[k] /\ k <= m
      BY <1>7, <2>5
    <3>2. rs[m].rewritten_start <= rs[k].rewritten_start
      BY <2>1, <2>5, <3>1
    <3>3. k = m \/ rs[k].rewritten_start < rs[m].rewritten_start
      BY <1>1, <2>1, <3>1
    <3>4. rs[k].rewritten_start \in Nat /\ rs[m].rewritten_start \in Nat
      BY <2>1, <2>3
    <3> QED BY <3>1, <3>2, <3>3, <3>4
  <2>7. /\ rs[m].original_start \in Nat /\ rs[m].delta_after \in Int
        /\ rs[m].rewritten_end \in Nat /\ rs[m].rewritten_end + rs[m].delta_after >= 0
    BY <1>1, <2>1 DEF RewriteSet
  <2>8. past # {}
    BY <2>1
  <2>9. PICK o : o = original_pos_from_rewritten_pos(rs, pos)
    OBVIOUS
  <2>10. o = IF pos < last.rewritten_end THEN last.original_start
             ELSE pos + last.delta_after
    BY <1>6, <1>9, <2>6, <2>9
  <2>11. o \in Nat
    <3>1. CASE pos < last.rewritten_end
      BY <2>6, <2>7, <2>10, <3>1
    <3>2. CASE ~(pos < last.rewritten_end)
      BY <2>6, <2>7, <2>10, <3>2
    <3> QED BY <3>1, <3>2
  <2> QED BY <2>8, <2>9, <2>10, <2>11
<1> QED BY <1>8, <1>9

\* The line of a position does not depend on the line remembered.
LEMMA LineFound ==
  ASSUME CtxInv, NEW pos \in Nat, NEW l, l = LineOf(pos)
  PROVE  l \in 1..Len(LineStarts) /\ \A k \in 1..Len(LineStarts) : LineStarts[k] <= pos <=> k <= l
<1>1. /\ Len(LineStarts) \in Nat \ {0}
      /\ \A k \in 1..Len(LineStarts) : LineStarts[k] \in Nat
      /\ \A j, k \in 1..Len(LineStarts) : j < k => LineStarts[j] < LineStarts[k]
      /\ LineStarts[1] = 0
  BY LocationAssumption, LineStartsAscend
<1>2. ctx.last_pos \in Nat
  BY DEF CtxInv
<1>3. CASE OnLastLine(pos)
  <2>1. /\ l = ctx.last_line /\ l \in 1..Len(LineStarts) /\ LineStarts[l] <= pos
        /\ l = Len(LineStarts) \/ pos < LineStarts[l + 1]
    BY <1>1, <1>3 DEF LineOf, OnLastLine, CtxInv
  <2>2. ASSUME NEW k \in 1..Len(LineStarts), k <= l PROVE LineStarts[k] <= pos
    <3>1. k = l \/ LineStarts[k] < LineStarts[l]
      BY <1>1, <2>1, <2>2
    <3> QED BY <1>1, <2>1, <3>1
  <2>3. ASSUME NEW k \in 1..Len(LineStarts), ~(k <= l) PROVE ~(LineStarts[k] <= pos)
    <3>1. l + 1 \in 1..Len(LineStarts) /\ pos < LineStarts[l + 1]
      BY <1>1, <2>1, <2>3
    <3>2. k = l + 1 \/ LineStarts[l + 1] < LineStarts[k]
      BY <1>1, <2>1, <2>3, <3>1
    <3> QED BY <1>1, <3>1, <3>2
  <2> QED BY <2>1, <2>2, <2>3
<1>4. CASE ~OnLastLine(pos) /\ ctx.has_last /\ pos >= ctx.last_pos
  <2>1. l = scan(ctx.last_line, pos)
    BY <1>4 DEF LineOf
  <2>2. ctx.last_line \in 1..Len(LineStarts) /\ LineStarts[ctx.last_line] <= ctx.last_pos
    BY <1>4 DEF CtxInv
  <2>3. LineStarts[ctx.last_line] <= pos
    BY <1>1, <1>2, <1>4, <2>2
  <2> QED BY <2>1, <2>2, <2>3, ScanFinds
<1>5. CASE ~OnLastLine(pos) /\ ~(ctx.has_last /\ pos >= ctx.last_pos)
  <2>1. l = search(LineStarts, pos, 1)
    BY <1>5 DEF LineOf
  <2>2. /\ l \in 0..Len(LineStarts)
        /\ \/ \A k \in 1..Len(LineStarts) : LineStarts[k] <= pos <=> k <= l
           \/ l = 1 /\ \A k \in 1..Len(LineStarts) : LineStarts[k] > pos
    <3>1. 1 \in 0..Len(LineStarts)
      BY <1>1
    <3> QED BY <2>1, <3>1, LineStartsAscend, SearchFinds
  <2>3. 1 \in 1..Len(LineStarts) /\ LineStarts[1] <= pos /\ ~(LineStarts[1] > pos)
    BY <1>1
  <2> QED BY <1>1, <2>2, <2>3
<1> QED BY <1>3, <1>4, <1>5

-----------------------------------------------------------------------------
(* Each operation keeps the invariant                                      *)

\* At the start nothing is allocated, pushed or remembered.
LEMMA InitMemory == MemoryInit => MemoryInv
<1>1. SUFFICES ASSUME MemoryInit PROVE MemoryInv
  OBVIOUS
<1>2. ArenaInv
  BY <1>1 DEF MemoryInit, ArenaInv
<1>3. ArrayInv
  BY <1>1 DEF MemoryInit, NoArray, ArrayInv
<1>4. CtxInv
  BY <1>1 DEF MemoryInit, CtxInv
<1>5. LinesAreFoundAfresh
  BY <1>1 DEF MemoryInit, LinesAreFoundAfresh
<1> QED BY <1>2, <1>3, <1>4, <1>5 DEF MemoryInv

\* The numbers of chunks and blocks.
LEMMA ArenaFacts ==
  ASSUME ArenaInv
  PROVE  /\ arena \in Seq([used : Nat, cap : Nat])
         /\ blocks \in Seq([chunk : Nat, start : Nat, size : Nat])
         /\ Len(arena) \in Nat /\ Len(blocks) \in Nat
         /\ \A c \in 1..Len(arena) : /\ arena[c].used \in Nat /\ arena[c].cap \in Nat
                                     /\ arena[c].used <= arena[c].cap
         /\ \A k \in 1..Len(blocks) :
              /\ blocks[k].chunk \in Nat /\ blocks[k].start \in Nat /\ blocks[k].size \in Nat
              /\ blocks[k].chunk \in 1..Len(arena) /\ blocks[k].start % Word = 0
              /\ blocks[k].start + blocks[k].size <= arena[blocks[k].chunk].used
<1>1. /\ arena \in Seq([used : Nat, cap : Nat])
      /\ blocks \in Seq([chunk : Nat, start : Nat, size : Nat])
  BY DEF ArenaInv
<1>2. Len(arena) \in Nat /\ Len(blocks) \in Nat
  BY <1>1
<1>3. \A c \in 1..Len(arena) : arena[c] \in [used : Nat, cap : Nat]
  BY <1>1, ElementOfSeq
<1>4. \A k \in 1..Len(blocks) : blocks[k] \in [chunk : Nat, start : Nat, size : Nat]
  BY <1>1, ElementOfSeq
<1>5. \A c \in 1..Len(arena) : arena[c].used \in Nat /\ arena[c].cap \in Nat
  BY <1>3
<1>6. \A k \in 1..Len(blocks) :
        blocks[k].chunk \in Nat /\ blocks[k].start \in Nat /\ blocks[k].size \in Nat
  BY <1>4
<1> QED BY <1>1, <1>2, <1>5, <1>6 DEF ArenaInv

\* A block starts after what its chunk holds, in the last chunk when it fits and
\* in a new one that is large enough when not (gql_ir_arena_alloc_zero).
LEMMA AllocKeeps ==
  ASSUME ArenaInv, NEW size \in Sizes, arena_alloc_zero(size)
  PROVE  ArenaInv'
<1>1. /\ size \in Nat /\ arena \in Seq([used : Nat, cap : Nat])
      /\ blocks \in Seq([chunk : Nat, start : Nat, size : Nat])
      /\ Len(arena) \in Nat /\ Len(blocks) \in Nat
      /\ \A c \in 1..Len(arena) : /\ arena[c].used \in Nat /\ arena[c].cap \in Nat
                                  /\ arena[c].used <= arena[c].cap
      /\ \A k \in 1..Len(blocks) :
           /\ blocks[k].chunk \in Nat /\ blocks[k].start \in Nat /\ blocks[k].size \in Nat
           /\ blocks[k].chunk \in 1..Len(arena) /\ blocks[k].start % Word = 0
           /\ blocks[k].start + blocks[k].size <= arena[blocks[k].chunk].used
  BY MemoryAssumption, ArenaFacts
<1>2. PICK fits \in BOOLEAN :
        fits <=> arena # <<>> /\ UsedAligned + size <= Last(arena).cap
  OBVIOUS
<1>3. PICK start : start = IF fits THEN UsedAligned ELSE 0
  OBVIOUS
<1>4. PICK all : all = IF fits THEN arena
                       ELSE Append(arena, [used |-> 0, cap |-> ChunkFor(size)])
  OBVIOUS
<1>5. /\ arena' = [all EXCEPT ![Len(all)].used = start + size]
      /\ blocks' = Append(blocks, [chunk |-> Len(all), start |-> start, size |-> size])
  BY <1>2, <1>3, <1>4 DEF arena_alloc_zero
<1>6. Word \in Nat \ {0} /\ 0 % Word = 0
  BY MemoryAssumption
\* The chunk that takes the block.
<1>7. PICK last \in Nat : last = Len(all)
  <2>1. PICK c : c = [used |-> 0, cap |-> ChunkFor(size)]
    OBVIOUS
  <2>2. c \in [used : Nat, cap : Nat]
    BY <1>1, <2>1, ChunkHolds
  <2>3. all \in Seq([used : Nat, cap : Nat])
    BY <1>1, <1>4, <2>1, <2>2, AppendProperties
  <2> QED BY <2>3, LenProperties
<1>8. /\ all \in Seq([used : Nat, cap : Nat]) /\ last \in 1..Len(all)
      /\ Len(arena) <= Len(all)
      /\ \A c \in 1..Len(arena) : all[c] = arena[c]
      /\ start \in Nat /\ start % Word = 0 /\ start + size <= all[last].cap
      /\ all[last].used <= start
      /\ \A c \in 1..Len(all) : all[c].used <= all[c].cap
      /\ last \in 1..Len(arena) \/ last = Len(arena) + 1
  <2>1. CASE fits
    <3>1. all = arena /\ last = Len(arena) /\ last # 0 /\ Last(arena) = arena[last]
      BY <1>1, <1>2, <1>4, <1>7, <2>1, EmptySeq DEF Last
    <3>2. start = Aligned(arena[last].used) /\ start + size <= arena[last].cap
      BY <1>2, <1>3, <2>1, <3>1 DEF UsedAligned
    <3>3. last \in 1..Len(arena) /\ arena[last].used \in Nat
      BY <1>1, <3>1
    <3>4. start \in Nat /\ start % Word = 0 /\ arena[last].used <= start
      BY <3>2, <3>3, AlignedFacts
    <3> QED BY <1>1, <3>1, <3>2, <3>3, <3>4
  <2>2. CASE ~fits
    <3>1. PICK c : c = [used |-> 0, cap |-> ChunkFor(size)]
      OBVIOUS
    <3>2. c \in [used : Nat, cap : Nat] /\ c.used = 0 /\ size <= c.cap
      BY <1>1, <3>1, ChunkHolds
    <3>3. all = Append(arena, c) /\ start = 0
      BY <1>3, <1>4, <2>2, <3>1
    <3>4. /\ all \in Seq([used : Nat, cap : Nat]) /\ Len(all) = Len(arena) + 1
          /\ \A d \in 1..Len(arena) : all[d] = arena[d]
          /\ all[Len(arena) + 1] = c
      BY <1>1, <3>2, <3>3, AppendProperties
    <3>5. last = Len(arena) + 1 /\ all[last] = c /\ last \in 1..Len(all)
      BY <1>1, <1>7, <3>4
    <3>6. \A d \in 1..Len(all) : d \in 1..Len(arena) \/ d = last
      BY <1>1, <3>4, <3>5
    <3>7. \A d \in 1..Len(all) : all[d].used <= all[d].cap
      <4>1. SUFFICES ASSUME NEW d \in 1..Len(all) PROVE all[d].used <= all[d].cap
        OBVIOUS
      <4>2. ChunkFor(size) \in Nat /\ c.cap \in Nat
        BY <1>1, <3>1, ChunkHolds
      <4>3. CASE d \in 1..Len(arena)
        BY <1>1, <3>4, <4>3
      <4>4. CASE d = last
        BY <3>2, <3>5, <4>2, <4>4
      <4> QED BY <3>6, <4>3, <4>4
    <3> QED BY <1>1, <1>6, <3>2, <3>3, <3>4, <3>5, <3>7
  <2> QED BY <2>1, <2>2
<1>9. /\ arena' \in Seq([used : Nat, cap : Nat]) /\ Len(arena') = Len(all)
      /\ \A c \in 1..Len(all) : c # last => arena'[c] = all[c]
      /\ arena'[last].used = start + size /\ arena'[last].cap = all[last].cap
  <2>1. all[last] \in [used : Nat, cap : Nat] /\ start + size \in Nat
    <3>1. all[last] \in [used : Nat, cap : Nat]
      BY <1>8, ElementOfSeq
    <3> QED BY <1>1, <1>8, <3>1
  <2>2. PICK c : c = [all[last] EXCEPT !.used = start + size]
    OBVIOUS
  <2>3. c \in [used : Nat, cap : Nat] /\ c.used = start + size /\ c.cap = all[last].cap
    BY <2>1, <2>2
  <2>4. arena' = [all EXCEPT ![last] = c]
    BY <1>5, <1>7, <2>2
  <2> QED BY <1>8, <2>3, <2>4, ExceptSeq
<1>10. PICK b : b = [chunk |-> Len(all), start |-> start, size |-> size]
  OBVIOUS
<1>11. /\ b \in [chunk : Nat, start : Nat, size : Nat]
       /\ b.chunk = last /\ b.start = start /\ b.size = size
  BY <1>1, <1>7, <1>8, <1>10
<1>12. PICK n \in Nat : n = Len(blocks) + 1
  BY <1>1
<1>13. /\ blocks' \in Seq([chunk : Nat, start : Nat, size : Nat]) /\ Len(blocks') = n
       /\ \A k \in 1..Len(blocks) : blocks'[k] = blocks[k]
       /\ blocks'[n] = b
  BY <1>1, <1>5, <1>10, <1>11, <1>12, AppendProperties
<1>14. \A k \in 1..n : k \in 1..Len(blocks) \/ k = n
  BY <1>1, <1>12
<1>15. \A c \in 1..Len(arena') : arena'[c].used <= arena'[c].cap
  BY <1>8, <1>9
\* What a chunk holds only grows.
<1>16. \A c \in 1..Len(arena) : c \in 1..Len(arena') /\ arena[c].used <= arena'[c].used
  <2>1. SUFFICES ASSUME NEW c \in 1..Len(arena)
                 PROVE  c \in 1..Len(arena') /\ arena[c].used <= arena'[c].used
    OBVIOUS
  <2>2. c \in 1..Len(all) /\ all[c] = arena[c] /\ arena[c].used \in Nat
    <3>1. Len(all) \in Nat /\ Len(arena) \in Nat /\ Len(arena) <= Len(all)
      BY <1>1, <1>7, <1>8
    <3>2. c \in 1..Len(all)
      BY <2>1, <3>1
    <3> QED BY <1>1, <1>8, <2>1, <3>2
  <2>3. CASE c = last
    <3>1. arena'[c].used = start + size /\ all[c].used <= start /\ c \in 1..Len(arena')
      BY <1>8, <1>9, <2>2, <2>3
    <3>2. arena[c].used <= start /\ start \in Nat /\ size \in Nat
      BY <1>1, <1>8, <2>2, <3>1
    <3>3. arena[c].used <= start + size
      BY <2>2, <3>2
    <3> QED BY <3>1, <3>3
  <2>4. CASE c # last
    BY <1>9, <2>2, <2>4
  <2> QED BY <2>3, <2>4
<1>17. \A k \in 1..Len(blocks') :
         /\ blocks'[k].chunk \in 1..Len(arena') /\ blocks'[k].start % Word = 0
         /\ blocks'[k].start + blocks'[k].size <= arena'[blocks'[k].chunk].used
  <2>1. SUFFICES ASSUME NEW k \in 1..n
                 PROVE  /\ blocks'[k].chunk \in 1..Len(arena') /\ blocks'[k].start % Word = 0
                        /\ blocks'[k].start + blocks'[k].size <= arena'[blocks'[k].chunk].used
    BY <1>13
  <2>2. CASE k \in 1..Len(blocks)
    <3>1. PICK d \in 1..Len(arena) : d = blocks[k].chunk
      BY <1>1, <2>2
    <3>2. /\ blocks'[k] = blocks[k] /\ blocks[k].start \in Nat /\ blocks[k].size \in Nat
          /\ blocks[k].start + blocks[k].size <= arena[d].used
          /\ blocks[k].start % Word = 0
      BY <1>1, <1>13, <2>2, <3>1
    <3>3. d \in 1..Len(arena') /\ arena[d].used <= arena'[d].used /\ arena[d].used \in Nat
      BY <1>1, <1>16
    <3>4. arena'[d].used \in Nat
      <4>1. arena'[d] \in [used : Nat, cap : Nat]
        BY <1>9, <3>3, ElementOfSeq
      <4> QED BY <4>1
    <3>5. PICK e \in Nat : e = blocks[k].start + blocks[k].size
      BY <3>2
    <3>6. e <= arena'[d].used
      BY <3>2, <3>3, <3>4, <3>5
    <3> QED BY <3>1, <3>2, <3>3, <3>5, <3>6
  <2>3. CASE k = n
    <3>1. blocks'[k].chunk = last /\ blocks'[k].start = start /\ blocks'[k].size = size
      BY <1>11, <1>13, <2>3
    <3>2. last \in 1..Len(arena') /\ arena'[last].used = start + size /\ start % Word = 0
      BY <1>8, <1>9
    <3>3. start \in Nat /\ size \in Nat
      BY <1>1, <1>8
    <3>4. start + size <= start + size
      BY <3>3
    <3> QED BY <3>1, <3>2, <3>4
  <2> QED BY <1>14, <2>2, <2>3
<1>18. \A j, k \in 1..Len(blocks') :
         j < k /\ blocks'[j].chunk = blocks'[k].chunk =>
           blocks'[j].start + blocks'[j].size <= blocks'[k].start
  <2>1. SUFFICES ASSUME NEW j \in 1..n, NEW k \in 1..n, j < k,
                        blocks'[j].chunk = blocks'[k].chunk
                 PROVE  blocks'[j].start + blocks'[j].size <= blocks'[k].start
    BY <1>13
  <2>2. j \in 1..Len(blocks) /\ blocks'[j] = blocks[j]
    <3>1. j \in 1..Len(blocks)
      BY <1>1, <1>12, <2>1
    <3> QED BY <1>13, <3>1
  <2>3. CASE k \in 1..Len(blocks)
    BY <1>13, <2>1, <2>2, <2>3 DEF ArenaInv
  <2>4. CASE k = n
    <3>1. blocks[j].chunk = last /\ blocks'[k].start = start
      BY <1>11, <1>13, <2>1, <2>2, <2>4
    <3>2. last \in 1..Len(arena) /\ all[last] = arena[last]
      BY <1>1, <1>8, <2>2, <3>1
    <3>3. /\ blocks[j].start + blocks[j].size <= arena[last].used
          /\ blocks[j].start \in Nat /\ blocks[j].size \in Nat /\ arena[last].used \in Nat
      BY <1>1, <2>2, <3>1, <3>2
    <3>4. arena[last].used <= start /\ start \in Nat
      BY <1>8, <3>2
    <3>5. PICK e \in Nat : e = blocks[j].start + blocks[j].size
      BY <3>3
    <3>6. e <= start
      BY <3>3, <3>4, <3>5
    <3> QED BY <2>2, <3>1, <3>5, <3>6
  <2> QED BY <1>14, <2>3, <2>4
<1> QED BY <1>9, <1>13, <1>15, <1>17, <1>18 DEF ArenaInv

\* An array that is full is given room before the item is written, and the items
\* it had stay where they are (gql_ir_ptr_array_push).
LEMMA PushKeeps ==
  ASSUME ArrayInv, ptr_array_push(array.count + 1)
  PROVE  ArrayInv'
<1>1. /\ array.count \in Nat /\ array.cap \in Nat /\ array.items \in Seq(Nat)
      /\ Len(array.items) = array.cap /\ array.count <= array.cap
      /\ FirstCap \in Nat \ {0}
      /\ \A k \in 1..array.count : array.items[k] = k
      /\ \A k \in 1..array.cap : array.items[k] \in Nat
  BY MemoryAssumption DEF ArrayInv
<1>2. PICK cap : cap = IF Grow(array)
                 THEN (IF array.cap > 0 THEN array.cap * 2 ELSE FirstCap) ELSE array.cap
  OBVIOUS
<1>3. cap \in Nat /\ array.count + 1 <= cap /\ array.cap <= cap
  BY <1>1, <1>2 DEF Grow
<1>4. PICK room : room = Renew(array.items, cap)
  OBVIOUS
<1>5. room = [k \in 1..cap |-> IF k <= array.cap THEN array.items[k] ELSE 0]
  BY <1>1, <1>4 DEF Renew
<1>6. PICK n \in 1..cap : n = array.count + 1
  BY <1>1, <1>3
<1>7. PICK items : items = [k \in 1..cap |-> IF k = n THEN n ELSE room[k]]
  OBVIOUS
<1>8. array' = [count |-> n, cap |-> cap, items |-> items]
  <2>1. DOMAIN room \cup {n} = 1..cap
    BY <1>5, <1>6
  <2> QED BY <1>2, <1>4, <1>6, <1>7, <2>1 DEF ptr_array_push
<1>9. items \in Seq(Nat) /\ Len(items) = cap
  <2>1. \A k \in 1..cap : items[k] \in Nat
    BY <1>1, <1>3, <1>5, <1>6, <1>7
  <2> QED BY <1>3, <1>7, <2>1, IsASeq
<1>10. \A k \in 1..n : items[k] = k
  <2>1. SUFFICES ASSUME NEW k \in 1..n, k # n PROVE items[k] = k
    BY <1>6, <1>7
  <2>2. k \in 1..array.count /\ k \in 1..cap /\ k <= array.cap
    BY <1>1, <1>3, <1>6, <2>1
  <2>3. items[k] = room[k] /\ room[k] = array.items[k]
    BY <1>5, <1>7, <2>1, <2>2
  <2> QED BY <1>1, <2>2, <2>3
<1>11. n \in Nat /\ n <= cap
  BY <1>3, <1>6
<1> QED BY <1>3, <1>8, <1>9, <1>10, <1>11 DEF ArrayInv

\* A lookup finds the line by itself, and remembers one that starts no later than
\* the position (gql_parser_loc_from_rewritten_pos).
LEMMA LookupKeeps ==
  ASSUME CtxInv, NEW rewritten \in Positions, loc_from_rewritten_pos(rewritten)
  PROVE  CtxInv' /\ LinesAreFoundAfresh'
<1>1. rewritten \in Nat /\ ctx.rewrites \in Rewrites
  BY LocationAssumption DEF CtxInv
<1>2. PICK pos : pos = original_pos_from_rewritten_pos(ctx.rewrites, rewritten)
  OBVIOUS
<1>3. PICK l : l = LineOf(pos)
  OBVIOUS
<1>4. pos \in Nat
  BY <1>1, <1>2, OriginalFound
<1>5. l \in 1..Len(LineStarts) /\ \A k \in 1..Len(LineStarts) : LineStarts[k] <= pos <=> k <= l
  BY <1>3, <1>4, LineFound
<1>6. /\ ctx' = [ctx EXCEPT !.has_last = TRUE, !.last_pos = pos, !.last_line = l]
      /\ answers' = <<rewritten, l, pos - LineStarts[l] + 1>>
  BY <1>2, <1>3 DEF loc_from_rewritten_pos
<1>7. Len(LineStarts) \in Nat /\ l \in Nat /\ l <= l /\ DOMAIN LineStarts = 1..Len(LineStarts)
  BY <1>5, LineStartsAscend, LocationAssumption
<1>8. /\ ctx' \in [rewrites : Rewrites, has_last : BOOLEAN, last_pos : Nat, last_line : Nat]
      /\ ctx'.last_line = l /\ ctx'.last_pos = pos /\ ctx'.rewrites = ctx.rewrites
  BY <1>4, <1>6, <1>7 DEF CtxInv
<1>9. CtxInv'
  BY <1>5, <1>7, <1>8 DEF CtxInv
<1>10. {k \in DOMAIN LineStarts : LineStarts[k] <= pos} = 1..l
  BY <1>5, <1>7
<1>11. Cardinality(1..l) = l
  BY <1>5, <1>7, FS_Interval
<1>12. LinesAreFoundAfresh'
  <2>1. PICK past : past = {r \in ToSet(ctx.rewrites) : r.rewritten_start <= rewritten}
    OBVIOUS
  <2>2. PICK last : last = CHOOSE r \in past :
                             \A q \in past : q.rewritten_start <= r.rewritten_start
    OBVIOUS
  <2>3. pos = IF past = {} THEN rewritten
              ELSE IF rewritten < last.rewritten_end THEN last.original_start
              ELSE rewritten + last.delta_after
    BY <1>1, <1>2, <2>1, <2>2, OriginalFound
  <2>4. /\ answers'[1] = rewritten /\ answers'[2] = l
        /\ answers'[3] = pos - LineStarts[l] + 1
    BY <1>6
  <2> HIDE DEF LinesAreFoundAfresh
  <2>5. /\ answers'[2] = Cardinality({k \in DOMAIN LineStarts : LineStarts[k] <= pos})
        /\ answers'[3] =
             pos - LineStarts[Cardinality({k \in DOMAIN LineStarts : LineStarts[k] <= pos})] + 1
    BY <1>10, <1>11, <2>4
  <2> QED BY <1>8, <2>1, <2>2, <2>3, <2>4, <2>5 DEF LinesAreFoundAfresh
<1> QED BY <1>9, <1>12

\* Every step keeps the invariant.
LEMMA MemoryStep == MemoryInv /\ [MemoryNext]_memoryVars => MemoryInv'
<1>1. SUFFICES ASSUME MemoryInv, [MemoryNext]_memoryVars PROVE MemoryInv'
  OBVIOUS
<1>2. ArenaInv /\ ArrayInv /\ CtxInv /\ LinesAreFoundAfresh
  BY <1>1 DEF MemoryInv
<1>3. UNCHANGED <<arena, blocks>> => ArenaInv'
  BY <1>2 DEF ArenaInv
<1>4. UNCHANGED array => ArrayInv'
  BY <1>2 DEF ArrayInv
<1>5. UNCHANGED <<ctx, answers>> => CtxInv' /\ LinesAreFoundAfresh'
  BY <1>2 DEF CtxInv, LinesAreFoundAfresh
<1>6. ASSUME NEW size \in Sizes, arena_alloc_zero(size) PROVE MemoryInv'
  <2>1. ArenaInv'
    BY <1>2, <1>6, AllocKeeps
  <2> QED BY <1>4, <1>5, <1>6, <2>1 DEF MemoryInv, arena_alloc_zero
<1>7. CASE arena_free
  <2>1. ArenaInv'
    BY <1>7 DEF arena_free, ArenaInv
  <2> QED BY <1>4, <1>5, <1>7, <2>1 DEF MemoryInv, arena_free
<1>8. CASE ptr_array_push(array.count + 1)
  <2>1. ArrayInv'
    BY <1>2, <1>8, PushKeeps
  <2> QED BY <1>3, <1>5, <1>8, <2>1 DEF MemoryInv, ptr_array_push
<1>9. CASE ptr_array_free
  <2>1. ArrayInv'
    BY <1>9 DEF ptr_array_free, NoArray, ArrayInv
  <2> QED BY <1>3, <1>5, <1>9, <2>1 DEF MemoryInv, ptr_array_free
<1>10. ASSUME NEW pos \in Positions, loc_from_rewritten_pos(pos) PROVE MemoryInv'
  <2>1. CtxInv' /\ LinesAreFoundAfresh'
    BY <1>2, <1>10, LookupKeeps
  <2>2. UNCHANGED <<arena, blocks, array>>
    BY <1>10 DEF loc_from_rewritten_pos
  <2> QED BY <1>3, <1>4, <2>1, <2>2 DEF MemoryInv
<1>11. CASE loc_context_destroy
  <2>1. CtxInv' /\ LinesAreFoundAfresh'
    BY <1>11 DEF loc_context_destroy, CtxInv, LinesAreFoundAfresh
  <2>2. UNCHANGED <<arena, blocks, array>>
    BY <1>11 DEF loc_context_destroy
  <2> QED BY <1>3, <1>4, <2>1, <2>2 DEF MemoryInv
<1>12. CASE UNCHANGED memoryVars
  BY <1>3, <1>4, <1>5, <1>12 DEF MemoryInv, memoryVars
<1> QED BY <1>1, <1>6, <1>7, <1>8, <1>9, <1>10, <1>11, <1>12 DEF MemoryNext

\* The invariant says what the memory promises.
LEMMA MemoryPromises == MemoryInv => MemoryIsAccounted
<1>1. SUFFICES ASSUME MemoryInv PROVE MemoryIsAccounted
  OBVIOUS
<1>2. ArenaInv /\ ArrayInv /\ CtxInv /\ LinesAreFoundAfresh
  BY <1>1 DEF MemoryInv
<1>3. BlocksAreApart
  <2>1. /\ DOMAIN blocks = 1..Len(blocks) /\ Len(blocks) \in Nat
    BY <1>2, ArenaFacts
  <2>2. ASSUME NEW k \in 1..Len(blocks)
        PROVE  /\ blocks[k].start % Word = 0
               /\ blocks[k].start + blocks[k].size <= arena[blocks[k].chunk].cap
               /\ \A j \in 1..k - 1 : blocks[j].chunk = blocks[k].chunk =>
                    blocks[j].start + blocks[j].size <= blocks[k].start
    <3>1. PICK c \in 1..Len(arena) : c = blocks[k].chunk
      BY <1>2, ArenaFacts
    <3>2. /\ blocks[k].start \in Nat /\ blocks[k].size \in Nat /\ blocks[k].start % Word = 0
          /\ blocks[k].start + blocks[k].size <= arena[c].used
      BY <1>2, <3>1, ArenaFacts
    <3>3. arena[c].used \in Nat /\ arena[c].cap \in Nat /\ arena[c].used <= arena[c].cap
      BY <1>2, ArenaFacts
    <3>4. \A j \in 1..k - 1 : j \in 1..Len(blocks) /\ j < k
      BY <2>1
    <3>5. \A j \in 1..k - 1 : blocks[j].chunk = blocks[k].chunk =>
                                blocks[j].start + blocks[j].size <= blocks[k].start
      BY <1>2, <3>4 DEF ArenaInv
    <3>6. PICK e \in Nat : e = blocks[k].start + blocks[k].size
      BY <3>2
    <3>7. e <= arena[c].cap
      BY <3>2, <3>3, <3>6
    <3> QED BY <3>1, <3>2, <3>5, <3>6, <3>7
  <2>3. \A k \in DOMAIN blocks :
          /\ blocks[k].start % Word = 0
          /\ blocks[k].start + blocks[k].size <= arena[blocks[k].chunk].cap
          /\ \A j \in 1..k - 1 : blocks[j].chunk = blocks[k].chunk =>
               blocks[j].start + blocks[j].size <= blocks[k].start
    BY <2>1, <2>2
  <2> QED BY <2>3 DEF BlocksAreApart
<1>4. ArrayKeepsItsItems
  BY <1>2 DEF ArrayInv, ArrayKeepsItsItems
<1> QED BY <1>2, <1>3, <1>4 DEF MemoryIsAccounted

\* Whatever is allocated, pushed, looked up and freed, in any order: the blocks of
\* the arena are aligned, inside their chunk and apart (gql_ir_arena_alloc_zero), an
\* array keeps what was pushed within its memory (gql_ir_ptr_array_push), and a
\* position is found on its line whatever line is remembered
\* (gql_parser_loc_from_rewritten_pos).
THEOREM MemoryHolds == MemorySpec => []MemoryIsAccounted
<1>1. MemorySpec => []MemoryInv
  BY InitMemory, MemoryStep, PTL DEF MemorySpec
<1> QED BY <1>1, MemoryPromises, PTL

=============================================================================
