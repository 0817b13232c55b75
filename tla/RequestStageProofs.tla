------------------------- MODULE RequestStageProofs -------------------------
(***************************************************************************)
(* Proofs about RequestStage for every set of documents, limits, variables *)
(* and addresses and every cache size.                                     *)
(*                                                                         *)
(* The argument: what the runtime remembers about a key is true of the key *)
(* (MemoryIsTrue), so a check it skips would have passed.  The FIFO orders *)
(* stay in step with their hashes, so an eviction forgets everything       *)
(* remembered about the key it evicts.  An address holds one program at a  *)
(* time, so a specialization can only be of another program when it        *)
(* outlived the program it was made of; and it is found under the key of   *)
(* the variables it was made for, so it can only be for other variables    *)
(* when the two have one key.                                              *)
(***************************************************************************)
EXTENDS RequestStage, TLAPS

-----------------------------------------------------------------------------
(* FIFO orders                                                             *)

\* Dropping the head of a duplicate-free order removes exactly that key.
LEMMA EvictFromOrder ==
  ASSUME NEW S, NEW order \in Seq(S), IsInjective(order), order # <<>>
  PROVE  /\ Head(order) \in Range(order)
         /\ Tail(order) \in Seq(S)
         /\ Len(Tail(order)) = Len(order) - 1
         /\ IsInjective(Tail(order))
         /\ Range(Tail(order)) = Range(order) \ {Head(order)}
<1>1. /\ Len(order) \in Nat /\ Len(order) > 0
      /\ DOMAIN order = 1 .. Len(order)
      /\ Head(order) = order[1]
  OBVIOUS
<1>2. /\ Tail(order) \in Seq(S)
      /\ Len(Tail(order)) = Len(order) - 1
      /\ DOMAIN Tail(order) = 1 .. Len(order) - 1
      /\ \A i \in 1 .. Len(order) - 1 : Tail(order)[i] = order[i + 1]
  BY <1>1
<1>3. IsInjective(Tail(order))
  BY <1>1, <1>2 DEF IsInjective
<1>4. Range(Tail(order)) \subseteq Range(order) \ {Head(order)}
  BY <1>1, <1>2 DEF Range, IsInjective
<1>5. Range(order) \ {Head(order)} \subseteq Range(Tail(order))
  <2> SUFFICES ASSUME NEW i \in 1 .. Len(order), order[i] # order[1]
               PROVE  order[i] \in Range(Tail(order))
    BY <1>1 DEF Range
  <2>1. i - 1 \in 1 .. Len(order) - 1 /\ Tail(order)[i - 1] = order[i]
    <3>1. i # 1 /\ i \in Nat /\ Len(order) \in Nat /\ i >= 1 /\ i <= Len(order)
      BY <1>1
    <3>2. i - 1 \in 1 .. Len(order) - 1 /\ (i - 1) + 1 = i
      BY <3>1
    <3>3. PICK j \in 1 .. Len(order) - 1 : j = i - 1 /\ j + 1 = i
      BY <3>2
    <3>4. Tail(order)[j] = order[j + 1]
      BY <1>2
    <3> QED BY <3>3, <3>4
  <2> QED BY <2>1, <1>2 DEF Range
<1>6. Range(Tail(order)) = Range(order) \ {Head(order)}
  BY <1>4, <1>5
<1>7. Head(order) \in Range(order)
  BY <1>1 DEF Range
<1> QED BY <1>2, <1>3, <1>6, <1>7

\* Appending a key that is not yet listed keeps the order duplicate-free.
LEMMA AppendToOrder ==
  ASSUME NEW S, NEW order \in Seq(S), IsInjective(order),
         NEW x \in S, x \notin Range(order)
  PROVE  /\ Append(order, x) \in Seq(S)
         /\ Len(Append(order, x)) = Len(order) + 1
         /\ IsInjective(Append(order, x))
         /\ Range(Append(order, x)) = Range(order) \cup {x}
<1>1. /\ Len(order) \in Nat
      /\ DOMAIN order = 1 .. Len(order)
      /\ Append(order, x) \in Seq(S)
      /\ Len(Append(order, x)) = Len(order) + 1
      /\ DOMAIN Append(order, x) = 1 .. Len(order) + 1
      /\ \A i \in 1 .. Len(order) : Append(order, x)[i] = order[i]
      /\ Append(order, x)[Len(order) + 1] = x
  OBVIOUS
<1>2. \A i \in 1 .. Len(order) : order[i] # x
  BY <1>1 DEF Range
<1>3. IsInjective(Append(order, x))
  BY <1>1, <1>2 DEF IsInjective
<1>4. Range(Append(order, x)) = Range(order) \cup {x}
  <2>1. Range(Append(order, x)) \subseteq Range(order) \cup {x}
    BY <1>1 DEF Range
  <2>2. Range(order) \subseteq Range(Append(order, x))
    BY <1>1 DEF Range
  <2>3. x \in Range(Append(order, x))
    BY <1>1 DEF Range
  <2> QED BY <2>1, <2>2, <2>3
<1> QED BY <1>1, <1>3, <1>4

-----------------------------------------------------------------------------
(* The checks                                                              *)

\* The verdict of a runtime that remembers nothing, on a document it accepts.
LEMMA UncachedOk ==
  ASSUME NEW k \in Keys, NEW l \in LimitSets, NEW validate \in BOOLEAN,
         Within(k, l), validate /\ HasSchema => Facts[k].valid,
         CompileVerdict(k) = "ok"
  PROVE  Uncached(k, l, validate) = "ok"
BY FlagsAssumption DEF Uncached, CheckDocument, CompileVerdict, Within

\* When the request stage lets a document pass, the document is within the
\* request's limits, unless it does not even parse or name its operation.
LEMMA PassedMeansWithin ==
  ASSUME MemoryIsTrue, NEW k \in Keys, NEW isString \in BOOLEAN,
         NEW l \in LimitSets, NEW validate \in BOOLEAN,
         RequestErrors(k, isString, l, validate) = "ok"
  PROVE  /\ Within(k, l)
         /\ validate /\ HasSchema => Facts[k].valid
<1>0. l \in LimitSet
  BY LimitsAssumption
<1>1. CASE AlreadyLimited(k, isString, l)
  <2>1. limitSig[k] # None /\ Within(k, l)
    BY <1>1, NoneAssumption DEF AlreadyLimited, MemoryIsTrue
  <2>2. validate /\ HasSchema => Facts[k].valid
    BY <1>1 DEF RequestErrors, NeedValidate, CheckDocument, MemoryIsTrue
  <2> QED BY <2>1, <2>2
<1>2. CASE ~AlreadyLimited(k, isString, l)
  <2>1. validate /\ HasSchema => Facts[k].valid
    BY <1>2 DEF RequestErrors, NeedValidate, CheckDocument, MemoryIsTrue
  <2>2. l.allowIntrospection \/ ~Facts[k].introspects
    BY <1>2 DEF RequestErrors, NeedIntrospectionCheck, CheckDocument
  <2>3. CASE HasCaps(l)
    BY <2>1, <2>2, <2>3, <1>2, FlagsAssumption
       DEF RequestErrors, NeedLimits, CheckDocument, Within
  <2>4. CASE ~HasCaps(l)
    BY <2>1, <2>2, <2>4 DEF HasCaps, Within, Exceeds
  <2> QED BY <2>3, <2>4
<1> QED BY <1>1, <1>2

\* A refusal is the refusal a runtime that remembers nothing would give.
LEMMA RefusedAsUncached ==
  ASSUME MemoryIsTrue, NEW k \in Keys, NEW isString \in BOOLEAN,
         NEW l \in LimitSets, NEW validate \in BOOLEAN,
         RequestErrors(k, isString, l, validate) # "ok"
  PROVE  RequestErrors(k, isString, l, validate) = Uncached(k, l, validate)
<1>0. l \in LimitSet
  BY LimitsAssumption
<1> DEFINE limits == NeedLimits(k, isString, l)
           valid  == NeedValidate(k, isString, validate)
           intro  == NeedIntrospectionCheck(k, isString, l)
<1>1. RequestErrors(k, isString, l, validate) = CheckDocument(k, l, intro, limits, valid)
  BY DEF RequestErrors
<1>2. ~intro => l.allowIntrospection \/ ~Facts[k].introspects
  BY NoneAssumption DEF NeedIntrospectionCheck, AlreadyLimited, MemoryIsTrue, Within
<1>3. ~limits => \/ ~HasCaps(l)
                 \/ /\ ~Exceeds(Facts[k].depth, l.maxDepth)
                    /\ ~Exceeds(Facts[k].nodes, l.maxNodes)
                    /\ HasSchema => ~Exceeds(QueryCost(k, l), l.maxCost)
  BY NoneAssumption DEF NeedLimits, AlreadyLimited, MemoryIsTrue, Within
<1>4. ~valid => ~validate \/ Facts[k].valid
  BY DEF NeedValidate, MemoryIsTrue
<1>5. intro => ~l.allowIntrospection
  BY DEF NeedIntrospectionCheck
<1>6. limits => HasCaps(l)
  BY DEF NeedLimits
<1>7. valid => validate
  BY DEF NeedValidate
<1>8. CheckDocument(k, l, intro, limits, valid)
        = CheckDocument(k, l, ~l.allowIntrospection, HasCaps(l), validate)
  <2> HIDE DEF limits, valid, intro
  <2> QED BY <1>2, <1>3, <1>4, <1>5, <1>6, <1>7, FlagsAssumption DEF CheckDocument
<1> QED BY <1>1, <1>8 DEF Uncached

\* A document that passes the checks and fails to compile.
LEMMA UncompilableAsUncached ==
  ASSUME MemoryIsTrue, NEW k \in Keys, NEW isString \in BOOLEAN,
         NEW l \in LimitSets, NEW validate \in BOOLEAN,
         RequestErrors(k, isString, l, validate) = "ok"
  PROVE  CompileVerdict(k) = Uncached(k, l, validate)
<1>1. Within(k, l) /\ (validate /\ HasSchema => Facts[k].valid)
  BY PassedMeansWithin
<1> QED BY <1>1, FlagsAssumption
           DEF Uncached, CheckDocument, CompileVerdict, Within

-----------------------------------------------------------------------------
(* The program cache                                                       *)

\* The part of the state that compile_program touches.
ProgramCacheType ==
  /\ programCache \in [Keys -> Addresses \cup {None}]
  /\ programOrder \in Seq(Keys)
  /\ validated \subseteq Keys
  /\ limitSig \in [Keys -> LimitSets \cup {None}]

ProgramCacheInv == ProgramCacheType /\ ProgramCacheInStep /\ MemoryIsTrue

\* _store_program_cache: evict, then append.
LEMMA StoreProgramStep ==
  ASSUME ProgramCacheInv, NEW k \in Keys, NEW a \in Addresses,
         ~Cached(k), ProgramCacheMax > 0, CompileVerdict(k) = "ok",
         NEW now \in SUBSET Keys, \A x \in now : Facts[x].valid,
         NEW sig \in LimitSets \cup {None}, sig # None => Within(k, sig),
         StoreProgram(k, a, now, sig)
  PROVE  ProgramCacheInv'
<1> USE CacheMaxAssumption, NoneAssumption
<1>0. /\ ProgramCacheType
      /\ Range(programOrder) = {x \in Keys : Cached(x)}
      /\ IsInjective(programOrder)
      /\ Len(programOrder) \in Nat
      /\ Len(programOrder) <= ProgramCacheMax
      /\ \A x \in Keys : limitSig[x] # None => Cached(x)
  BY DEF ProgramCacheInv, ProgramCacheType, ProgramCacheInStep, OrderLists
<1>1. k \notin Range(programOrder)
  BY <1>0
<1>2. CASE ProgramEvicts
  <2> DEFINE evicted == Head(programOrder)
             rest == Tail(programOrder)
  <2>1. programOrder # <<>>
    BY <1>2, <1>0 DEF ProgramEvicts, ProgramCacheType
  <2>2. /\ evicted \in Range(programOrder)
        /\ rest \in Seq(Keys)
        /\ Len(rest) = Len(programOrder) - 1
        /\ IsInjective(rest)
        /\ Range(rest) = Range(programOrder) \ {evicted}
    BY <1>0, <2>1, EvictFromOrder DEF ProgramCacheType
  <2>3. evicted \in Keys /\ evicted # k
    BY <1>0, <1>1, <2>2
  <2> HIDE DEF evicted, rest
  <2>4. /\ programOrder' = Append(rest, k)
        /\ programCache' =
             [[programCache EXCEPT ![evicted] = None] EXCEPT ![k] = a]
        /\ validated' = now \ {evicted}
        /\ limitSig' =
             [[limitSig EXCEPT ![evicted] = None] EXCEPT ![k] = sig]
    BY <1>2 DEF StoreProgram, evicted, rest
  <2>5. /\ programOrder' \in Seq(Keys)
        /\ Len(programOrder') = Len(programOrder)
        /\ IsInjective(programOrder')
        /\ Range(programOrder') = (Range(programOrder) \ {evicted}) \cup {k}
    BY <2>2, <2>4, <1>1, <1>0, AppendToOrder
  <2>6. /\ programCache' \in [Keys -> Addresses \cup {None}]
        /\ \A x \in Keys : programCache'[x] =
             IF x = k THEN a ELSE IF x = evicted THEN None ELSE programCache[x]
        /\ limitSig' \in [Keys -> LimitSets \cup {None}]
        /\ \A x \in Keys : limitSig'[x] =
             IF x = k THEN sig ELSE IF x = evicted THEN None ELSE limitSig[x]
    BY <1>0, <2>3, <2>4 DEF ProgramCacheType
  <2>7. ProgramCacheType'
    BY <2>4, <2>5, <2>6 DEF ProgramCacheType
  <2>8. ProgramCacheInStep'
    <3>1. Range(programOrder') = {x \in Keys : Cached(x)'}
      BY <2>5, <2>6, <2>3, <1>0 DEF Cached
    <3>2. \A x \in Keys : limitSig'[x] # None => Cached(x)'
      BY <2>6, <1>0 DEF Cached
    <3> QED BY <3>1, <3>2, <2>5, <1>0 DEF ProgramCacheInStep, OrderLists
  <2>9. MemoryIsTrue'
    BY <2>4, <2>6 DEF ProgramCacheInv, MemoryIsTrue, Cached
  <2> QED BY <2>7, <2>8, <2>9 DEF ProgramCacheInv
<1>3. CASE ~ProgramEvicts
  <2>4. /\ programOrder' = Append(programOrder, k)
        /\ programCache' = [programCache EXCEPT ![k] = a]
        /\ validated' = now
        /\ limitSig' = [limitSig EXCEPT ![k] = sig]
    BY <1>3 DEF StoreProgram
  <2>5. /\ programOrder' \in Seq(Keys)
        /\ Len(programOrder') = Len(programOrder) + 1
        /\ IsInjective(programOrder')
        /\ Range(programOrder') = Range(programOrder) \cup {k}
    BY <2>4, <1>1, <1>0, AppendToOrder DEF ProgramCacheType
  <2>6. Len(programOrder') <= ProgramCacheMax
    BY <2>5, <1>0, <1>3 DEF ProgramEvicts
  <2>7. /\ programCache' \in [Keys -> Addresses \cup {None}]
        /\ \A x \in Keys :
             programCache'[x] = IF x = k THEN a ELSE programCache[x]
        /\ limitSig' \in [Keys -> LimitSets \cup {None}]
        /\ \A x \in Keys : limitSig'[x] = IF x = k THEN sig ELSE limitSig[x]
    BY <1>0, <2>4 DEF ProgramCacheType
  <2>8. ProgramCacheType'
    BY <2>4, <2>5, <2>7 DEF ProgramCacheType
  <2>9. ProgramCacheInStep'
    <3>1. Range(programOrder') = {x \in Keys : Cached(x)'}
      BY <2>5, <2>7, <1>0 DEF Cached
    <3>2. \A x \in Keys : limitSig'[x] # None => Cached(x)'
      BY <2>7, <1>0 DEF Cached
    <3> QED BY <3>1, <3>2, <2>5, <2>6 DEF ProgramCacheInStep, OrderLists
  <2>10. MemoryIsTrue'
    BY <2>4, <2>7 DEF ProgramCacheInv, MemoryIsTrue, Cached
  <2> QED BY <2>8, <2>9, <2>10 DEF ProgramCacheInv
<1> QED BY <1>2, <1>3

\* compile_program, whatever path it takes.
LEMMA CompileToStep ==
  ASSUME ProgramCacheInv, NEW k \in Keys, NEW a \in Addresses,
         NEW isString \in BOOLEAN,
         NEW now \in SUBSET Keys, \A x \in now : Facts[x].valid,
         NEW sig \in LimitSets \cup {None}, sig # None => Within(k, sig),
         CompileTo(k, isString, a, now, sig)
  PROVE  ProgramCacheInv' /\ CompileVerdict(k) = "ok"
<1>1. CASE UsesProgramCache(isString) /\ Cached(k)
  <2>1. /\ UNCHANGED <<programCache, programOrder>>
        /\ validated' = now
        /\ limitSig' = [limitSig EXCEPT ![k] = sig]
    BY <1>1 DEF CompileTo
  <2>2. CompileVerdict(k) = "ok"
    BY <1>1 DEF ProgramCacheInv, MemoryIsTrue
  <2>3. /\ limitSig' \in [Keys -> LimitSets \cup {None}]
        /\ \A x \in Keys : limitSig'[x] = IF x = k THEN sig ELSE limitSig[x]
    BY <2>1 DEF ProgramCacheInv, ProgramCacheType
  <2>4. ProgramCacheType'
    BY <2>1, <2>3 DEF ProgramCacheInv, ProgramCacheType
  <2>5. ProgramCacheInStep'
    BY <2>1, <2>3, <1>1
       DEF ProgramCacheInv, ProgramCacheInStep, OrderLists, Cached
  <2>6. MemoryIsTrue'
    BY <2>1, <2>3 DEF ProgramCacheInv, MemoryIsTrue, Cached
  <2> QED BY <2>2, <2>4, <2>5, <2>6 DEF ProgramCacheInv
<1>2. CASE ~(UsesProgramCache(isString) /\ Cached(k))
  <2>1. CompileVerdict(k) = "ok"
    BY <1>2 DEF CompileTo
  <2>2. CASE UsesProgramCache(isString)
    <3>1. StoreProgram(k, a, now, sig)
      BY <1>2, <2>2 DEF CompileTo
    <3>2. ~Cached(k) /\ ProgramCacheMax > 0
      BY <1>2, <2>2 DEF UsesProgramCache
    <3> QED BY <2>1, <3>1, <3>2, StoreProgramStep
  <2>3. CASE ~UsesProgramCache(isString)
    <3>1. /\ validated' = now
          /\ UNCHANGED <<programCache, programOrder, limitSig>>
      BY <1>2, <2>3 DEF CompileTo
    <3> QED BY <2>1, <3>1
            DEF ProgramCacheInv, ProgramCacheType, ProgramCacheInStep,
                OrderLists, MemoryIsTrue, Cached
  <2> QED BY <2>2, <2>3
<1> QED BY <1>1, <1>2

-----------------------------------------------------------------------------
(* The specialization cache                                                *)

SpecializedType ==
  /\ specCache \in [Entries -> Programs \cup {None}]
  /\ specOrder \in Seq(Entries)
  /\ running \in [Slots -> Executions \cup {None}]

SpecializedInv == SpecializedType /\ SpecializedCacheInStep

\* _cached_specialized_program's eviction and store keep its hash and order in step.
LEMMA StoreSpecializedStep ==
  ASSUME SpecializedInv, None \notin Programs,
         NEW a \in Addresses, NEW v \in Variables, NEW program \in Programs,
         specCache[Entry(a, v)] = None, StoreSpecialized(a, v, program)
  PROVE  /\ specCache' \in [Entries -> Programs \cup {None}]
         /\ specOrder' \in Seq(Entries)
         /\ SpecializedCacheInStep'
<1> USE CacheMaxAssumption
<1> DEFINE E == Entries
           e == Entry(a, v)
<1>0. /\ specCache \in [E -> Programs \cup {None}]
      /\ specOrder \in Seq(E)
      /\ Range(specOrder) = {x \in E : specCache[x] # None}
      /\ IsInjective(specOrder)
      /\ Len(specOrder) \in Nat
      /\ Len(specOrder) <= ProgramCacheMax \/ Len(specOrder) <= 1
      /\ e \in E /\ e \notin Range(specOrder)
  <2>1. e \in E
    BY VariablesAssumption DEF Entry, Entries
  <2> QED BY <2>1 DEF SpecializedInv, SpecializedType, SpecializedCacheInStep,
                      OrderLists
<1> HIDE DEF E
<1>2. CASE SpecializedEvicts
  <2> DEFINE evicted == Head(specOrder)
             rest == Tail(specOrder)
  <2>1. specOrder # <<>>
    BY <1>2 DEF SpecializedEvicts
  <2>2. /\ evicted \in Range(specOrder)
        /\ rest \in Seq(E)
        /\ Len(rest) = Len(specOrder) - 1
        /\ IsInjective(rest)
        /\ Range(rest) = Range(specOrder) \ {evicted}
    BY <1>0, <2>1, EvictFromOrder
  <2>3. evicted \in E /\ evicted # e
    BY <1>0, <2>2
  <2> HIDE DEF evicted, rest, e
  <2>4. /\ specOrder' = Append(rest, e)
        /\ specCache' =
             [[specCache EXCEPT ![evicted] = None] EXCEPT ![e] = program]
    BY <1>2 DEF StoreSpecialized, evicted, rest, e
  <2>5. /\ specOrder' \in Seq(E)
        /\ Len(specOrder') = Len(specOrder)
        /\ IsInjective(specOrder')
        /\ Range(specOrder') = (Range(specOrder) \ {evicted}) \cup {e}
    BY <2>2, <2>4, <1>0, AppendToOrder
  <2>6. /\ specCache' \in [E -> Programs \cup {None}]
        /\ \A x \in E : specCache'[x] =
             IF x = e THEN program
             ELSE IF x = evicted THEN None ELSE specCache[x]
    BY <1>0, <2>3, <2>4
  <2>7. Range(specOrder') = {x \in E : specCache'[x] # None}
    BY <2>5, <2>6, <2>3, <1>0
  <2> QED BY <2>5, <2>6, <2>7, <1>0
          DEF SpecializedCacheInStep, OrderLists, E
<1>3. CASE ~SpecializedEvicts
  <2> HIDE DEF e
  <2>4. /\ specOrder' = Append(specOrder, e)
        /\ specCache' = [specCache EXCEPT ![e] = program]
    BY <1>3 DEF StoreSpecialized, e
  <2>5. /\ specOrder' \in Seq(E)
        /\ Len(specOrder') = Len(specOrder) + 1
        /\ IsInjective(specOrder')
        /\ Range(specOrder') = Range(specOrder) \cup {e}
    BY <2>4, <1>0, AppendToOrder
  <2>6. Len(specOrder') <= ProgramCacheMax \/ Len(specOrder') <= 1
    BY <2>5, <1>0, <1>3 DEF SpecializedEvicts
  <2>7. /\ specCache' \in [E -> Programs \cup {None}]
        /\ \A x \in E :
             specCache'[x] = IF x = e THEN program ELSE specCache[x]
    BY <1>0, <2>4
  <2>8. Range(specOrder') = {x \in E : specCache'[x] # None}
    BY <2>5, <2>7, <1>0
  <2> QED BY <2>5, <2>6, <2>7, <2>8
          DEF SpecializedCacheInStep, OrderLists, E
<1> QED BY <1>2, <1>3

\* Choosing the program that runs keeps the specialization cache in step.
LEMMA RunProgramStep ==
  ASSUME SpecializedInv, None \notin Programs, NEW s \in Slots,
         NEW origin \in {"document", "caller"},
         NEW k \in Keys, NEW a \in Addresses, NEW v \in Variables,
         NEW opts \in OptionSets, RunProgram(s, origin, k, a, v, opts)
  PROVE  SpecializedInv'
<1> DEFINE made == [key |-> k, variables |-> v]
           hit  == UsesSpecialized(k, v, opts) /\ SpecializedHit(a, v)
           ran  == IF hit THEN specCache[Entry(a, v)] ELSE made
<1>1. made \in Programs
  BY DEF Programs
<1>2. ran \in Programs
  <2>1. Entry(a, v) \in Entries
    BY VariablesAssumption DEF Entry, Entries
  <2> QED BY <1>1, <2>1 DEF SpecializedInv, SpecializedType, SpecializedHit
<1>3. running' = [running EXCEPT ![s] =
        [origin |-> origin, program |-> k, variables |-> v, ran |-> ran]]
  BY DEF RunProgram
<1>4. running' \in [Slots -> Executions \cup {None}]
  <2> HIDE DEF ran
  <2> QED BY <1>2, <1>3 DEF SpecializedInv, SpecializedType, Executions
<1>5. CASE UsesSpecialized(k, v, opts) /\ ~hit /\ CachesSpecialized(v)
  <2>1. StoreSpecialized(a, v, made)
    BY <1>5 DEF RunProgram
  <2>2. specCache[Entry(a, v)] = None
    BY <1>5 DEF SpecializedHit
  <2> QED BY <1>1, <1>4, <2>1, <2>2, StoreSpecializedStep
          DEF SpecializedInv, SpecializedType
<1>6. CASE ~(UsesSpecialized(k, v, opts) /\ ~hit /\ CachesSpecialized(v))
  <2>1. UNCHANGED <<specCache, specOrder>>
    BY <1>6 DEF RunProgram
  <2> QED BY <1>4, <2>1
          DEF SpecializedInv, SpecializedType, SpecializedCacheInStep,
              OrderLists
<1> QED BY <1>5, <1>6

-----------------------------------------------------------------------------
(* The specification                                                       *)

HandleType == held \in [Slots -> Handles \cup {None}]

Inv ==
  ProgramCacheInv /\ SpecializedInv /\ HandleType
    /\ answer \in Answers \cup {None} /\ VerdictIsUncached

\* A new runtime satisfies the inductive invariant.
LEMMA InitInv == Init => Inv
<1> SUFFICES ASSUME Init PROVE Inv
  OBVIOUS
<1>1. ProgramCacheType /\ SpecializedType /\ HandleType
  BY DEF Init, ProgramCacheType, SpecializedType, HandleType
<1>2. Range(<<>>) = {} /\ IsInjective(<<>>) /\ Len(<<>>) = 0
  BY DEF Range, IsInjective
<1>3. ProgramCacheInStep
  BY <1>2, CacheMaxAssumption
     DEF Init, ProgramCacheInStep, OrderLists, Cached
<1>4. SpecializedCacheInStep
  BY <1>2, CacheMaxAssumption
     DEF Init, SpecializedCacheInStep, OrderLists
<1>5. MemoryIsTrue
  BY DEF Init, MemoryIsTrue, Cached
<1>6. answer \in Answers \cup {None} /\ VerdictIsUncached
  BY DEF Init, VerdictIsUncached
<1> QED BY <1>1, <1>3, <1>4, <1>5, <1>6
        DEF Inv, ProgramCacheInv, SpecializedInv

\* The verdict recorded by a request.
LEMMA AnswerStep ==
  ASSUME NEW k \in Keys, NEW l \in LimitSets, NEW validate \in BOOLEAN,
         NEW verdict \in Verdicts, verdict = Uncached(k, l, validate),
         Answer(k, l, validate, verdict)
  PROVE  (answer \in Answers \cup {None} /\ VerdictIsUncached)'
BY DEF Answer, Answers, VerdictIsUncached

\* The checks and the compiler answer with a verdict.
LEMMA VerdictTypes ==
  ASSUME NEW k \in Keys, NEW l \in LimitSets, NEW validate \in BOOLEAN,
         NEW isString \in BOOLEAN
  PROVE  /\ CompileVerdict(k) \in Verdicts
         /\ RequestErrors(k, isString, l, validate) \in Verdicts
BY DEF CompileVerdict, RequestErrors, CheckDocument, Verdicts

\* Starting a document request in a slot, after its program is compiled.
LEMMA StartDocumentStep ==
  ASSUME SpecializedInv, HandleType, NEW s \in Slots, NEW k \in Keys,
         NEW a \in Addresses, NEW v \in Variables, NEW opts \in OptionSets,
         StartDocument(s, k, a, v, opts)
  PROVE  SpecializedInv' /\ HandleType'
<1>1. CASE RunProgram(s, "document", k, a, v, opts)
           /\ held' = [held EXCEPT ![s] = [address |-> a, key |-> k]]
  <2>1. SpecializedInv'
    BY <1>1, RunProgramStep, NoneAssumption
  <2>2. HandleType'
    BY <1>1 DEF HandleType, Handles
  <2> QED BY <2>1, <2>2
<1>2. CASE CoercionFails(opts) /\ UNCHANGED held
  BY <1>2 DEF CoercionFails, SpecializedInv, SpecializedType,
              SpecializedCacheInStep, OrderLists, HandleType
<1> QED BY <1>1, <1>2 DEF StartDocument

\* Steps that leave the caches of documents, or of specializations, alone.
LEMMA ProgramCacheUnchanged ==
  ASSUME ProgramCacheInv, UNCHANGED Caches
  PROVE  ProgramCacheInv'
BY DEF Caches, ProgramCacheInv, ProgramCacheType, ProgramCacheInStep,
       OrderLists, MemoryIsTrue, Cached

\* A step that leaves the specialization cache alone preserves its invariant.
LEMMA SpecializedUnchanged ==
  ASSUME SpecializedInv, UNCHANGED <<specCache, specOrder, running>>
  PROVE  SpecializedInv'
BY DEF SpecializedInv, SpecializedType, SpecializedCacheInStep, OrderLists

\* A step that answers no request keeps no verdict.
LEMMA AnswerUnchanged ==
  ASSUME answer \in Answers \cup {None}, VerdictIsUncached,
         AnswersNothing \/ UNCHANGED answer
  PROVE  (answer \in Answers \cup {None} /\ VerdictIsUncached)'
BY DEF VerdictIsUncached, AnswersNothing

\* One request of a document preserves the invariant.
LEMMA ExecuteDocumentStep ==
  ASSUME Inv, NEW s \in Slots, NEW k \in Keys, NEW isString \in BOOLEAN,
         NEW l \in LimitSets, NEW validate \in BOOLEAN,
         ExecuteDocument(s, k, isString, l, validate)
  PROVE  Inv'
<1> USE DEF Inv
<1>0. MemoryIsTrue
  BY DEF ProgramCacheInv
<1>1. CASE RefusedRequest(s, k, isString, l, validate)
  <2>1. UNCHANGED <<Caches, specCache, specOrder, held, running>>
    BY <1>1 DEF RefusedRequest
  <2>2. (answer \in Answers \cup {None} /\ VerdictIsUncached)'
    BY <1>1, <1>0, RefusedAsUncached, VerdictTypes, AnswerStep DEF RefusedRequest
  <2> QED BY <2>1, <2>2, ProgramCacheUnchanged, SpecializedUnchanged
          DEF HandleType
<1>2. CASE UncompilableRequest(s, k, isString, l, validate)
  <2>1. UNCHANGED <<programCache, programOrder, limitSig, specCache,
                    specOrder, held, running>>
    BY <1>2 DEF UncompilableRequest
  <2>2. validated' \subseteq Keys /\ \A x \in validated' : Facts[x].valid
    BY <1>2, <1>0, PassedMeansWithin
       DEF UncompilableRequest, ValidatedAfter, NeedValidate, MemoryIsTrue,
           ProgramCacheInv, ProgramCacheType
  <2>3. ProgramCacheInv'
    BY <2>1, <2>2
       DEF ProgramCacheInv, ProgramCacheType, ProgramCacheInStep, OrderLists,
           MemoryIsTrue, Cached
  <2>4. (answer \in Answers \cup {None} /\ VerdictIsUncached)'
    BY <1>2, <1>0, UncompilableAsUncached, VerdictTypes, AnswerStep
       DEF UncompilableRequest
  <2> QED BY <2>1, <2>3, <2>4, SpecializedUnchanged DEF HandleType
<1>3. ASSUME NEW v \in Variables, NEW opts \in OptionSets,
             HotRequest(s, k, l, validate, v, opts)
      PROVE  Inv'
  <2>1. /\ programCache[k] \in Addresses
        /\ limitSig[k] = l /\ limitSig[k] # None
        /\ Cached(k)
        /\ validate => k \in validated
    BY <1>3, NoneAssumption
       DEF HotRequest, IsHot, Cached, ProgramCacheInv, ProgramCacheType
  <2>2. Within(k, l) /\ CompileVerdict(k) = "ok" /\ (validate => Facts[k].valid)
    BY <1>0, <2>1 DEF MemoryIsTrue
  <2>3. Uncached(k, l, validate) = "ok"
    BY <2>2, UncachedOk
  <2>4. (answer \in Answers \cup {None} /\ VerdictIsUncached)'
    BY <1>3, <2>3, AnswerStep DEF HotRequest, Verdicts
  <2>5. SpecializedInv' /\ HandleType'
    BY <1>3, <2>1, StartDocumentStep DEF HotRequest
  <2>6. ProgramCacheInv'
    BY <1>3, ProgramCacheUnchanged DEF HotRequest
  <2> QED BY <2>4, <2>5, <2>6
<1>4. ASSUME NEW v \in Variables, NEW opts \in OptionSets,
             AdmittedRequest(s, k, isString, l, validate, v, opts)
      PROVE  Inv'
  <2> DEFINE now == ValidatedAfter(k, isString, l, validate)
  <2>1. PICK a \in Addresses : /\ CompileTo(k, isString, a, now, l)
                               /\ StartDocument(s, k, a, v, opts)
    BY <1>4 DEF AdmittedRequest
  <2>2. Within(k, l) /\ (validate /\ HasSchema => Facts[k].valid)
    BY <1>4, <1>0, PassedMeansWithin DEF AdmittedRequest
  <2>3. now \in SUBSET Keys /\ \A x \in now : Facts[x].valid
    BY <1>0, <2>2
       DEF ValidatedAfter, NeedValidate, MemoryIsTrue, ProgramCacheInv,
           ProgramCacheType
  <2> HIDE DEF now
  <2>4. ProgramCacheInv' /\ CompileVerdict(k) = "ok"
    BY <2>1, <2>2, <2>3, CompileToStep
  <2>5. SpecializedInv' /\ HandleType'
    BY <2>1, StartDocumentStep
  <2>6. Uncached(k, l, validate) = "ok"
    BY <2>2, <2>4, UncachedOk
  <2>7. (answer \in Answers \cup {None} /\ VerdictIsUncached)'
    BY <1>4, <2>6, AnswerStep DEF AdmittedRequest, Verdicts
  <2> QED BY <2>4, <2>5, <2>7
<1> QED BY <1>1, <1>2, <1>3, <1>4 DEF ExecuteDocument

\* Every step preserves the invariant.
LEMMA NextInv == Inv /\ [Next]_vars => Inv'
<1> SUFFICES ASSUME Inv, [Next]_vars PROVE Inv'
  OBVIOUS
<1> USE DEF Inv
<1>1. ASSUME NEW s \in Slots, NEW k \in Keys, NEW isString \in BOOLEAN,
             NEW l \in LimitSets, NEW validate \in BOOLEAN,
             ExecuteDocument(s, k, isString, l, validate)
      PROVE  Inv'
  BY <1>1, ExecuteDocumentStep
<1>2. ASSUME NEW s \in Slots, NEW k \in Keys, NEW isString \in BOOLEAN,
             CompileProgram(s, k, isString)
      PROVE  Inv'
  <2>1. PICK a \in Addresses :
          /\ CompileTo(k, isString, a, validated, limitSig[k])
          /\ held' = [held EXCEPT ![s] = [address |-> a, key |-> k]]
    BY <1>2 DEF CompileProgram
  <2>2. /\ validated \in SUBSET Keys /\ \A x \in validated : Facts[x].valid
        /\ limitSig[k] \in LimitSets \cup {None}
        /\ limitSig[k] # None => Within(k, limitSig[k])
    BY DEF ProgramCacheInv, ProgramCacheType, MemoryIsTrue
  <2>3. ProgramCacheInv'
    BY <2>1, <2>2, CompileToStep
  <2>4. HandleType'
    BY <2>1 DEF HandleType, Handles
  <2> QED BY <1>2, <2>3, <2>4, SpecializedUnchanged, AnswerUnchanged
          DEF CompileProgram
<1>3. ASSUME NEW s \in Slots, NEW v \in Variables, NEW opts \in OptionSets,
             ExecuteProgram(s, v, opts)
      PROVE  Inv'
  <2>1. held[s].key \in Keys /\ held[s].address \in Addresses
    BY <1>3 DEF ExecuteProgram, HandleType, Handles
  <2>2. SpecializedInv'
    <3>1. CASE RunProgram(s, "caller", held[s].key, held[s].address, v, opts)
      BY <2>1, <3>1, RunProgramStep, NoneAssumption
    <3>2. CASE CoercionFails(opts)
      BY <3>2, SpecializedUnchanged DEF CoercionFails
    <3> QED BY <1>3, <3>1, <3>2 DEF ExecuteProgram
  <2> QED BY <1>3, <2>2, ProgramCacheUnchanged, AnswerUnchanged
          DEF ExecuteProgram, HandleType
<1>4. ASSUME NEW s \in Slots, FinishExecution(s)
      PROVE  Inv'
  <2>1. HandleType'
    BY <1>4 DEF FinishExecution, HandleType
  <2>2. SpecializedInv'
    BY <1>4 DEF FinishExecution, SpecializedInv, SpecializedType,
                SpecializedCacheInStep, OrderLists
  <2> QED BY <1>4, <2>1, <2>2, ProgramCacheUnchanged, AnswerUnchanged
          DEF FinishExecution
<1>5. ASSUME NEW s \in Slots, DropProgram(s)
      PROVE  Inv'
  <2>1. HandleType'
    BY <1>5 DEF DropProgram, HandleType
  <2> QED BY <1>5, <2>1, ProgramCacheUnchanged, SpecializedUnchanged,
             AnswerUnchanged DEF DropProgram
<1>6. CASE ClearProgramCache
  <2>0. Range(<<>>) = {} /\ IsInjective(<<>>) /\ Len(<<>>) = 0
    BY DEF Range, IsInjective
  <2>1. ProgramCacheInv'
    BY <1>6, <2>0, CacheMaxAssumption
       DEF ClearProgramCache, ProgramCacheInv, ProgramCacheType,
           ProgramCacheInStep, OrderLists, MemoryIsTrue, Cached
  <2>2. SpecializedInv'
    BY <1>6, <2>0, CacheMaxAssumption
       DEF ClearProgramCache, SpecializedInv, SpecializedType,
           SpecializedCacheInStep, OrderLists
  <2> QED BY <1>6, <2>1, <2>2, AnswerUnchanged DEF ClearProgramCache, HandleType
<1>7. CASE UNCHANGED vars
  BY <1>7, ProgramCacheUnchanged, SpecializedUnchanged, AnswerUnchanged
     DEF vars, Caches, HandleType
<1> QED BY <1>1, <1>2, <1>3, <1>4, <1>5, <1>6, <1>7 DEF Next

\* The inductive invariant holds in every reachable state.
LEMMA InvHolds == Spec => []Inv
BY InitInv, NextInv, PTL DEF Spec

\* The runtime's caches, orders and slots always hold what the code puts there.
THEOREM TypeCorrect == Spec => []TypeOK
<1>1. Inv => TypeOK
  BY DEF Inv, TypeOK, ProgramCacheInv, ProgramCacheType, SpecializedInv,
         SpecializedType, HandleType
<1> QED BY <1>1, InvHolds, PTL

\* What the runtime remembers about a document is true of the document.
THEOREM MemorySound == Spec => []MemoryIsTrue
<1>1. Inv => MemoryIsTrue
  BY DEF Inv, ProgramCacheInv
<1> QED BY <1>1, InvHolds, PTL

\* Caching never changes whether execute_document admits a request or why it
\* refuses it, for any history of requests, evictions and clears.
THEOREM CachesTransparent == Spec => []VerdictIsUncached
<1>1. Inv => VerdictIsUncached
  BY DEF Inv
<1> QED BY <1>1, InvHolds, PTL

\* The program cache never exceeds program_cache_max, the specialization cache
\* its maximum or one entry, and neither loses track of a key, whatever the
\* maximum is.
THEOREM CachesBounded == Spec => []CachesInStep
<1>1. Inv => ProgramCacheInStep
  BY DEF Inv, ProgramCacheInv
<1>2. Inv => SpecializedCacheInStep
  BY DEF Inv, SpecializedInv
<1>3. Inv => CachesInStep
  BY <1>1, <1>2 DEF CachesInStep
<1> QED BY <1>3, InvHolds, PTL

-----------------------------------------------------------------------------
(* Which program a specialization is of                                    *)

\* The program at an address, as a cache or a caller refers to it.
ProgramAt(a, k) ==
  \/ programCache[k] = a
  \/ \E s \in Slots : held[s] # None /\ held[s].address = a /\ held[s].key = k

\* An address holds one program, whatever the caches and the callers do.
OneProgram ==
  \A a \in Addresses, j, k \in Keys : ProgramAt(a, j) /\ ProgramAt(a, k) => j = k

\* A specialization is for variables whose key it is cached under, a key short
\* enough to be cached, and of a program whose shape variables can change.
SpecializedFor(p, x) ==
  /\ p.variables \in Variables \ {NoVariables}
  /\ VariablesKey[p.variables] = x
  /\ x \notin LongKeys
  /\ Facts[p.key].runtimeDirectives
SpecializedForKeys ==
  \A a \in Addresses, x \in VariablesKeys :
    specCache[<<a, x>>] # None => SpecializedFor(specCache[<<a, x>>], x)

\* The specializations at a live address are of the program that lives there.
OfItsProgram ==
  \A a \in Addresses, x \in VariablesKeys, k \in Keys :
    specCache[<<a, x>>] # None /\ ProgramAt(a, k) => specCache[<<a, x>>].key = k

\* A step that puts a program at an address finds no specialization there: what
\* the code would ensure if it dropped a program's specializations with it.
ReusesCleanly ==
  \A a \in Addresses : a \notin Live /\ a \in Live' =>
    \A x \in VariablesKeys : specCache[<<a, x>>] = None

\* No two variable hashes have one key: what _specialized_variables_cache_key
\* would ensure if it escaped what it joins.
KeysTellVariablesApart ==
  \A v, w \in Variables : SameKey(v, w) => v = w

\* What one step does to programs, specializations and executions.
PlacesOnFree ==
  \A a \in Addresses, k \in Keys :
    ProgramAt(a, k)' => ProgramAt(a, k) \/ a \notin Live
SpecializesLive ==
  \A a \in Addresses, x \in VariablesKeys :
    \/ specCache'[<<a, x>>] \in {specCache[<<a, x>>], None}
    \/ \E k \in Keys : /\ specCache'[<<a, x>>].key = k
                      /\ SpecializedFor(specCache'[<<a, x>>], x)
                      /\ ProgramAt(a, k)'
StartsFound(r, k, v) ==
  \E a \in Addresses :
    /\ ProgramAt(a, k)' /\ Facts[k].runtimeDirectives
    /\ v # NoVariables /\ CachesSpecialized(v)
    /\ specCache[Entry(a, v)] # None /\ r.ran = specCache[Entry(a, v)]
Starts(r, k, v) ==
  /\ r.program = k /\ r.variables = v
  /\ r.ran = [key |-> k, variables |-> v] \/ StartsFound(r, k, v)
StartsProgram ==
  \A s \in Slots :
    \/ running'[s] \in {running[s], None}
    \/ \E k \in Keys, v \in Variables : Starts(running'[s], k, v)
StepEffect ==
  PlacesOnFree /\ (OneProgram => OneProgram') /\ SpecializesLive /\ StartsProgram

\* A program that a cache or a caller refers to is at a live address.
LEMMA ProgramsAreLive ==
  ASSUME Inv, NEW a \in Addresses, NEW k \in Keys, ProgramAt(a, k)
  PROVE  a \in Live
BY DEF ProgramAt, Live

\* A step places at most one program, at the address where it is or a free one.
LEMMA PlacesOneProgram ==
  ASSUME Inv, NEW a \in Addresses, NEW k \in Keys,
         ProgramAt(a, k) \/ a \notin Live,
         \A j \in Keys : \/ programCache'[j] \in {programCache[j], None}
                         \/ j = k /\ programCache'[j] = a,
         \A s \in Slots : \/ held'[s] \in {held[s], None}
                          \/ held'[s] = [address |-> a, key |-> k]
  PROVE  PlacesOnFree /\ (OneProgram => OneProgram')
<1>1. ASSUME NEW b \in Addresses, NEW j \in Keys, ProgramAt(b, j)'
      PROVE  ProgramAt(b, j) \/ (b = a /\ j = k)
  <2>1. CASE programCache'[j] = b
    BY <2>1, NoneAssumption DEF ProgramAt
  <2>2. CASE \E s \in Slots :
               held'[s] # None /\ held'[s].address = b /\ held'[s].key = j
    <3>1. PICK s \in Slots :
            held'[s] # None /\ held'[s].address = b /\ held'[s].key = j
      BY <2>2
    <3>2. CASE held'[s] = held[s]
      BY <3>1, <3>2 DEF ProgramAt
    <3>3. CASE held'[s] = [address |-> a, key |-> k]
      BY <3>1, <3>3
    <3> QED BY <3>1, <3>2, <3>3
  <2> QED BY <1>1, <2>1, <2>2 DEF ProgramAt
<1>2. PlacesOnFree
  BY <1>1 DEF PlacesOnFree
<1>3. ASSUME OneProgram, NEW b \in Addresses, NEW i \in Keys, NEW j \in Keys,
             ProgramAt(b, i)', ProgramAt(b, j)'
      PROVE  i = j
  <2>1. ProgramAt(b, i) \/ (b = a /\ i = k)
    BY <1>1, <1>3
  <2>2. ProgramAt(b, j) \/ (b = a /\ j = k)
    BY <1>1, <1>3
  <2>3. ProgramAt(b, i) \/ ProgramAt(b, j) => b \in Live
    BY ProgramsAreLive
  <2> QED BY <1>3, <2>1, <2>2, <2>3 DEF OneProgram
<1> QED BY <1>2, <1>3 DEF OneProgram

\* A step that only drops programs places none.
LEMMA PlacesNoProgram ==
  ASSUME Inv,
         \A j \in Keys : programCache'[j] \in {programCache[j], None},
         \A s \in Slots : held'[s] \in {held[s], None}
  PROVE  PlacesOnFree /\ (OneProgram => OneProgram')
<1>1. ASSUME NEW b \in Addresses, NEW j \in Keys, ProgramAt(b, j)'
      PROVE  ProgramAt(b, j)
  BY <1>1, NoneAssumption DEF ProgramAt
<1> QED BY <1>1 DEF PlacesOnFree, OneProgram

\* compile_program finds the program at a, or puts it there.
LEMMA CompilesToOne ==
  ASSUME Inv, NEW k \in Keys, NEW a \in Addresses, NEW isString \in BOOLEAN,
         NEW now, NEW sig, CompileTo(k, isString, a, now, sig)
  PROVE  /\ ProgramAt(a, k) \/ a \notin Live
         /\ \A j \in Keys : \/ programCache'[j] \in {programCache[j], None}
                            \/ j = k /\ programCache'[j] = a
<1>0. programCache \in [Keys -> Addresses \cup {None}]
  BY DEF Inv, ProgramCacheInv, ProgramCacheType
<1>1. CASE UsesProgramCache(isString) /\ Cached(k)
  BY <1>1 DEF CompileTo, ProgramAt
<1>2. CASE ~(UsesProgramCache(isString) /\ Cached(k))
  <2>1. a \notin Live
    BY <1>2 DEF CompileTo, FreeAddresses
  <2>2. CASE UsesProgramCache(isString)
    <3>1. StoreProgram(k, a, now, sig)
      BY <1>2, <2>2 DEF CompileTo
    <3>2. \/ programCache' = [programCache EXCEPT ![k] = a]
          \/ programCache' =
               [[programCache EXCEPT ![Head(programOrder)] = None] EXCEPT ![k] = a]
      BY <3>1 DEF StoreProgram
    <3> QED BY <1>0, <2>1, <3>2
  <2>3. CASE ~UsesProgramCache(isString)
    BY <1>2, <2>1, <2>3 DEF CompileTo
  <2> QED BY <2>2, <2>3
<1> QED BY <1>1, <1>2

\* Choosing the program that runs: one made for the request, or the entry found
\* at the program's address; a new entry is of the program at that address.
LEMMA RunsOneProgram ==
  ASSUME Inv, NEW s \in Slots, NEW origin, NEW k \in Keys, NEW a \in Addresses,
         NEW v \in Variables, NEW opts \in OptionSets,
         RunProgram(s, origin, k, a, v, opts), ProgramAt(a, k)'
  PROVE  SpecializesLive /\ StartsProgram
<1> DEFINE made == [key |-> k, variables |-> v]
           hit  == UsesSpecialized(k, v, opts) /\ SpecializedHit(a, v)
           ran  == IF hit THEN specCache[Entry(a, v)] ELSE made
<1>0. /\ specCache \in [Entries -> Programs \cup {None}]
      /\ running \in [Slots -> Executions \cup {None}]
  BY DEF Inv, SpecializedInv, SpecializedType
<1>1. StartsProgram
  <2>1. running' = [running EXCEPT ![s] =
          [origin |-> origin, program |-> k, variables |-> v, ran |-> ran]]
    BY DEF RunProgram
  <2>2. ran = made \/ (/\ specCache[Entry(a, v)] # None
                       /\ ran = specCache[Entry(a, v)]
                       /\ Facts[k].runtimeDirectives
                       /\ v # NoVariables /\ CachesSpecialized(v))
    BY DEF UsesSpecialized, SpecializedHit
  <2> HIDE DEF ran, hit
  <2>3. running'[s] =
          [origin |-> origin, program |-> k, variables |-> v, ran |-> ran]
    BY <1>0, <2>1
  <2>4. \A t \in Slots : t # s => running'[t] = running[t]
    BY <1>0, <2>1
  <2>5. /\ running'[s].program = k /\ running'[s].variables = v
        /\ running'[s].ran = ran
    BY <2>3
  <2>6. Starts(running'[s], k, v)
    BY <2>2, <2>5 DEF Starts, StartsFound
  <2> QED BY <2>4, <2>6 DEF StartsProgram
<1>2. SpecializesLive
  <2>1. CASE UsesSpecialized(k, v, opts) /\ ~hit /\ CachesSpecialized(v)
    <3>1. StoreSpecialized(a, v, made)
      BY <2>1 DEF RunProgram
    <3>2. \/ specCache' = [specCache EXCEPT ![Entry(a, v)] = made]
          \/ specCache' = [[specCache EXCEPT ![Head(specOrder)] = None]
                             EXCEPT ![Entry(a, v)] = made]
      BY <3>1 DEF StoreSpecialized
    <3>3. SpecializedFor(made, VariablesKey[v])
      BY <2>1 DEF UsesSpecialized, CachesSpecialized, SpecializedFor
    <3>4. ASSUME NEW b \in Addresses, NEW x \in VariablesKeys
          PROVE  \/ specCache'[<<b, x>>] \in {specCache[<<b, x>>], None}
                 \/ b = a /\ x = VariablesKey[v] /\ specCache'[<<b, x>>] = made
      <4>1. <<b, x>> \in Entries
        BY DEF Entries
      <4>2. <<b, x>> = Entry(a, v) => b = a /\ x = VariablesKey[v]
        BY DEF Entry
      <4> QED BY <1>0, <3>2, <4>1, <4>2
    <3>5. made.key = k
      OBVIOUS
    <3> HIDE DEF made
    <3> QED BY <3>3, <3>4, <3>5 DEF SpecializesLive
  <2>2. CASE ~(UsesSpecialized(k, v, opts) /\ ~hit /\ CachesSpecialized(v))
    BY <2>2 DEF RunProgram, SpecializesLive
  <2> QED BY <2>1, <2>2
<1> QED BY <1>1, <1>2

\* A step that starts nothing and caches no specialization.
LEMMA RunsNothing ==
  ASSUME UNCHANGED specCache \/ specCache' = [e \in Entries |-> None],
         \A s \in Slots : running'[s] \in {running[s], None}
  PROVE  SpecializesLive /\ StartsProgram
BY DEF SpecializesLive, StartsProgram, Entries

\* A document request starts the program that was found or put at a.
LEMMA StartsOneProgram ==
  ASSUME Inv, NEW s \in Slots, NEW k \in Keys, NEW a \in Addresses,
         NEW v \in Variables, NEW opts \in OptionSets,
         ProgramAt(a, k) \/ a \notin Live,
         \A j \in Keys : \/ programCache'[j] \in {programCache[j], None}
                         \/ j = k /\ programCache'[j] = a,
         StartDocument(s, k, a, v, opts)
  PROVE  StepEffect
<1>0. HandleType
  BY DEF Inv
<1>1. \A t \in Slots : \/ held'[t] \in {held[t], None}
                       \/ held'[t] = [address |-> a, key |-> k]
  BY <1>0 DEF StartDocument, HandleType
<1>2. PlacesOnFree /\ (OneProgram => OneProgram')
  BY <1>1, PlacesOneProgram
<1>3. SpecializesLive /\ StartsProgram
  <2>1. CASE RunProgram(s, "document", k, a, v, opts)
             /\ held' = [held EXCEPT ![s] = [address |-> a, key |-> k]]
    <3>1. held'[s] = [address |-> a, key |-> k]
      BY <1>0, <2>1 DEF HandleType
    <3>2. held'[s] # None /\ held'[s].address = a /\ held'[s].key = k
      BY <3>1, NoneAssumption DEF Handles
    <3>3. ProgramAt(a, k)'
      BY <3>2 DEF ProgramAt
    <3> QED BY <2>1, <3>3, RunsOneProgram
  <2>2. CASE CoercionFails(opts) /\ UNCHANGED held
    BY <2>2, RunsNothing DEF CoercionFails
  <2> QED BY <2>1, <2>2 DEF StartDocument
<1> QED BY <1>2, <1>3 DEF StepEffect

\* What every step of the runtime does to programs and specializations.
LEMMA EveryStepEffect == Inv /\ [Next]_vars => StepEffect
<1> SUFFICES ASSUME Inv, [Next]_vars PROVE StepEffect
  OBVIOUS
<1>1. ASSUME NEW s \in Slots, NEW k \in Keys, NEW isString \in BOOLEAN,
             NEW l \in LimitSets, NEW validate \in BOOLEAN,
             ExecuteDocument(s, k, isString, l, validate)
      PROVE  StepEffect
  <2>1. CASE \/ RefusedRequest(s, k, isString, l, validate)
             \/ UncompilableRequest(s, k, isString, l, validate)
    <3>1. UNCHANGED <<programCache, specCache, held, running>>
      BY <2>1 DEF RefusedRequest, UncompilableRequest, Caches
    <3> QED BY <3>1, PlacesNoProgram, RunsNothing DEF StepEffect
  <2>2. ASSUME NEW v \in Variables, NEW opts \in OptionSets,
               HotRequest(s, k, l, validate, v, opts)
        PROVE  StepEffect
    <3>1. programCache[k] \in Addresses
      BY <2>2 DEF HotRequest, IsHot, Cached, Inv, ProgramCacheInv, ProgramCacheType
    <3>2. UNCHANGED programCache /\ StartDocument(s, k, programCache[k], v, opts)
      BY <2>2 DEF HotRequest, Caches
    <3>3. ProgramAt(programCache[k], k)
      BY DEF ProgramAt
    <3> QED BY <3>1, <3>2, <3>3, StartsOneProgram
  <2>3. ASSUME NEW v \in Variables, NEW opts \in OptionSets,
               AdmittedRequest(s, k, isString, l, validate, v, opts)
        PROVE  StepEffect
    <3>1. PICK a \in Addresses :
            /\ CompileTo(k, isString, a, ValidatedAfter(k, isString, l, validate), l)
            /\ StartDocument(s, k, a, v, opts)
      BY <2>3 DEF AdmittedRequest
    <3>2. /\ ProgramAt(a, k) \/ a \notin Live
          /\ \A j \in Keys : \/ programCache'[j] \in {programCache[j], None}
                             \/ j = k /\ programCache'[j] = a
      BY <3>1, CompilesToOne
    <3> QED BY <3>1, <3>2, StartsOneProgram
  <2> QED BY <1>1, <2>1, <2>2, <2>3 DEF ExecuteDocument
<1>2. ASSUME NEW s \in Slots, NEW k \in Keys, NEW isString \in BOOLEAN,
             CompileProgram(s, k, isString)
      PROVE  StepEffect
  <2>1. PICK a \in Addresses :
          /\ CompileTo(k, isString, a, validated, limitSig[k])
          /\ held' = [held EXCEPT ![s] = [address |-> a, key |-> k]]
    BY <1>2 DEF CompileProgram
  <2>2. \A t \in Slots : \/ held'[t] \in {held[t], None}
                         \/ held'[t] = [address |-> a, key |-> k]
    BY <2>1 DEF Inv, HandleType
  <2>3. PlacesOnFree /\ (OneProgram => OneProgram')
    BY <2>1, <2>2, CompilesToOne, PlacesOneProgram
  <2> QED BY <1>2, <2>3, RunsNothing DEF CompileProgram, StepEffect
<1>3. ASSUME NEW s \in Slots, NEW v \in Variables, NEW opts \in OptionSets,
             ExecuteProgram(s, v, opts)
      PROVE  StepEffect
  <2>1. UNCHANGED <<programCache, held>> /\ held[s] # None
    BY <1>3 DEF ExecuteProgram, Caches
  <2>2. PICK k \in Keys, a \in Addresses : held[s] = [address |-> a, key |-> k]
    BY <2>1 DEF Inv, HandleType, Handles
  <2>3. PlacesOnFree /\ (OneProgram => OneProgram')
    BY <2>1, PlacesNoProgram
  <2>4. ProgramAt(a, k)'
    BY <2>1, <2>2 DEF ProgramAt
  <2>5. SpecializesLive /\ StartsProgram
    <3>1. CASE RunProgram(s, "caller", k, a, v, opts)
      BY <2>4, <3>1, RunsOneProgram
    <3>2. CASE CoercionFails(opts)
      BY <3>2, RunsNothing DEF CoercionFails
    <3> QED BY <1>3, <2>2, <3>1, <3>2 DEF ExecuteProgram
  <2> QED BY <2>3, <2>5 DEF StepEffect
<1>4. ASSUME NEW s \in Slots, FinishExecution(s) \/ DropProgram(s)
      PROVE  StepEffect
  <2>1. UNCHANGED <<programCache, specCache>>
    BY <1>4 DEF FinishExecution, DropProgram, Caches
  <2>2. \A t \in Slots : held'[t] \in {held[t], None}
    BY <1>4 DEF FinishExecution, DropProgram, Inv, HandleType
  <2>3. \A t \in Slots : running'[t] \in {running[t], None}
    BY <1>4 DEF FinishExecution, DropProgram, Inv, SpecializedInv, SpecializedType
  <2> QED BY <2>1, <2>2, <2>3, PlacesNoProgram, RunsNothing DEF StepEffect
<1>5. CASE ClearProgramCache
  <2>1. PlacesOnFree /\ (OneProgram => OneProgram')
    BY <1>5, PlacesNoProgram DEF ClearProgramCache
  <2> QED BY <1>5, <2>1, RunsNothing DEF ClearProgramCache, StepEffect
<1>6. CASE UNCHANGED vars
  BY <1>6, PlacesNoProgram, RunsNothing DEF vars, StepEffect
<1> QED BY <1>1, <1>2, <1>3, <1>4, <1>5, <1>6 DEF Next

\* A specialization stays under a key of the variables it was made for.
LEMMA SpecializedForKeysStep ==
  ASSUME SpecializedForKeys, StepEffect
  PROVE  SpecializedForKeys'
<1> SUFFICES ASSUME NEW a \in Addresses, NEW x \in VariablesKeys,
                    specCache'[<<a, x>>] # None
             PROVE  SpecializedFor(specCache'[<<a, x>>], x)
  BY DEF SpecializedForKeys, SpecializedFor
<1>1. CASE specCache'[<<a, x>>] = specCache[<<a, x>>]
  BY <1>1 DEF SpecializedForKeys
<1>2. CASE SpecializedFor(specCache'[<<a, x>>], x)
  BY <1>2
<1> QED BY <1>1, <1>2 DEF StepEffect, SpecializesLive

\* What is found in the cache for a request is specialized for variables of its key.
LEMMA FoundForKey ==
  ASSUME SpecializedForKeys, NEW a \in Addresses, NEW v \in Variables,
         specCache[Entry(a, v)] # None
  PROVE  /\ SameKey(specCache[Entry(a, v)].variables, v)
         /\ specCache[Entry(a, v)].variables \in Variables \ {NoVariables}
         /\ Facts[specCache[Entry(a, v)].key].runtimeDirectives
<1>1. VariablesKey[v] \in VariablesKeys
  BY VariablesAssumption
<1>2. SpecializedFor(specCache[Entry(a, v)], VariablesKey[v])
  BY <1>1 DEF SpecializedForKeys, Entry
<1> QED BY <1>2 DEF SpecializedFor, SameKey

\* What RunsForItsVariablesKey says of one execution.
ForItsKey(r) ==
  /\ SameKey(r.ran.variables, r.variables)
  /\ \/ RunsAsAsked(r)
     \/ /\ Facts[r.ran.key].runtimeDirectives
        /\ Facts[r.program].runtimeDirectives
        /\ NoVariables \notin {r.ran.variables, r.variables}
        /\ CachesSpecialized(r.variables)

\* What starts runs for variables of the key of its request.
LEMMA RunsForItsVariablesKeyStep ==
  ASSUME SpecializedForKeys, RunsForItsVariablesKey, StepEffect
  PROVE  RunsForItsVariablesKey'
<1> SUFFICES ASSUME NEW s \in Slots, running'[s] # None
             PROVE  ForItsKey(running'[s])
  BY DEF RunsForItsVariablesKey, ForItsKey, RunsAsAsked, SameKey, CachesSpecialized
<1>1. CASE running'[s] = running[s]
  BY <1>1 DEF RunsForItsVariablesKey, ForItsKey
<1>2. ASSUME NEW k \in Keys, NEW v \in Variables, Starts(running'[s], k, v)
      PROVE  ForItsKey(running'[s])
  <2>1. running'[s].program = k /\ running'[s].variables = v
    BY <1>2 DEF Starts
  <2>2. CASE running'[s].ran = [key |-> k, variables |-> v]
    BY <2>1, <2>2 DEF ForItsKey, RunsAsAsked, SameKey
  <2>3. CASE StartsFound(running'[s], k, v)
    BY <2>1, <2>3, FoundForKey DEF StartsFound, ForItsKey
  <2> QED BY <1>2, <2>2, <2>3 DEF Starts
<1> QED BY <1>1, <1>2 DEF StepEffect, StartsProgram

\* When no step puts a program where specializations of another one are left,
\* what runs is the program asked for.
LEMMA CleanStep ==
  ASSUME Inv, SpecializedForKeys, OneProgram, OfItsProgram,
         RunsTheProgramAskedFor, StepEffect, ReusesCleanly
  PROVE  OfItsProgram' /\ RunsTheProgramAskedFor'
<1>0. \A a \in Addresses, k \in Keys : ProgramAt(a, k)' => a \in Live'
  BY DEF ProgramAt, Live
<1>1. ASSUME NEW a \in Addresses, NEW x \in VariablesKeys, NEW k \in Keys,
             specCache[<<a, x>>] # None, ProgramAt(a, k)'
      PROVE  ProgramAt(a, k)
  BY <1>0, <1>1 DEF StepEffect, PlacesOnFree, ReusesCleanly
<1>2. ASSUME NEW a \in Addresses, NEW x \in VariablesKeys, NEW k \in Keys,
             specCache'[<<a, x>>] # None, ProgramAt(a, k)'
      PROVE  specCache'[<<a, x>>].key = k
  <2>1. CASE specCache'[<<a, x>>] = specCache[<<a, x>>]
    <3>1. specCache[<<a, x>>] # None
      BY <1>2, <2>1
    <3>2. ProgramAt(a, k)
      BY <1>1, <1>2, <3>1
    <3> QED BY <2>1, <3>1, <3>2 DEF OfItsProgram
  <2>2. ASSUME NEW j \in Keys, ProgramAt(a, j)', specCache'[<<a, x>>].key = j
        PROVE  specCache'[<<a, x>>].key = k
    BY <1>2, <2>2 DEF StepEffect, OneProgram
  <2> QED BY <1>2, <2>1, <2>2 DEF StepEffect, SpecializesLive
<1> DEFINE AsAsked(r) == r.ran.key = r.program /\ SameKey(r.ran.variables, r.variables)
<1>3. ASSUME NEW s \in Slots, running'[s] # None
      PROVE  AsAsked(running'[s])
  <2>1. CASE running'[s] = running[s]
    BY <1>3, <2>1 DEF RunsTheProgramAskedFor
  <2>2. ASSUME NEW k \in Keys, NEW v \in Variables, Starts(running'[s], k, v)
        PROVE  AsAsked(running'[s])
    <3>1. running'[s].program = k /\ running'[s].variables = v
      BY <2>2 DEF Starts
    <3>2. CASE running'[s].ran = [key |-> k, variables |-> v]
      BY <3>1, <3>2 DEF SameKey
    <3>3. ASSUME NEW a \in Addresses, ProgramAt(a, k)',
                 specCache[Entry(a, v)] # None, running'[s].ran = specCache[Entry(a, v)]
          PROVE  AsAsked(running'[s])
      <4>1. VariablesKey[v] \in VariablesKeys
        BY VariablesAssumption
      <4>2. specCache[<<a, VariablesKey[v]>>] # None
        BY <3>3 DEF Entry
      <4>3. ProgramAt(a, k)
        BY <1>1, <3>3, <4>1, <4>2
      <4>4. specCache[Entry(a, v)].key = k
        BY <4>1, <4>2, <4>3 DEF OfItsProgram, Entry
      <4>5. SameKey(specCache[Entry(a, v)].variables, v)
        BY <3>3, FoundForKey
      <4> QED BY <3>1, <3>3, <4>4, <4>5
    <3> QED BY <2>2, <3>2, <3>3 DEF Starts, StartsFound
  <2> QED BY <1>3, <2>1, <2>2 DEF StepEffect, StartsProgram
<1>4. RunsTheProgramAskedFor'
  BY <1>3 DEF RunsTheProgramAskedFor, SameKey
<1> QED BY <1>2, <1>4 DEF OfItsProgram

\* What a hit of _cached_specialized_program may substitute, for every key function:
\* whatever addresses are reused and whatever keys collide, what runs was
\* specialized for variables of the request's key, and a program that variables do
\* not change, or a request without variables, is never given anything else.
THEOREM VariablesKeyHolds == Spec => []RunsForItsVariablesKey
<1>1. Init => SpecializedForKeys /\ RunsForItsVariablesKey
  BY DEF Init, SpecializedForKeys, RunsForItsVariablesKey, Entries
<1>2. Inv /\ SpecializedForKeys /\ RunsForItsVariablesKey /\ [Next]_vars
        => SpecializedForKeys' /\ RunsForItsVariablesKey'
  BY EveryStepEffect, SpecializedForKeysStep, RunsForItsVariablesKeyStep
<1> QED BY <1>1, <1>2, InvHolds, PTL DEF Spec

\* When no program comes to an address that still has cached specializations
\* (_cached_specialized_program's refaddr), what runs is the program asked for,
\* specialized for variables of the request's key.
THEOREM StaleOnlyByReuse ==
  Spec /\ [][ReusesCleanly]_vars => []RunsTheProgramAskedFor
<1> DEFINE Clean == /\ SpecializedForKeys /\ OneProgram /\ OfItsProgram
                    /\ RunsTheProgramAskedFor
<1>1. Init => Clean
  <2>1. Init => \A a \in Addresses, k \in Keys : ~ProgramAt(a, k)
    BY NoneAssumption DEF Init, ProgramAt
  <2> QED BY <2>1 DEF Init, SpecializedForKeys, OneProgram, OfItsProgram,
                      RunsTheProgramAskedFor, Entries
<1>2. Inv /\ Clean /\ [Next]_vars /\ [ReusesCleanly]_vars => Clean'
  <2> SUFFICES ASSUME Inv, Clean, [Next]_vars, [ReusesCleanly]_vars PROVE Clean'
    OBVIOUS
  <2>1. CASE ReusesCleanly
    BY <2>1, EveryStepEffect, SpecializedForKeysStep, CleanStep DEF StepEffect
  <2>2. CASE UNCHANGED vars
    BY <2>2 DEF vars, SpecializedForKeys, SpecializedFor, OneProgram, OfItsProgram,
                RunsTheProgramAskedFor, SameKey, ProgramAt
  <2> QED BY <2>1, <2>2
<1>3. Clean => RunsTheProgramAskedFor
  OBVIOUS
<1> QED BY <1>1, <1>2, <1>3, InvHolds, PTL DEF Spec

\* An execution that is typed, of the program asked for and for variables of the
\* request's key is exactly as asked once keys tell variables apart.
LEMMA KeysTellExecutionsApart ==
  ASSUME KeysTellVariablesApart, Inv, RunsTheProgramAskedFor,
         NEW s \in Slots, running[s] # None
  PROVE  RunsAsAsked(running[s])
<1>1. running[s] \in Executions
  BY DEF Inv, SpecializedInv, SpecializedType
<1>2. running[s].ran \in Programs /\ running[s].variables \in Variables
  BY <1>1 DEF Executions
<1>3. running[s].ran.variables \in Variables
  BY <1>2 DEF Programs
<1>4. running[s].ran.variables = running[s].variables
  BY <1>2, <1>3 DEF KeysTellVariablesApart, RunsTheProgramAskedFor
<1> QED BY <1>2, <1>4 DEF Programs, RunsTheProgramAskedFor, RunsAsAsked

\* The two causes are all there are: with keys that tell variables apart, and no
\* program at an address that still has cached specializations, every execution
\* runs exactly the program its request asked for, for the request's own variables.
THEOREM OnlyReuseAndCollision ==
  ASSUME KeysTellVariablesApart
  PROVE  Spec /\ [][ReusesCleanly]_vars
           => [](\A s \in Slots : running[s] # None => RunsAsAsked(running[s]))
<1>1. Inv /\ RunsTheProgramAskedFor
        => \A s \in Slots : running[s] # None => RunsAsAsked(running[s])
  BY KeysTellExecutionsApart
<1> QED BY <1>1, InvHolds, StaleOnlyByReuse, PTL

=============================================================================
