---------------------------- MODULE RequestStage ----------------------------
(***************************************************************************)
(* The request stage of GraphQL::Houtou::Runtime::NativeRuntime: what      *)
(* happens to a query document between execute_document and the VM.        *)
(*                                                                         *)
(* The runtime object is shared by every request of the process and keeps  *)
(* four pieces of state: the FIFO program cache, the set of documents it   *)
(* has validated, the limit signature each cached document last passed,    *)
(* and the FIFO cache of programs specialized for a set of variables.      *)
(* Requests overlap: a resolver may run a request of its own, and an async *)
(* request stays in flight while others start and finish.                  *)
(*                                                                         *)
(* A document is abstracted to the facts the stage asks about it (Facts).  *)
(* A compiled program is abstracted to the key it was compiled for and     *)
(* the address of the Perl scalar that holds it: the specialization cache  *)
(* is keyed by that address and by the string that                         *)
(* _specialized_variables_cache_key makes of the variables.  The string    *)
(* joins user values with , and => unescaped, so VariablesKey is a         *)
(* function of the variables that may map two of them to one key.          *)
(***************************************************************************)
EXTENDS Integers, Sequences, Functions

CONSTANTS
  Keys,             \* (document, operationName) pairs a client may send
  Facts,            \* what parsing, checking and compiling a key finds
  LimitSets,        \* the limits requests are made under
  Variables,        \* prepared variable hashes
  NoVariables,      \* the empty one among them
  VariablesKeys,    \* the strings of _specialized_variables_cache_key
  VariablesKey,     \* the key of each variable hash: two may share one
  LongKeys,         \* the keys longer than 2048 characters
  OptionSets,       \* the execution options requests are made with
  Slots,            \* places where a caller holds a program it executes
  Addresses,        \* addresses of the Perl scalars that hold programs
  ProgramCacheMax,  \* program_cache_max
  HasSchema,        \* FALSE for a runtime inflated from a descriptor
  Async,            \* build_native_runtime(async => 1)
  None              \* a missing hash entry, an idle slot

Off == -1           \* an option that is undef

(***************************************************************************)
(* What the request stage can learn about a key.  cost depends on the      *)
(* assumed list size; introspects says a __schema or __type field occurs.  *)
(***************************************************************************)
FactSet ==
  [parses : BOOLEAN, selects : BOOLEAN, introspects : BOOLEAN,
   depth : Nat, nodes : Nat, cost : Nat, valid : BOOLEAN,
   compiles : BOOLEAN, runtimeDirectives : BOOLEAN]

LimitSet ==
  [maxDepth : Nat \cup {Off}, maxNodes : Nat \cup {Off},
   maxCost : Nat \cup {Off}, listSize : Nat \cup {Off},
   allowIntrospection : BOOLEAN]

\* onStall, strictSync: options of the request.  hasVariables: a variables
\* option was passed.  coerces: prepare_variables accepts them.
OptionSet == [onStall : BOOLEAN, strictSync : BOOLEAN, hasVariables : BOOLEAN,
              coerces : BOOLEAN]

\* A program, and the variables it was specialized for or runs with.
Programs == [key : Keys, variables : Variables]

\* A program as its caller keeps it.
Handles == [address : Addresses, key : Keys]

ASSUME FactsAssumption == Facts \in [Keys -> FactSet]
ASSUME LimitsAssumption == LimitSets \subseteq LimitSet
ASSUME OptionsAssumption == OptionSets \subseteq OptionSet
ASSUME CacheMaxAssumption == ProgramCacheMax \in Nat
ASSUME VariablesAssumption ==
  /\ NoVariables \in Variables
  /\ VariablesKey \in [Variables -> VariablesKeys]
  /\ LongKeys \subseteq VariablesKeys
ASSUME FlagsAssumption == HasSchema \in BOOLEAN /\ Async \in BOOLEAN
ASSUME NoneAssumption ==
  /\ None \notin Addresses /\ None \notin LimitSets
  /\ None \notin Programs /\ None \notin Handles

VARIABLES
  programCache,   \* _program_cache: key -> address of its program
  programOrder,   \* _program_cache_order
  validated,      \* _validated_documents
  limitSig,       \* _limit_signatures
  specCache,      \* _specialized_program_cache: <<address, key>> -> program
  specOrder,      \* _specialized_program_cache_order
  held,           \* the program a caller holds, per slot
  running,        \* the execution in flight in a slot
  answer          \* the verdict of a document request just made, else None

vars == <<programCache, programOrder, validated, limitSig, specCache,
          specOrder, held, running, answer>>

Caches == <<programCache, programOrder, validated, limitSig>>

Executions == [origin : {"document", "caller"}, program : Keys,
               variables : Variables, ran : Programs]
Verdicts == {"ok", "syntax", "operation", "introspection", "depth", "nodes",
             "cost", "validation", "compile"}

Answers ==
  [key : Keys, limits : LimitSets, validate : BOOLEAN, verdict : Verdicts]

Cached(k) == programCache[k] # None

-----------------------------------------------------------------------------
(* The checks of a document                                                *)

\* An undef cap (Off) never fails.
Exceeds(n, cap) == cap # Off /\ n > cap

HasCaps(l) == l.maxDepth # Off \/ l.maxNodes # Off \/ l.maxCost # Off

\* The assumed list size scales the cost of a list field.
QueryCost(k, l) == Facts[k].cost * (IF l.listSize = Off THEN 1 ELSE l.listSize)

\* parse() dies on a syntax error, _select_operation_ast on an unknown name;
\* then come the checks, the first that fails returning its errors.
CheckDocument(k, l, needIntrospection, needLimits, needValidate) ==
  IF ~Facts[k].parses THEN "syntax"
  ELSE IF ~Facts[k].selects THEN "operation"
  ELSE IF needIntrospection /\ Facts[k].introspects THEN "introspection"
  ELSE IF needLimits /\ Exceeds(Facts[k].depth, l.maxDepth) THEN "depth"
  ELSE IF needLimits /\ Exceeds(Facts[k].nodes, l.maxNodes) THEN "nodes"
  ELSE IF needLimits /\ HasSchema /\ Exceeds(QueryCost(k, l), l.maxCost)
    THEN "cost"
  ELSE IF needValidate /\ HasSchema /\ ~Facts[k].valid THEN "validation"
  ELSE "ok"

\* The runtime schema's compile_program, after parsing and selecting.
CompileVerdict(k) ==
  IF ~Facts[k].parses THEN "syntax"
  ELSE IF ~Facts[k].selects THEN "operation"
  ELSE IF ~Facts[k].compiles THEN "compile"
  ELSE "ok"

\* Mutant: any remembered signature will do.
AlreadyLimitedBySome(k, isString, l) == isString /\ limitSig[k] # None

AlreadyLimited(k, isString, l) == isString /\ limitSig[k] = l

NeedLimits(k, isString, l) == HasCaps(l) /\ ~AlreadyLimited(k, isString, l)
NeedValidate(k, isString, validate) ==
  validate /\ ~(isString /\ k \in validated)
NeedIntrospectionCheck(k, isString, l) ==
  ~l.allowIntrospection /\ ~AlreadyLimited(k, isString, l)

\* _document_request_errors: nothing needed, nothing parsed.
RequestErrors(k, isString, l, validate) ==
  LET limits == NeedLimits(k, isString, l)
      valid  == NeedValidate(k, isString, validate)
      intro  == NeedIntrospectionCheck(k, isString, l)
  IN  IF limits \/ valid \/ intro
      THEN CheckDocument(k, l, intro, limits, valid)
      ELSE "ok"

\* Mutant: a document is remembered whether or not it was validated.
ValidatedAlways(k, isString, l, validate) ==
  IF isString /\ ProgramCacheMax > 0 THEN validated \cup {k} ELSE validated

\* ... and the set of validated documents it leaves behind.
ValidatedAfter(k, isString, l, validate) ==
  IF /\ NeedValidate(k, isString, validate)
     /\ RequestErrors(k, isString, l, validate) = "ok"
     /\ HasSchema /\ isString /\ ProgramCacheMax > 0
  THEN validated \cup {k}
  ELSE validated

-----------------------------------------------------------------------------
(* Memory: a program lives while a cache or a caller refers to it.         *)

Live ==
  {programCache[k] : k \in Keys}
    \cup {held[s].address : s \in {t \in Slots : held[t] # None}}

\* The allocator may hand out any address no live program occupies.
FreeAddresses == Addresses \ Live

-----------------------------------------------------------------------------
(* execute_program: choosing the lane, and the specialization cache        *)

\* Only the synchronous lane specializes, and only a program whose shape the
\* variables change; without variables the program is used as it is.
UsesSpecialized(k, v, opts) ==
  /\ opts.strictSync \/ (opts.hasVariables /\ ~opts.onStall /\ ~Async)
  /\ Facts[k].runtimeDirectives
  /\ v # NoVariables

\* The key of a specialization: join q(|), refaddr, variables key.
Entry(a, v) == <<a, VariablesKey[v]>>
Entries == Addresses \X VariablesKeys

\* A key over 2048 characters is neither looked up nor stored.
CachesSpecialized(v) == VariablesKey[v] \notin LongKeys

SpecializedHit(a, v) ==
  CachesSpecialized(v) /\ specCache[Entry(a, v)] # None

\* The oldest entry goes when the cache is full.  With a maximum of 0 the first
\* shift finds nothing, and delete of an undef key changes nothing.
SpecializedEvicts == Len(specOrder) >= ProgramCacheMax /\ specOrder # <<>>

\* Mutant: the evicted key leaves the order but not the hash.
StoreSpecializedLeaks(a, v, program) ==
  /\ specCache' = [specCache EXCEPT ![Entry(a, v)] = program]
  /\ specOrder' = Append(IF SpecializedEvicts THEN Tail(specOrder)
                         ELSE specOrder, Entry(a, v))

StoreSpecialized(a, v, program) ==
  LET kept == IF SpecializedEvicts
              THEN [specCache EXCEPT ![Head(specOrder)] = None]
              ELSE specCache
      rest == IF SpecializedEvicts THEN Tail(specOrder) ELSE specOrder
  IN  /\ specCache' = [kept EXCEPT ![Entry(a, v)] = program]
      /\ specOrder' = Append(rest, Entry(a, v))

\* Mutant: the cache key names the program and not the variables.
RunProgramOfAddress(s, origin, k, a, v, opts) ==
  LET made  == [key |-> k, variables |-> v]
      found == {x \in VariablesKeys : specCache[<<a, x>>] # None}
      hit   == UsesSpecialized(k, v, opts) /\ found # {}
      ran   == IF hit THEN specCache[<<a, CHOOSE x \in found : TRUE>>] ELSE made
  IN  /\ opts.coerces
      /\ running' = [running EXCEPT ![s] =
           [origin |-> origin, program |-> k, variables |-> v, ran |-> ran]]
      /\ IF UsesSpecialized(k, v, opts) /\ ~hit /\ CachesSpecialized(v)
         THEN StoreSpecialized(a, v, made)
         ELSE UNCHANGED <<specCache, specOrder>>

\* The program that runs, for a program compiled for key k that lives at
\* address a: a specialized one found in the cache, or one made for v now.
RunProgram(s, origin, k, a, v, opts) ==
  LET made == [key |-> k, variables |-> v]
      hit  == UsesSpecialized(k, v, opts) /\ SpecializedHit(a, v)
      ran  == IF hit THEN specCache[Entry(a, v)] ELSE made
  IN  /\ opts.coerces
      /\ running' = [running EXCEPT ![s] =
           [origin |-> origin, program |-> k, variables |-> v, ran |-> ran]]
      /\ IF UsesSpecialized(k, v, opts) /\ ~hit /\ CachesSpecialized(v)
         THEN StoreSpecialized(a, v, made)
         ELSE UNCHANGED <<specCache, specOrder>>

\* Variable coercion raises a request error before anything runs.
CoercionFails(opts) ==
  ~opts.coerces /\ UNCHANGED <<running, specCache, specOrder>>

-----------------------------------------------------------------------------
(* compile_program                                                         *)

UsesProgramCache(isString) == isString /\ ProgramCacheMax > 0

ProgramEvicts == Len(programOrder) >= ProgramCacheMax

\* _store_program_cache; validatedNow and sig are what the request itself adds
\* to the validated set and records as the signature of a cached key.
StoreProgram(k, a, validatedNow, sig) ==
  LET evicted == Head(programOrder)
      forget(f, none) ==
        IF ProgramEvicts THEN [f EXCEPT ![evicted] = none] ELSE f
      rest == IF ProgramEvicts THEN Tail(programOrder) ELSE programOrder
  IN  /\ programCache' = [forget(programCache, None) EXCEPT ![k] = a]
      /\ programOrder' = Append(rest, k)
      /\ validated' =
           IF ProgramEvicts THEN validatedNow \ {evicted} ELSE validatedNow
      /\ limitSig' = [forget(limitSig, None) EXCEPT ![k] = sig]

\* The program for key k ends up at address a: the cached one, or a new one.
CompileTo(k, isString, a, validatedNow, sig) ==
  \/ /\ UsesProgramCache(isString) /\ Cached(k)
     /\ a = programCache[k]
     /\ validated' = validatedNow
     /\ limitSig' = [limitSig EXCEPT ![k] = sig]
     /\ UNCHANGED <<programCache, programOrder>>
  \/ /\ ~(UsesProgramCache(isString) /\ Cached(k))
     /\ CompileVerdict(k) = "ok"
     /\ a \in FreeAddresses
     /\ IF UsesProgramCache(isString)
        THEN StoreProgram(k, a, validatedNow, sig)
        ELSE /\ validated' = validatedNow
             /\ UNCHANGED <<programCache, programOrder, limitSig>>

-----------------------------------------------------------------------------
(* execute_document and execute_document_to_json                           *)

FreeSlot(s) == held[s] = None /\ running[s] = None

Answer(k, l, validate, verdict) ==
  answer' = [key |-> k, limits |-> l, validate |-> validate,
             verdict |-> verdict]

\* A step that is no document request: the last verdict is not kept.
AnswersNothing == answer' = None

\* Mutant: the hot path trusts the validated set alone.
IsHotUnchecked(k, isString, l, validate) == ~validate \/ k \in validated

IsHot(k, isString, l, validate) ==
  /\ UsesProgramCache(isString) /\ Cached(k)
  /\ limitSig[k] = l
  /\ ~validate \/ k \in validated

\* A document request keeps its program alive while it executes.
StartDocument(s, k, a, v, opts) ==
  \/ /\ RunProgram(s, "document", k, a, v, opts)
     /\ held' = [held EXCEPT ![s] = [address |-> a, key |-> k]]
  \/ CoercionFails(opts) /\ UNCHANGED held

\* Hot path: a cached program whose checks this runtime has already made.
HotRequest(s, k, l, validate, v, opts) ==
  /\ FreeSlot(s)
  /\ IsHot(k, TRUE, l, validate)
  /\ StartDocument(s, k, programCache[k], v, opts)
  /\ Answer(k, l, validate, "ok")
  /\ UNCHANGED Caches

\* Cold path, refused by a request-stage check: an errors-only envelope.
RefusedRequest(s, k, isString, l, validate) ==
  /\ FreeSlot(s)
  /\ ~IsHot(k, isString, l, validate)
  /\ RequestErrors(k, isString, l, validate) # "ok"
  /\ Answer(k, l, validate, RequestErrors(k, isString, l, validate))
  /\ UNCHANGED <<Caches, specCache, specOrder, held, running>>

\* Cold path, checks passed but the document does not compile.
UncompilableRequest(s, k, isString, l, validate) ==
  /\ FreeSlot(s)
  /\ ~IsHot(k, isString, l, validate)
  /\ RequestErrors(k, isString, l, validate) = "ok"
  /\ ~(UsesProgramCache(isString) /\ Cached(k))
  /\ CompileVerdict(k) # "ok"
  /\ validated' = ValidatedAfter(k, isString, l, validate)
  /\ Answer(k, l, validate, CompileVerdict(k))
  /\ UNCHANGED <<programCache, programOrder, limitSig, specCache, specOrder,
                 held, running>>

\* Cold path, admitted: compile, record the signature, execute.
AdmittedRequest(s, k, isString, l, validate, v, opts) ==
  /\ FreeSlot(s)
  /\ ~IsHot(k, isString, l, validate)
  /\ RequestErrors(k, isString, l, validate) = "ok"
  /\ \E a \in Addresses :
       /\ CompileTo(k, isString, a, ValidatedAfter(k, isString, l, validate), l)
       /\ StartDocument(s, k, a, v, opts)
  /\ Answer(k, l, validate, "ok")

-----------------------------------------------------------------------------
(* The rest of the runtime's interface                                     *)

\* A caller compiles a program itself and keeps it: nothing is checked.
CompileProgram(s, k, isString) ==
  /\ FreeSlot(s)
  /\ \E a \in Addresses :
       /\ CompileTo(k, isString, a, validated, limitSig[k])
       /\ held' = [held EXCEPT ![s] = [address |-> a, key |-> k]]
  /\ UNCHANGED <<specCache, specOrder, running>>
  /\ AnswersNothing

ExecuteProgram(s, v, opts) ==
  /\ held[s] # None /\ running[s] = None
  /\ \/ RunProgram(s, "caller", held[s].key, held[s].address, v, opts)
     \/ CoercionFails(opts)
  /\ UNCHANGED <<Caches, held>>
  /\ AnswersNothing

\* The execution returns, raises, or its promise settles.
FinishExecution(s) ==
  /\ running[s] # None
  /\ running' = [running EXCEPT ![s] = None]
  /\ held' = IF running[s].origin = "document"
             THEN [held EXCEPT ![s] = None]
             ELSE held
  /\ UNCHANGED <<Caches, specCache, specOrder>>
  /\ AnswersNothing

DropProgram(s) ==
  /\ held[s] # None /\ running[s] = None
  /\ held' = [held EXCEPT ![s] = None]
  /\ UNCHANGED <<Caches, specCache, specOrder, running>>
  /\ AnswersNothing

ClearProgramCache ==
  /\ programCache' = [k \in Keys |-> None]
  /\ programOrder' = <<>>
  /\ specCache' = [e \in Entries |-> None]
  /\ specOrder' = <<>>
  /\ validated' = {}
  /\ limitSig' = [k \in Keys |-> None]
  /\ UNCHANGED <<held, running>>
  /\ AnswersNothing

-----------------------------------------------------------------------------
Init ==
  /\ programCache = [k \in Keys |-> None]
  /\ programOrder = <<>>
  /\ validated = {}
  /\ limitSig = [k \in Keys |-> None]
  /\ specCache = [e \in Entries |-> None]
  /\ specOrder = <<>>
  /\ held = [s \in Slots |-> None]
  /\ running = [s \in Slots |-> None]
  /\ answer = None

ExecuteDocument(s, k, isString, l, validate) ==
  \/ RefusedRequest(s, k, isString, l, validate)
  \/ UncompilableRequest(s, k, isString, l, validate)
  \/ \E v \in Variables, opts \in OptionSets :
       \/ isString /\ HotRequest(s, k, l, validate, v, opts)
       \/ AdmittedRequest(s, k, isString, l, validate, v, opts)

Next ==
  \/ \E s \in Slots, k \in Keys, isString \in BOOLEAN :
       \/ \E l \in LimitSets, validate \in BOOLEAN :
            ExecuteDocument(s, k, isString, l, validate)
       \/ CompileProgram(s, k, isString)
  \/ \E s \in Slots, v \in Variables, opts \in OptionSets :
       ExecuteProgram(s, v, opts)
  \/ \E s \in Slots : FinishExecution(s) \/ DropProgram(s)
  \/ ClearProgramCache

Spec == Init /\ [][Next]_vars

-----------------------------------------------------------------------------
(* Properties                                                              *)

TypeOK ==
  /\ programCache \in [Keys -> Addresses \cup {None}]
  /\ programOrder \in Seq(Keys)
  /\ validated \subseteq Keys
  /\ limitSig \in [Keys -> LimitSets \cup {None}]
  /\ specCache \in [Entries -> Programs \cup {None}]
  /\ specOrder \in Seq(Entries)
  /\ held \in [Slots -> Handles \cup {None}]
  /\ running \in [Slots -> Executions \cup {None}]
  /\ answer \in Answers \cup {None}

\* The verdict a runtime with no memory gives a request: every check the
\* request asks for is made on the document, then it is compiled.
Uncached(k, l, validate) ==
  LET checked == CheckDocument(k, l, ~l.allowIntrospection, HasCaps(l), validate)
  IN  IF checked # "ok" THEN checked ELSE CompileVerdict(k)

\* The caches are transparent (_document_request_errors and the hot path of
\* execute_document): whatever was cached, validated, limited, evicted or
\* cleared before, a request is admitted or refused exactly as a runtime that
\* remembers nothing would, with the same kind of error.
VerdictIsUncached ==
  answer # None =>
    answer.verdict = Uncached(answer.key, answer.limits, answer.validate)

\* A key is within the limits l and their introspection policy.
Within(k, l) ==
  /\ l.allowIntrospection \/ ~Facts[k].introspects
  /\ ~Exceeds(Facts[k].depth, l.maxDepth)
  /\ ~Exceeds(Facts[k].nodes, l.maxNodes)
  /\ HasSchema => ~Exceeds(QueryCost(k, l), l.maxCost)

\* What the runtime remembers about a key is true of the key, so a check that
\* execute_document skips would have passed: a signature is of limits the
\* document is within, a validated document is valid, a cached one compiles.
MemoryIsTrue ==
  /\ \A k \in Keys : limitSig[k] # None => Within(k, limitSig[k])
  /\ \A k \in validated : Facts[k].valid
  /\ \A k \in Keys : Cached(k) => CompileVerdict(k) = "ok"

\* A FIFO order lists exactly the keys present in its hash, each once.
OrderLists(order, present) == Range(order) = present /\ IsInjective(order)

\* _store_program_cache and clear_program_cache keep the FIFO order and the
\* hash in step: the order lists each cached key once, and never more than
\* program_cache_max of them; signatures are kept for cached keys only.
ProgramCacheInStep ==
  /\ OrderLists(programOrder, {k \in Keys : Cached(k)})
  /\ Len(programOrder) <= ProgramCacheMax
  /\ \A k \in Keys : limitSig[k] # None => Cached(k)

\* _cached_specialized_program: the order and the hash of the specialization
\* cache agree and stay within the configured maximum, or one entry when the
\* maximum is 0.
SpecializedCacheInStep ==
  /\ OrderLists(specOrder, {e \in Entries : specCache[e] # None})
  /\ Len(specOrder) <= ProgramCacheMax \/ Len(specOrder) <= 1

\* Whatever is stored, evicted or cleared, and in whichever order requests reach
\* _store_program_cache and _cached_specialized_program, neither cache leaks a key
\* or loses one, at a maximum of zero or one as well.
CachesInStep == ProgramCacheInStep /\ SpecializedCacheInStep

\* "so the set stays bounded by the cache's eviction": a remembered document
\* is one the program cache holds.
ValidatedBoundedByCache == \A k \in validated : Cached(k)

\* Two variable hashes _specialized_variables_cache_key does not tell apart.
SameKey(v, w) == VariablesKey[v] = VariablesKey[w]

\* A specialized program is cached by (program identity, variables key): what
\* runs is the program asked for, specialized for variables of the request's key.
RunsTheProgramAskedFor ==
  \A s \in Slots : running[s] # None =>
    /\ running[s].ran.key = running[s].program
    /\ SameKey(running[s].ran.variables, running[s].variables)

\* Specialization is "per-variables": what runs was specialized for the variables
\* of the request and not for others that _specialized_variables_cache_key gives
\* the same string.
RunsForItsOwnVariables ==
  \A s \in Slots : running[s] # None =>
    running[s].ran.variables = running[s].variables

\* An execution that runs exactly what its request asked for.
RunsAsAsked(r) == r.ran = [key |-> r.program, variables |-> r.variables]

\* What a hit of _cached_specialized_program may substitute.  However addresses are
\* reused and whatever keys collide, what runs was specialized for variables of the
\* request's key; another program, or other variables, can take the request's place
\* only where the cache is consulted at all: both programs have runtime directives,
\* neither side is without variables, and the key is short enough to be cached.
RunsForItsVariablesKey ==
  \A s \in Slots : running[s] # None =>
    /\ SameKey(running[s].ran.variables, running[s].variables)
    /\ \/ RunsAsAsked(running[s])
       \/ /\ Facts[running[s].ran.key].runtimeDirectives
          /\ Facts[running[s].program].runtimeDirectives
          /\ NoVariables \notin {running[s].ran.variables, running[s].variables}
          /\ CachesSpecialized(running[s].variables)

=============================================================================
