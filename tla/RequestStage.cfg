CONSTANTS
  v0 = v0
  v1 = v1
  v2 = v2
  vLong = vLong
  kPlain = kPlain
  kDeep = kDeep
  kIntro = kIntro
  kBroken = kBroken
  kInvalid = kInvalid
  a1 = a1
  a2 = a2
  a3 = a3
  kSubscription = kSubscription
  Keys = {kPlain, kDeep, kIntro, kInvalid, kSubscription, kBroken}
  Facts <- MCFacts
  OptionSets <- MCLaneOptions
  LimitSets <- MCLimitSets
  Variables = {v0, v1, v2, vLong}
  NoVariables = v0
  VariablesKeys = {v0, v1, vLong}
  VariablesKey <- MCVariablesKey
  LongKeys = {vLong}
  Slots = {s1}
  Addresses = {a1, a2}
  ProgramCacheMax = 1
  HasSchema = TRUE
  Async = FALSE
  None = None
SPECIFICATION Spec
INVARIANTS
  TypeOK
  VerdictIsUncached
  MemoryIsTrue
  CachesInStep
  RunsForItsVariablesKey
SYMMETRY AddressSymmetry
