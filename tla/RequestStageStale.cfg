CONSTANTS
  v0 = v0
  v1 = v1
  v2 = v2
  vLong = vLong
  kPlain = kPlain
  kDeep = kDeep
  kIntro = kIntro
  kBroken = kBroken
  kInvalid = kInvalid
  kSubscription = kSubscription
  a1 = a1
  a2 = a2
  a3 = a3
  Keys = {kPlain, kDeep}
  Facts <- MCFacts
  OptionSets <- MCOneOption
  LimitSets <- MCNoLimits
  Variables = {v0, v1}
  NoVariables = v0
  VariablesKeys = {v0, v1}
  VariablesKey <- MCVariablesKey
  LongKeys = {}
  Slots = {s1}
  Addresses = {a1, a2, a3}
  ProgramCacheMax = 1
  HasSchema = TRUE
  Async = FALSE
  None = None
SPECIFICATION Spec
INVARIANTS
  RunsTheProgramAskedFor
SYMMETRY AddressSymmetry
