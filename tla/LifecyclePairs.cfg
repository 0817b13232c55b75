SPECIFICATION Spec
CONSTANTS
  r1 = r1
  r2 = r2
  l1 = l1
  NoRequest = NoRequest
  Requests = {r1, r2}
  ModeChoices <- MCModeChoices
  PromiseFields = 2
  Lists = {l1}
  Waves <- MCWaves
  PoolMax = 2
  DyingHooks = {"c"}
CHECK_DEADLOCK FALSE
INVARIANTS WaitingEntriesStayArmed
