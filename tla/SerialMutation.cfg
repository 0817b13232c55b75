SPECIFICATION Spec
CONSTANTS
  Ops = 3
CHECK_DEADLOCK FALSE
INVARIANTS
  MutationFieldsWaitTheirTurn
