SPECIFICATION Spec
CONSTANTS
  IntMin <- MCIntMin
  IntMax = 7
  CoerceVariable <- PrepareVariable
  CoerceArgument <- ArgumentSv
  FoldPlan <- Sweep
  KeyOrder <- MCKeyOrder
  Documents <- MCDocuments
  Schema <- MCSchema
  Runtimes = {r1, r2}
  Variables <- MCVariables
  EditingSlots = {1, 2, 3}
  MaxGeneration = 6
  FieldTypes <- MCFieldTypes
  PossibleTypes <- MCPossibleTypes
  Fragments <- MCFragments
INVARIANTS
  KeysTellPayloadsApart
CHECK_DEADLOCK FALSE
