CONSTANTS
  Requests <- MCRequests
  MergeDepth = 4
SPECIFICATION Spec
INVARIANTS
  AcceptedSelectionsRun
  AcceptedValuesCoerce
  ValidDocumentsAreAccepted
  CostLimitIsExact
  PossibleTypesAgree
