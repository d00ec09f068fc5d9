SPECIFICATION Spec
CONSTANTS
  Objects <- MCObjects
  sources <- MCSources
  tokens <- MCTokens
  AssembleRequests <- MCRequests
  Unset = Unset
  MaxWritten = 1
INVARIANTS
  TypeOK
  BudgetKept
  TruncationReported
  ContextConforms
  ConcernsReported
  DeletedNotAssembled
