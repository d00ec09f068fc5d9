SPECIFICATION Spec
CONSTANTS
  e1 = e1
  e2 = e2
  a1 = a1
  c1 = c1
  Scopes <- OneScope
  Refs <- RefsTiny
  NoRef = NoRef
  Keys = {"k"}
  NoKey = "nokey"
  IngestCalls = {i1}
  TombstoneCalls = {}
  ConsolidateCalls = {}
  QueryCalls = {}
  Filters <- DefaultFilters
  MaxAtoms = 1
  Contradicts <- NoContradiction
  MaxTombstoneRefs = 1
  MaxRequests = 2
  MaxInFlight = 1
  MayFail = TRUE
INVARIANTS
  AnsweredIsIndexed
CHECK_DEADLOCK FALSE
