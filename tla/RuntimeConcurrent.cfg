SPECIFICATION Spec
CONSTANTS
  e1 = e1
  e2 = e2
  a1 = a1
  c1 = c1
  Scopes <- OneScope
  Refs <- RefsSmall
  NoRef = NoRef
  Keys = {}
  NoKey = "nokey"
  IngestCalls = {i1}
  TombstoneCalls = {t1}
  ConsolidateCalls = {m1}
  QueryCalls = {}
  Filters <- DefaultFilters
  MaxAtoms = 1
  Contradicts <- Contradictions
  MaxTombstoneRefs = 1
  MaxRequests = 1
  MaxInFlight = 2
  MayFail = FALSE
SYMMETRY IdSymmetry
INVARIANTS
  TypeOK
  StatusForCause
  ProvenanceIntact
  OneLevelProvenance
  CreatedIsIndexed
PROPERTIES
  NeverReactivated
CHECK_DEADLOCK FALSE
