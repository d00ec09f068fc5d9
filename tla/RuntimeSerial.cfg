SPECIFICATION Spec
CONSTANTS
  e1 = e1
  e2 = e2
  a1 = a1
  c1 = c1
  Scopes <- TwoScopes
  Refs <- RefsNested
  NoRef = NoRef
  Keys = {"k"}
  NoKey = "nokey"
  IngestCalls = {i1}
  TombstoneCalls = {t1}
  ConsolidateCalls = {m1}
  QueryCalls = {q1}
  Filters <- AllFilters
  MaxAtoms = 1
  Contradicts <- NoContradiction
  MaxTombstoneRefs = 2
  MaxRequests = 2
  MaxInFlight = 1
  MayFail = FALSE
SYMMETRY IdSymmetry
INVARIANTS
  OneEpisodePerKey
  CascadeReachesScope
  DeletedStaysHidden
  IndexIsExact
PROPERTIES
  TombstoneIsFinal
CHECK_DEADLOCK FALSE
