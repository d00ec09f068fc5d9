SPECIFICATION FairSpec
CONSTANTS
  e1 = e1
  e2 = e2
  a1 = a1
  c1 = c1
  Scopes <- OneScope
  Refs <- RefsTiny
  NoRef = NoRef
  Keys = {"k"}
  NoKey = "nokey"
  IngestCalls = {i1}
  TombstoneCalls = {t1}
  ConsolidateCalls = {m1}
  QueryCalls = {}
  Filters <- DefaultFilters
  MaxAtoms = 1
  Contradicts <- NoContradiction
  MaxTombstoneRefs = 1
  MaxRequests = 1
  MaxInFlight = 2
  MayFail = TRUE
PROPERTIES
  CallsFinish
CHECK_DEADLOCK FALSE
