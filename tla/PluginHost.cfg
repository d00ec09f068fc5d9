SPECIFICATION Spec
CONSTANTS
  ranker = ranker
  colons = colons
  invalid = invalid
  embedder = embedder
  NoKey = NoKey
  NoListener = NoListener
  Keys <- MCKeys
  kindOf <- MCKind
  parsed <- MCParsed
  fault <- MCFault
  Batches <- MCBatches
  l1 = l1
  l2 = l2
  Listeners = {l1, l2}
  MaxEvents = 3
  MaxDepth = 2
  MaxAdded = 3
  MaxRuns = 1
SYMMETRY ListenerSymmetry
INVARIANTS
  TypeOK
  KindsAgree
  OldestKnowsRegistry
CHECK_DEADLOCK FALSE
