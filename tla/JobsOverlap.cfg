SPECIFICATION Spec
CONSTANTS
  j1 = j1
  j2 = j2
  j3 = j3
  b1 = b1
  b2 = b2
  r1 = r1
  Jobs = {j1, j2, j3}
  Batches = {b1, b2}
  Requests = {}
  NoJob = NoJob
  BatchSize = 2
  MayOverlap = TRUE
  Throws = {}
  MayStop = FALSE
  MayCrash = FALSE
PROPERTIES
  FollowsLifecycle
