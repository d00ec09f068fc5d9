SPECIFICATION FairSpec
CONSTANTS
  j1 = j1
  j2 = j2
  j3 = j3
  b1 = b1
  b2 = b2
  r1 = r1
  Jobs = {j1, j2, j3}
  Batches = {b1, b2}
  Requests = {r1}
  NoJob = NoJob
  BatchSize = 2
  MayOverlap = FALSE
  Throws = {"work", "store"}
  MayStop = TRUE
  MayCrash = TRUE
INVARIANTS
  TypeOK
  OneHolder
  StrandedOnlyIfCutOff
  LogMatchesRecord
PROPERTIES
  FollowsLifecycle
  JobsFinish
