SPECIFICATION Spec
CONSTANTS
  secret = secret
  wrong = wrong
  NoKey = NoKey
  Nothing = Nothing
  apiKey = secret
  Keys = {secret, wrong}
  PlanSizes = {2}
  QueryLimit = 1
  Enough = 2
  MaxSegments = 1
  MaxScore = 2
  consolidateEveryTurns = 2
  MaxTurns = 3
  Disturbed <- MCDisturbed
INVARIANTS
  TranscriptKept
  ConsolidationsPaced
  RecalledOnlyIfOvertaken
  ErrorsLeaveNoTrace
