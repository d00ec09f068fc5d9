SPECIFICATION Spec
CONSTANTS
  Scopes <- MCScopes
  IngestScopes <- MCIngestScopes
  Refs <- MCRefs
  NoRef = NoRef
  Limit = 1
INVARIANTS
  TypeOK
  ListFindsNothing
  SearchIsComplete
  DeletedStaysHidden
