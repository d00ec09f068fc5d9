SPECIFICATION FairSpec
CONSTANTS
  Events <- MCEvents
  NoEvent = NoEvent
  Readers <- MCReaders
  readerScope <- MCScope
  eventTypes <- MCTypes
INVARIANTS
  TypeOK
  ResumesInOrder
  GapsOnlyFromOverlap
PROPERTIES
  InMemoryFeed
  EventsArrive
CHECK_DEADLOCK FALSE
