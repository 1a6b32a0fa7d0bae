CONSTANTS
  Kinds <- MCKinds
  QueueCap = 2
  ResultCap = 1
  MaxUpdates = 4
SPECIFICATION FairSpec
INVARIANTS
  TypeOK
  InOrder
  DeadOnlyByFatal
PROPERTIES
  ImplementsFeed
  EventuallyHandled
CHECK_DEADLOCK FALSE
