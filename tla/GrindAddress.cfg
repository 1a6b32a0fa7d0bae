CONSTANTS
  Threads = {t1, t2, t3}
  Possible = TRUE
SPECIFICATION FairSpec
INVARIANTS
  NeverDisconnected
  SentOnce
PROPERTIES
  RecvReturns
  EventuallyQuiet
CHECK_DEADLOCK FALSE
