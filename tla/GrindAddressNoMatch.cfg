CONSTANTS
  Threads = {t1, t2}
  Possible = FALSE
SPECIFICATION FairSpec
PROPERTY
  RecvReturns
CHECK_DEADLOCK FALSE
