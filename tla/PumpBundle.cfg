CONSTANTS
  AccountLists <- MCAccountLists
  MaxBundle = 5
  Valid = 1
  MaxBlock = 3
SPECIFICATION Spec
INVARIANTS
  BundleComplete
  StatusIsOfLanded
  ReturnsHanded
PROPERTY
  ExpiredIsLost
CHECK_DEADLOCK FALSE
