CONSTANTS
  AccountLists <- MCAccountLists
  MaxBundle = 5
  Valid = 1
  MaxBlock = 3
SPECIFICATION Spec
INVARIANT
  EveryBundleTips
CHECK_DEADLOCK FALSE
