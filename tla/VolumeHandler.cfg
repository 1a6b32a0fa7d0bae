CONSTANTS
  Wallets = {"v", "w"}
  MakerLists <- MCMakerLists
  Balances = {4999, 3000000, 3000001}
  Holdings = {0, 2}
  Proceeds = {10000, 1000000}
  Threshold = 3000000
  Reserve = 2100000
  Fee = 5000
  RentMin = 890880
SPECIFICATION FairSpec
INVARIANTS
  SalesCovered
PROPERTIES
  SalePaid
  SweepNeedsSale
  Drained
CHECK_DEADLOCK FALSE
