CONSTANTS
  Balances = {0, 6, 20}
  Amounts = {1, 5, 9}
  MaxFee = 1
  MaxBalance = 60
  MaxTrades = 3
SPECIFICATION Spec
INVARIANTS
  TypeOK
  QuoteExact
  TornBounded
CHECK_DEADLOCK FALSE
