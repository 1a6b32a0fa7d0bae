CONSTANTS
  InitialTokens = 24
  InitialSol = 9
  InitialReal = 18
  Supply = 30
  FEE_BASIS_POINTS = 2000
  CREATOR_FEE = 500
  Slippage = 2500
  Amounts = {4, 7}
  Lots = {1, 5}
  Scale = 100
  MaxSol = 40
  Word = 16384
SPECIFICATION Spec
INVARIANTS
  TypeOK
  Solvent
  QuoteHonoured
  NoRoundTripGain
  QuotesAgree
  LaunchIsCheapest
  FinalCapIsReached
PROPERTIES
  CapFailsForGood
CHECK_DEADLOCK FALSE
