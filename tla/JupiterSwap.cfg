CONSTANTS
  Quotes <- MCQuotes
  Configs <- MCConfigs
  FeeBps = 100
  Word = 4000000
  MaxParts = 1
SPECIFICATION Spec
INVARIANTS
  FeeConserved
  RoundingBounded
PROPERTY
  SplitNeverPanics
CHECK_DEADLOCK FALSE
