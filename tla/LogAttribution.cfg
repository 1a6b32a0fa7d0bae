CONSTANTS
  clmm = clmm
  cpmm = cpmm
  other = other
  Programs <- MCPrograms
  Payloads = {"clmm_swap", "cpmm_swap", "short"}
  LogTexts = {"plain", "success"}
  LogWord = LogWord
  Unknown = Unknown
  MaxDepth = 3
  MaxLines = 7
  Reading <- MCReading
SPECIFICATION DecodingSpec
INVARIANTS
  StackMirrorsCalls
  AttributionExact
  NoCarryOver
  BatchExact
  OnlyOwnShortKills
CHECK_DEADLOCK FALSE
