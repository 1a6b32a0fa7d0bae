CONSTANTS
  Programs = {pump, orca}
  Payloads = {d1}
  LogTexts = {"plain", "invoke"}
  LogWord = LogWord
  Unknown = Unknown
  MaxDepth = 2
  MaxLines = 6
SPECIFICATION Spec
INVARIANT AttributionExact
