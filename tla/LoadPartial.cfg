SPECIFICATION LoadSpec
CONSTANTS
  Texts <- FaderTexts
  Documents = {}
  Blueprints = {}
  BlockSizes = {4}
  MaxCycles = 1
  TunedNodes = {}
  MaxTunings = 0
INVARIANTS
  ParametersFollow
CHECK_DEADLOCK FALSE
