SPECIFICATION LoadSpec
CONSTANTS
  Texts <- SmallTexts
  Documents <- SmallDocuments
  Blueprints <- InstanceBlueprints
  BlockSizes = {4}
  MaxCycles = 2
  TunedNodes = {3}
  MaxTunings = 1
INVARIANTS
  NothingIsMisread
  DamageIsContained
  LoweringIsFaithful
  RefusesTheIllFormed
  AcceptsTheConsistent
  LayoutIsDisjoint
  ReadsAreFresh
  InputsAreReadOnce
  OutputsAreComplete
  PlaysItsDiagram
  ReloadIsExact
  AcceptedIsDescribed
PROPERTIES
  PortsGlide
CHECK_DEADLOCK FALSE
