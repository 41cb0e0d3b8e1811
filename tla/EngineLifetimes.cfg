SPECIFICATION FairSpec
CONSTANTS
  MaxInstances = 2
  GenMod = 4
  TelemetryCap = 2
  RouteCap = 1
  Policies <- MixedPolicies
  HostCalls = {"kill"}
  MayFinish = TRUE
  AgeBound = 2
  CommandBound = 2
  MaxSpawns = 2
INVARIANTS
  NoPlayingPastTheEnd
PROPERTIES
  KillTakesEffect
  EndedSlotsComeBack
  ImplementsLifecycle
