SPECIFICATION Spec
CONSTANTS
  MaxInstances = 2
  GenMod = 4
  TelemetryCap = 2
  RouteCap = 2
  Policies <- Endless
  HostCalls = {"kill", "connect", "disconnect"}
  MayFinish = FALSE
  AgeBound = 1
  CommandBound = 2
  MaxSpawns = 3
INVARIANTS
  RoutesJoinLiveVoices
