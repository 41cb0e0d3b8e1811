SPECIFICATION Spec
CONSTANTS
  MaxInstances = 2
  GenMod = 5
  TelemetryCap = 2
  RouteCap = 1
  Policies <- PlainPolicies
  HostCalls = {"kill", "set_parameter"}
  MayFinish = TRUE
  AgeBound = 1
  CommandBound = 2
  MaxSpawns = 4
INVARIANTS
  TypeOK
  SlotOwnership
  ActiveConsistent
  ValidMeansNotReclaimed
  NoParameterCrossTalk
PROPERTIES
  ControlLeavesActiveAlone
  StaleKillsAreDropped
