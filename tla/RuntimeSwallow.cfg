SPECIFICATION Spec
CONSTANTS
  drone = drone
  lead = lead
  MaxInstances = 2
  Blueprints = {drone, lead}
  CallbackCalls = {}
  MaxSpawns = 4
  MaxDepth = 1
INVARIANTS
  EveryEndIsReported
