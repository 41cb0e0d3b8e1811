SPECIFICATION Spec
CONSTANTS
  drone = drone
  lead = lead
  MaxInstances = 2
  Blueprints = {drone, lead}
  CallbackCalls = {"spawn"}
  MaxSpawns = 5
  MaxDepth = 2
SYMMETRY BlueprintSymmetry
INVARIANTS
  EventsInOrder
PROPERTIES
  BatchIsReported
  ReplacementFits
