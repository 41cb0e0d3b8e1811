SPECIFICATION FairSpec
CONSTANTS
  w1 = w1
  w2 = w2
  Slots = {0, 1, 2}
  Workers = {w1, w2}
  Graphs <- SpawnedInto
  AloneGraphs <- AnyGraph
  Backend = "offline"
INVARIANTS
  InputsComplete
  BarrierHolds
  OrderIsPermutation
PROPERTIES
  StopReturns
  ImplementsBlock
