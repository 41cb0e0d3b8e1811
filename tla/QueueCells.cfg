SPECIFICATION Spec
CONSTANTS
  t1 = t1
  t2 = t2
  a = a
  b = b
  Threads = {t1, t2}
  Values = {a, b}
  Capacity = 2
  MaxPushes = 5
  WeakCAS = TRUE
PROPERTIES
  OnlyFullRefuses
  ImplementsFifo
  NeverWaitsForOthers
