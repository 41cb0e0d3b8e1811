SPECIFICATION FairBlockSpec
CONSTANTS
  t1 = t1
  t2 = t2
  t3 = t3
  a = a
  b = b
  Threads = {t1, t2, t3}
  Values = {a, b}
  Capacity = 2
  MaxPushes = 6
  WeakCAS = FALSE
INVARIANTS
  CellIsExclusive
PROPERTIES
  TasksAreRun
