SPECIFICATION Spec
CONSTANTS
  t1 = t1
  t2 = t2
  t3 = t3
  NoThread = NoThread
  Null = Null
  Thread = {t1, t2, t3}
  Var = {1, 2}
  Addr = {1, 2, 3, 4, 5, 6, 7, 8, 9, 10, 11, 12}
  MaxDepth = 0
  InitValue <- MCInitValue
  Alloc <- LeastFree
  Use <- WaitThree
VIEW Shape
INVARIANTS
  NoLostWakeUp
  WaitsForAllReads
  LeavesNoTrace
PROPERTIES
  UsesWaitLists
  UsesLatches
CHECK_DEADLOCK FALSE
