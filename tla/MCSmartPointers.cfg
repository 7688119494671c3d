SPECIFICATION PointersSpec
CONSTANTS
  t1 = t1
  t2 = t2
  t3 = t3
  NoThread = NoThread
  Null = Null
  Thread = {t1, t2}
  Var = {1, 2}
  Addr = {1, 2, 3, 4, 5, 6, 7, 8, 9, 10, 11}
  MaxDepth = 0
  InitValue <- MCInitValue
  Alloc <- LeastFree
  Use <- FollowAndMaintain
  Payload = {1, 2, 3, 4, 5, 6, 7, 8, 9, 10, 11}
  Nothing = Nothing
  InitPayload <- MCInitPayload
  Target <- MCTarget
  MaxOwned = 1
  Calls <- FollowAndMaintainCalls
VIEW PointerShape
INVARIANTS
  PointersTypeOK
  NoLostUpdate
  BackEdgesHold
  UpgradesAtCommit
  SleepsOnlyWhileDead
CHECK_DEADLOCK FALSE
