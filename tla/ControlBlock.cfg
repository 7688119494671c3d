SPECIFICATION FairSpec
CONSTANTS
  Waker = {w1, w2, w3}
  Rounds = 3
INVARIANTS
  TypeOK
  NoMissedUnpark
  WakesOnce
PROPERTY
  ImplementsLatch
CHECK_DEADLOCK FALSE
