SPECIFICATION Spec
CONSTANTS
  Waiter = {w1, w2}
  Waker = {k1}
  Ctrl = {1, 2, 3, 4, 5, 6, 7, 8, 9, 10, 11, 12, 13, 14, 15, 16}
  None = None
  Threshold = 1
SYMMETRY ThreadSymmetry
VIEW Shape
INVARIANTS
  TypeOK
  ListBounded
PROPERTY
  ImplementsWaitList
