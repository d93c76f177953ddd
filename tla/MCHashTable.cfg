SPECIFICATION Spec
CONSTANTS
  k1 = k1
  k2 = k2
  k3 = k3
  k4 = k4
  k5 = k5
  Keys = {k1, k2, k3, k4, k5}
  HashOf <- Colliding
  StackCapacity = 1
  Sentinel = free
INVARIANTS TypeOK ProbingEnds RobinHoodOrder
PROPERTY ImplementsSet
