SPECIFICATION Spec
CONSTANTS
  v1 = v1
  v2 = v2
  v3 = v3
  v4 = v4
  v5 = v5
  Values = {v1, v2, v3, v4, v5}
  HashOf <- Neighbours
  StackCapacity = 1
  Sentinel = free
  MaxNodes = 5
  MaxRewrites = 2
INVARIANTS CurrentIsFound TwinsWereRewritten PureInsertSucceeds
CHECK_DEADLOCK FALSE
