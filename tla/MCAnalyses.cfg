SPECIFICATION Spec
CHECK_DEADLOCK FALSE
CONSTANTS
  MaxBlocks = 4
  MaxJumps = 2
  NumDefs = 2
  MaxUses = 3
INVARIANTS AllNumbered IdomsNearest FrontierExact LoopsNested PlacedSafely HoistedFromLoops
