SPECIFICATION Spec
CHECK_DEADLOCK FALSE
CONSTANTS
  MaxBlocks = 4
  NumDefs = 40
  Numbers = 4
  MaxSteps = 10
  Undefined = 99
  ElemTypes <- Types
  Sources <- Careful
  Inputs <- Parameters
INVARIANTS TypeOK PassesPreserve EmittedFollows
