SPECIFICATION Spec
CONSTANTS
  MaxGid = 11
  MaxArgs = 1
  MaxParams = 1
INVARIANTS
  TypeOK
  UsesPointBack
  OpsAreRegistered
  GidsContiguous
  DepCoversOps
  Unified
  InlinableBodyUnshared
CHECK_DEADLOCK FALSE
