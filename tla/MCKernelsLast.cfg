SPECIFICATION Spec
CONSTANTS
  NumKernels = 3
  Channels = {a, b}
  MaxOps = 2
  NumArgs <- ArgsOfKernels
INVARIANTS AllRanOnce

CHECK_DEADLOCK FALSE
