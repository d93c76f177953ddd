SPECIFICATION Spec
CONSTANTS
  NumKernels = 3
  Channels = {a, b}
  MaxOps = 2
  NumArgs <- ArgsOfKernels
INVARIANTS ResolvedInOrder RejectsCircles NeverStarves ArgsArrive AllOrNone
PROPERTIES RunsToTheEnd

CHECK_DEADLOCK FALSE
