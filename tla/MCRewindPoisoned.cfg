SPECIFICATION Spec
CONSTANTS
  Options <- TwoCases
  MaxPolls = 1
INVARIANTS
  CudaErrorIsPoisoned
