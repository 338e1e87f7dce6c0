SPECIFICATION Spec
CONSTANTS
  Settings <- EveryMode
  Warmup = 1
  MaxRefinements = 0
INVARIANTS
  FailedTrialsAreMarked
