SPECIFICATION Spec
CONSTANTS
  Settings <- EveryMode
  Warmup = 1
  MaxRefinements = 1
INVARIANTS
  TypeOK
  RowsMeanWhatTheySay
  CompletedIsBalanced
  LaunchesAreNumbered
  ControlsAreCovered
