SPECIFICATION Spec
CONSTANTS
  Options <- TwoCases
  MaxPolls = 1
INVARIANTS
  TypeOK
  ClassesAreTrue
  ExitZeroMeansCompleted
PROPERTIES
  StopsForGood
  AlwaysEnds
