SPECIFICATION Spec
CONSTANTS
  Conditions = {"live-handoff", "preempt-resume", "preempt-hold", "schedule-hold", "fifo-hold"}
  MaxClockFaults = 2
INVARIANTS
  TypeOK
  HoldIsReal
  UndoIsRight
  ReturnIsClean
PROPERTIES
  NeverRetried
  AlwaysReturns
