SPECIFICATION Spec
CONSTANTS
  Conditions = {"destroy", "wait-then-destroy", "idle", "live-handoff"}
INVARIANTS
  TypeOK
  SerialExclusion
  OutcomeIsHonest
  RowIsTrue
  NothingLeftBehind
PROPERTIES
  AlwaysReturns
  ContractSpec
