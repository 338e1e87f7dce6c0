SPECIFICATION Spec
CONSTANTS
  Tries = 2
  MaxTime = 6
  MaxDrift = 2
INVARIANTS
  TypeOK
  EnvelopeSound
  ConstantOffsetAccepted
CHECK_DEADLOCK FALSE
