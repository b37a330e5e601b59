\* Users may stop, and a Gateway that is gone is not refreshed.
CHECK_DEADLOCK FALSE
CONSTANTS
  Gw = gw
  NoRef = NoRef
  r1 = r1
  N = 2
  Refs <- OneRef
  Specs <- SpecsAll
  Lag = TRUE
  MaxAttempts = 2
  ConflictSteps = 2
  MaxEdits = 2
  MaxAssets = 0
  MaxFailures = 1
SPECIFICATION Spec
INVARIANTS
  TypeOK
  ProgrammedAfterValidation
  SettledGateway
PROPERTY
  StatusWritesAreCurrent
