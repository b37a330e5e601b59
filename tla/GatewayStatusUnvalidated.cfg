\* Users may stop, and a Gateway that is gone is not refreshed.
CHECK_DEADLOCK FALSE
CONSTANTS
  Gw = gw
  NoRef = NoRef
  r1 = r1
  N = 1
  Refs <- OneRef
  Specs <- SpecsSecure
  Lag = TRUE
  MaxAttempts = 3
  ConflictSteps = 5
  MaxEdits = 1
  MaxAssets = 0
  MaxFailures = 0
SPECIFICATION Spec
INVARIANT
  ProgrammedAssetsExist
