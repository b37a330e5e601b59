\* Users may stop, and a Gateway that is gone is not refreshed.
CHECK_DEADLOCK FALSE
CONSTANTS
  Gw = gw
  NoRef = NoRef
  r1 = r1
  N = 1
  Refs <- OneRef
  Specs <- SpecsSecure
  Lag = TRUE
  MaxAttempts = 2
  ConflictSteps = 2
  MaxEdits = 1
  MaxAssets = 1
  MaxFailures = 1
SPECIFICATION FairSpec
PROPERTIES
  ProgrammedIsStable
  EventuallyProgrammed
