\* Users may stop editing, and then nothing is left to do.
CHECK_DEADLOCK FALSE
CONSTANTS
  MaxAttempts = 3
  ConflictSteps = 3
  MaxEdits = 5
  MaxFailures = 2
SPECIFICATION FairSpec
INVARIANTS
  AcceptedUnlessMissed
PROPERTIES
  StampsCurrent
  ComesToRest
