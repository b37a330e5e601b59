\* Users may stop, and then nothing is left to do.
CHECK_DEADLOCK FALSE
CONSTANTS
  g1 = g1
  g2 = g2
  Gateways <- Two
  Kinds <- DeploymentAndService
  MaxAttempts = 2
  MaxEdits = 2
  MaxFailures = 1
SYMMETRY Symmetry
SPECIFICATION Spec
INVARIANTS
  TypeOK
  SettledObjects
  NoOrphans
PROPERTY
  OverwritesOnlyOwn
