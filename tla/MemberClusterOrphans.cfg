\* Users may stop; a controller without Gateways has nothing to do.
CHECK_DEADLOCK FALSE
CONSTANTS
  Gateways = {gw1}
  Routes = {}
  Services = {}
  MaxEdits = 1
  MaxFailures = 0
  MaxCrashes = 1
SPECIFICATION Spec
INVARIANT
  DeletedMeansCleanedUp
