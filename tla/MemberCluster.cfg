\* Users may stop; a controller without Gateways has nothing to do.
CHECK_DEADLOCK FALSE
CONSTANTS
  Gateways = {gw1}
  Routes = {route}
  Services = {service}
  MaxEdits = 2
  MaxFailures = 1
  MaxCrashes = 1
SPECIFICATION FairSpec
INVARIANTS
  TypeOK
  Converged
PROPERTY
  EventuallyFresh
