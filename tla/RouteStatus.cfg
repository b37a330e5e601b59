\* Nothing is left to do when every Gateway is gone.
CHECK_DEADLOCK FALSE
CONSTANTS
  Gateways = {gw1, gw2}
  Routes = {route1}
  s1 = s1
  s2 = s2
  Sections <- MCSections
  RefLists <- MCRefLists
  ConflictSteps = 2
  MaxEdits = 2
SPECIFICATION Spec
SYMMETRY Symmetry
INVARIANTS
  TypeOK
  OneEntryPerParentRef
  SettledRoutes
PROPERTY
  OnlyOwnEntriesChange
