\* Two trucks, two routes, two days, one driver, two assignments, two requests at a time,
\* two changes beside them.  The bounds stop the system: no deadlock check.
CONSTANTS
  NONE = NONE
  h1 = h1
  h2 = h2
  ann = ann
  north = north
  south = south
  monday = monday
  tuesday = tuesday
  Requests = {h1, h2}
  Drivers = {ann}
  Routes = {north, south}
  Days = {monday, tuesday}
  MaxTrucks = 2
  MaxSchedules = 2
  MaxEdits = 2
  Exclusive = TRUE
SPECIFICATION Spec
INVARIANTS TypeOK RouteHasOneTruck
PROPERTIES NothingOverwritten
SYMMETRY Symmetry
CHECK_DEADLOCK FALSE
