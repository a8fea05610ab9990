\* Two drivers with the Android app: HTTP requests, one at a time for each driver, all
\* finished within a clock unit.
\* The bounds stop the clock, so the system may stop: no deadlock check.
CONSTANTS
  NONE = NONE
  d1 = d1
  d2 = d2
  t1 = t1
  t2 = t2
  r1 = r1
  r2 = r2
  h1 = h1
  h2 = h2
  k1 = k1
  k2 = k2
  Drivers = {d1, d2}
  Trucks = {t1, t2}
  Routes = {r1}
  Sockets = {}
  Handlers = {h1, h2}
  InactivityLimit = 1
  MaxInFlight = 1
  MaxTime = 3
  MaxSessions = 2
  Upsets = {}
  MaxUpsets = 0
  Timely = TRUE
SPECIFICATION Spec
INVARIANTS FixOwner HttpFixInOpenSession
PROPERTIES ClosesAtLastActivity FreshStopTellsResidents
SYMMETRY HandlerSymmetry
CHECK_DEADLOCK FALSE
