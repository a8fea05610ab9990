\* One driver whose requests are answered one at a time, over HTTP and on a socket,
\* with one edit by an administrator, failed statement or restart.
\* The bounds stop the clock, so the system may stop: no deadlock check.
CONSTANTS
  NONE = NONE
  d1 = d1
  d2 = d2
  t1 = t1
  t2 = t2
  r1 = r1
  r2 = r2
  h1 = h1
  h2 = h2
  k1 = k1
  k2 = k2
  Drivers = {d1}
  Trucks = {t1}
  Routes = {r1}
  Sockets = {k1}
  Handlers = {h1}
  InactivityLimit = 1
  MaxInFlight = 1
  MaxTime = 3
  MaxSessions = 2
  Upsets = {"edit", "fault", "restart"}
  MaxUpsets = 1
  Timely = FALSE
SPECIFICATION FairSpec
INVARIANTS TypeOK NoOverlap TimesOrdered
PROPERTIES ImplementsDriverRuns AbandonedIsClosed ClosedIsFinal
CHECK_DEADLOCK FALSE
