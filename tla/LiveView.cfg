\* A route that another truck takes over during the day.
\* The bounds stop the clock, so the system may stop: no deadlock check.
CONSTANTS
  NONE = NONE
  Residents = {p1}
  Routes = {r1}
  InactivityLimit = 1
  TokenTtl = 1
  MaxTruck = 2
  MaxRuns = 2
  MaxTime = 2
  MaxEdits = 3
SPECIFICATION Spec
PROPERTIES PaintsARunningTruck
CHECK_DEADLOCK FALSE
