\* Two instances of the server archive two runs that may overlap on one truck; one
\* of two fixes is from before fixes carried a session id.  A clock unit is half a day.
\* The bounds stop the clock, so the system may stop: no deadlock check.
CONSTANTS
  NONE = NONE
  d1 = d1
  d2 = d2
  t1 = t1
  f1 = f1
  f2 = f2
  f3 = f3
  i1 = i1
  i2 = i2
  Fixes = {f1, f2}
  Legacy = {f1}
  Drivers = {d1, d2}
  Trucks = {t1}
  Instances = {i1, i2}
  BatchSize = 1
  MaxFixAge = 1
  DayLength = 2
  MaxTime = 3
  MaxRuns = 2
  ListDays = {}
  Broken = {}
  Upsets = {"fault", "crash"}
  MaxUpsets = 1
SPECIFICATION Spec
INVARIANTS TypeOK
PROPERTIES ClaimedFixesAreKept ImplementsRunHistory
SYMMETRY InstanceSymmetry
CHECK_DEADLOCK FALSE
