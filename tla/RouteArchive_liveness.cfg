\* One instance, a run that cannot be archived, batches of one run, a listing, and any
\* one upset.
\* The bounds stop the clock, so the system may stop: no deadlock check.
CONSTANTS
  NONE = NONE
  d1 = d1
  d2 = d2
  t1 = t1
  f1 = f1
  f2 = f2
  f3 = f3
  i1 = i1
  i2 = i2
  Fixes = {f1, f2}
  Legacy = {f1}
  Drivers = {d1, d2}
  Trucks = {t1}
  Instances = {i1}
  BatchSize = 1
  MaxFixAge = 1
  DayLength = 1
  MaxTime = 2
  MaxRuns = 2
  ListDays = {0, 1}
  Broken = {1}
  Upsets = {"fault", "crash", "late", "remove"}
  MaxUpsets = 1
SPECIFICATION FairSpec
INVARIANTS ListedOnce
PROPERTIES EveryRunIsArchived OldFixesLeave
CHECK_DEADLOCK FALSE
