\* One browser that may register twice, while two fixes are evaluated over two days; with
\* one statement, push or process that fails.  Fixes come from before, at and behind the
\* home, in both directions, too slow or too far apart to measure, and fresh or late.
\* The bounds stop the system: no deadlock check.
CONSTANTS
  NONE = NONE
  p1 = p1
  h1 = h1
  e1 = e1
  e2 = e2
  Devices = {p1}
  Requests = {h1}
  Evaluations = {e1}
  MaxResidents = 2
  Homes = {5}
  Offsets = {0, 3, 5, 7, 9}
  Ages = {0, 2}
  Gaps = {3, 4}
  Lead = 4
  ArrivalDistance = 1
  AvgSpeed = 1
  MinSpeed = 1
  MotionWindow = 3
  MaxDay = 1
  MaxFixes = 2
  Patient = TRUE
  Upsets = {"request", "alert", "push", "restart"}
  MaxUpsets = 1
SPECIFICATION FairSpec
INVARIANTS TypeOK OncePerDay RegisteredIsReachable WhoIsAlertedCanLeave NearerIsMoreUrgent FreshFixMissesNobody
PROPERTIES DueIsLogged
CHECK_DEADLOCK FALSE
