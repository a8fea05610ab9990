\* One route drawn and redrawn, a resident registered in between; one request at a time.
\* The bounds stop the system: no deadlock check.
CONSTANTS
  NONE = NONE
  h1 = h1
  h2 = h2
  Requests = {h1}
  MaxRoutes = 1
  MaxResidents = 1
  MaxSegments = 2
  Streets = {0, 3, 5}
  Homes = {1}
  MaxSnap = 2
  MaxEvents = 2
  Exclusive = TRUE
SPECIFICATION Spec
PROPERTIES OffsetsFollowTheRoad
CHECK_DEADLOCK FALSE
