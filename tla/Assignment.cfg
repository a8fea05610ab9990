\* Two routes of at most two segments, and a resident who may live at either of two places:
\* some streets are within reach of one, some of the other, one of both; three edits or
\* faults besides the creation of the routes and the registration, two requests at a time.
\* The bounds stop the system: no deadlock check.
CONSTANTS
  NONE = NONE
  h1 = h1
  h2 = h2
  Requests = {h1, h2}
  MaxRoutes = 2
  MaxResidents = 1
  MaxSegments = 2
  Streets = {0, 3, 5}
  Homes = {1, 4}
  MaxSnap = 2
  MaxEvents = 3
  Exclusive = TRUE
SPECIFICATION Spec
INVARIANTS TypeOK  
PROPERTIES RedrawServes LockedIsKept
SYMMETRY RequestSymmetry
CHECK_DEADLOCK FALSE
