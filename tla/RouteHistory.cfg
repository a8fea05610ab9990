\* A run that starts at second 5 and ends at second 25, four of seven fixes in any order, one request at a time
\* and nothing archived while it is answered; 20 m buckets, and 60 m instead of 400 m
\* for a step along the route.
CONSTANTS
  NONE = NONE
  OffRouteThreshold = 60
  MaxPlausibleSpeed = 25
  TrackGap = 180
  CoverageBucket = 20
  CoverageMaxStep = 60
  Fixes <- MCFixes
  MaxFixes = 4
  Started = 5
  Ends <- MCEnds
  Lengths <- MCLengths
  Undisturbed = TRUE
SPECIFICATION Spec
PROPERTIES  MeasuresAreTrue
