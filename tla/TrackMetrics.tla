----------------------------- MODULE TrackMetrics -----------------------------
(***************************************************************************)
(* From the fixes of a run to what the history shows of it: the points     *)
(* worth drawing, the distance, the stretches off the route, the share of  *)
(* the route that was driven, and when the run began and ended.            *)
(*                                                                         *)
(* The truck moves on a line: a place is one coordinate, in metres.        *)
(* Coordinates, distances and percentages are not rounded, times are.      *)
(***************************************************************************)
EXTENDS Integers, FiniteSets, SequencesExt

CONSTANTS
  NONE,                 \* null
  OffRouteThreshold,    \* OFF_ROUTE_THRESHOLD_M
  MaxPlausibleSpeed,    \* MAX_PLAUSIBLE_SPEED_MPS
  TrackGap,             \* TRACK_GAP_SECONDS
  CoverageBucket,       \* COVERAGE_BUCKET_M
  CoverageMaxStep       \* COVERAGE_MAX_STEP_M

ASSUME MetricsAssumption ==
  /\ {OffRouteThreshold, MaxPlausibleSpeed, TrackGap, CoverageMaxStep} \subseteq Nat
  /\ CoverageBucket \in Nat \ {0}
  /\ NONE \notin Int

OrNone(S) == S \cup {NONE}

\* A row of truck_positions, `at` in milliseconds, and a TrackPoint, `at` in seconds;
\* `off`: metres from the centerline, `offset`: metres along it.
Fix == [x: Int, at: Nat, off: OrNone(Nat), offset: OrNone(Int)]
TrackPoint == Fix

Abs(n) == IF n < 0 THEN -n ELSE n
Least(a, b) == IF a < b THEN a ELSE b
Greatest(a, b) == IF a < b THEN b ELSE a
Distance(p, q) == Abs(p.x - q.x)

Rounded(fix) == [fix EXCEPT !.at = (@ + 500) \div 1000]

-----------------------------------------------------------------------------
(* cleanFixes                                                              *)

\* One point per second, and none that the truck cannot have reached from the last one.
Keep(points, fix) ==
  LET p == Rounded(fix)
      q == Last(points)
  IN  IF /\ points # <<>>
         /\ p.at <= q.at \/ Distance(q, p) > MaxPlausibleSpeed * (p.at - q.at)
      THEN points ELSE Append(points, p)

\* Array.prototype.sort is stable: of two fixes of one time the one stored first comes first.
SortedByTime(raw) ==
  LET Before(i, j) == raw[i].at < raw[j].at \/ (raw[i].at = raw[j].at /\ i < j)
      Place(i) == 1 + Cardinality({j \in DOMAIN raw : Before(j, i)})
  IN  [n \in DOMAIN raw |-> raw[CHOOSE i \in DOMAIN raw : Place(i) = n]]

\* Mutant: the fixes are taken as they were stored.
CleanFixes_AsStored(raw) == FoldLeft(Keep, <<>>, raw)
CleanFixes(raw) == FoldLeft(Keep, <<>>, SortedByTime(raw))

-----------------------------------------------------------------------------
(* computeTrackMetrics                                                     *)

OffRoute(p) == p.off # NONE /\ p.off > OffRouteThreshold
OnRoute(p) == p.off # NONE /\ p.off <= OffRouteThreshold /\ p.offset # NONE

Stretch(p) == [startedAt |-> p.at, endedAt |-> p.at, distance |-> 0, max |-> p.off]
Closed(m) ==
  IF m.open = NONE THEN m
  ELSE [m EXCEPT !.stretches = Append(@, m.open), !.open = NONE]

\* Mutant: a stretch goes on across a gap in the signal.
CloseInTime_Always(prev, p) == prev # NONE
CloseInTime(prev, p) == prev # NONE /\ p.at - prev.at <= TrackGap

\* The loop's body: `m` so far, and the next point.
Measure(m, p) ==
  LET step == IF m.prev = NONE THEN 0 ELSE Distance(m.prev, p)
      driven == [m EXCEPT !.distance = @ + step, !.prev = p]
  IN  IF ~OffRoute(p) THEN Closed(driven)
      ELSE IF m.open # NONE /\ CloseInTime(m.prev, p)
      THEN [driven EXCEPT !.offRouteDistance = @ + step,
                          !.open = [m.open EXCEPT !.endedAt = p.at,
                                                  !.distance = @ + step,
                                                  !.max = Greatest(@, p.off)]]
      ELSE [Closed(driven) EXCEPT !.open = Stretch(p)]

BucketCount(length) == Greatest(1, (length + CoverageBucket - 1) \div CoverageBucket)
BucketOf(length, offset) ==
  Least(BucketCount(length) - 1, Greatest(0, offset \div CoverageBucket))

\* The loop's body: the buckets `c.covered` so far, and the next point.
Cover(length, c, p) ==
  LET near == /\ c.prev # NONE
              /\ CloseInTime(c.prev, p) /\ Abs(p.offset - c.prev.offset) <= CoverageMaxStep
      from == IF near THEN Least(p.offset, c.prev.offset) ELSE p.offset
      upto == IF near THEN Greatest(p.offset, c.prev.offset) ELSE p.offset
  IN  IF ~OnRoute(p) THEN [c EXCEPT !.prev = NONE]
      ELSE [covered |-> c.covered \cup BucketOf(length, from)..BucketOf(length, upto),
            prev |-> p]

\* The buckets that were driven; NONE without a centerline.
ComputeCoverage(points, length) ==
  IF length = NONE \/ length <= 0 THEN NONE
  ELSE LET With(c, p) == Cover(length, c, p)
       IN  FoldLeft(With, [covered |-> {}, prev |-> NONE], points).covered

ComputeTrackMetrics(points, length) ==
  LET m == Closed(FoldLeft(Measure, [distance |-> 0, offRouteDistance |-> 0, stretches |-> <<>>,
                                     open |-> NONE, prev |-> NONE], points))
  IN  [pointCount |-> Len(points), distance |-> m.distance,
       coverage |-> ComputeCoverage(points, length),
       offRouteDistance |-> m.offRouteDistance, stretches |-> m.stretches]

-----------------------------------------------------------------------------
(* runSpan, durationSeconds                                                *)

\* Mutant: fixes sent after the end do not move it.
RunSpan_Start(row, points) ==
  [startedAt |-> IF points = <<>> THEN row.from ELSE Least(row.from, Head(points).at),
   endedAt |-> row.to]
RunSpan(row, points) ==
  [startedAt |-> IF points = <<>> THEN row.from ELSE Least(row.from, Head(points).at),
   endedAt |-> IF points = <<>> \/ row.to = NONE THEN row.to
               ELSE Greatest(row.to, Last(points).at)]

DurationSeconds(span) == Greatest(0, span.endedAt - span.startedAt)
=============================================================================
