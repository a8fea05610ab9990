---------------------------- MODULE MCRouteHistory ----------------------------
(* Values for model-checking RouteHistory.                                    *)
EXTENDS RouteHistory

\* A truck on its route, off it, out of everyone's reach, and where the route has no
\* centerline; half a second, some seconds, and a gap in the signal apart.
OnIt == {[x |-> 0, at |-> 0, off |-> 5, offset |-> 0],
         [x |-> 60, at |-> 10400, off |-> 60, offset |-> 70],
         [x |-> 500, at |-> 215000, off |-> 0, offset |-> 85]}
OffIt == {[x |-> 100, at |-> 10000, off |-> 61, offset |-> 20],
          [x |-> 200, at |-> 20000, off |-> 90, offset |-> 40],
          [x |-> 400, at |-> 212000, off |-> 80, offset |-> 60]}
Odd == {[x |-> 9000, at |-> 15000, off |-> NONE, offset |-> NONE]}

MCFixes == OnIt \cup OffIt \cup Odd
MCEnds == {25}
MCLengths == {NONE, 80}
=============================================================================
