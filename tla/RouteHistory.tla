----------------------------- MODULE RouteHistory -----------------------------
(***************************************************************************)
(* One run in the history: its fixes arrive in any order, it ends, it is   *)
(* rebuilt from the live tables for whoever asks, and archived.            *)
(*                                                                         *)
(* RouteArchive has the statements of the archiver; here its transaction   *)
(* is one step, taken while nobody reads if Undisturbed.  A reader's       *)
(* statements are steps of their own.  The clock is left out: how long an  *)
(* open run has been going is not shown.                                   *)
(***************************************************************************)
EXTENDS TrackMetrics

CONSTANTS
  Fixes,        \* what the truck may report
  MaxFixes,     \* bound: how many fixes are stored
  Started,      \* when the run started, in seconds
  Ends,         \* when it may end
  Lengths,      \* lengths the route's centerline may have, NONE: no centerline
  Undisturbed   \* TRUE: nothing is archived while somebody reads

ASSUME HistoryAssumption ==
  /\ Fixes \subseteq Fix
  /\ MaxFixes \in Nat /\ Started \in Nat /\ Ends \subseteq Nat
  /\ Lengths \subseteq OrNone(Nat)
  /\ Undisturbed \in BOOLEAN

VARIABLES
  positions,  \* the run's rows of truck_positions, as they were inserted
  session,    \* its row of route_sessions
  length,     \* the route's centerline_length_m
  track,      \* its row of route_tracks
  reader      \* one request of an administrator

vars == <<positions, session, length, track, reader>>

-----------------------------------------------------------------------------
(* RouteTrackBuilderService                                                *)

\* ISessionRow, with the length the route has at that moment.
Row == [from |-> session.from, to |-> session.to, length |-> length]

\* A run rebuilt from the live tables, and what is shown of it.
Build(row) ==
  LET points == CleanFixes(positions)
  IN  [points |-> points, span |-> RunSpan(row, points),
       metrics |-> ComputeTrackMetrics(points, row.length)]

-----------------------------------------------------------------------------
(* The run                                                                 *)

StoreFix(fix) ==
  /\ Len(positions) < MaxFixes
  /\ track = NONE
  /\ positions' = Append(positions, fix)
  /\ UNCHANGED <<session, length, track, reader>>

EndRun(t) ==
  /\ session.to = NONE
  /\ session' = [session EXCEPT !.to = t]
  /\ UNCHANGED <<positions, length, track, reader>>

\* The route is drawn anew, or removed.
Redraw(l) ==
  /\ length' = l
  /\ UNCHANGED <<positions, session, track, reader>>

\* WKT for PostGIS, or null when there are not two points to make a line.
HasPath(points) == Len(points) >= 2

Archive ==
  LET built == Build(Row)
  IN  /\ session.to # NONE /\ track = NONE
      /\ Undisturbed => reader.at \in {"idle", "done"}
      /\ track' = [built |-> built, duration |-> DurationSeconds(built.span),
                   path |-> HasPath(built.points), planned |-> length]
      /\ positions' = <<>>
      /\ UNCHANGED <<session, length, reader>>

-----------------------------------------------------------------------------
(* RouteHistoryService                                                     *)

\* `seen`: history, the fixes there were when the request came; `built`: the answer.
NoReader == [kind |-> "none", at |-> "idle", row |-> NONE, seen |-> {}, built |-> NONE,
             planned |-> NONE]

Goto(at, rec) == reader' = [rec EXCEPT !.at = at]

\* The run's day, the run in full, or the live map's first paint.
Ask(kind) ==
  /\ reader = NoReader
  /\ Goto(IF kind = "live" THEN "session" ELSE "archived",
          [NoReader EXCEPT !.kind = kind, !.seen = ToSet(positions)])
  /\ UNCHANGED <<positions, session, length, track>>

\* listByDate asks for the rest of the day in any case.
FindArchived ==
  /\ reader.at = "archived"
  /\ IF track = NONE THEN Goto("session", reader)
     ELSE Goto("done", [reader EXCEPT !.built = track.built, !.planned = track.planned])
  /\ UNCHANGED <<positions, session, length, track>>

\* Mutant: a run that is being listed must have ended.
FindSession_Ended ==
  /\ reader.at = "session"
  /\ IF track # NONE \/ session.to = NONE THEN Goto("done", reader)
     ELSE Goto("points", [reader EXCEPT !.row = Row])
  /\ UNCHANGED <<positions, session, length, track>>
\* The lists leave out what is archived by now; one run is looked up by its id.
FindSession ==
  /\ reader.at = "session"
  /\ IF reader.kind # "detail" /\ track # NONE THEN Goto("done", reader)
     ELSE Goto("points", [reader EXCEPT !.row = Row])
  /\ UNCHANGED <<positions, session, length, track>>

LoadPoints ==
  /\ reader.at = "points"
  /\ Goto(IF reader.kind = "detail" THEN "path" ELSE "done",
          [reader EXCEPT !.built = Build(reader.row)])
  /\ UNCHANGED <<positions, session, length, track>>

LoadRoutePath ==
  /\ reader.at = "path"
  /\ Goto("done", [reader EXCEPT !.planned = length])
  /\ UNCHANGED <<positions, session, length, track>>

Answer ==
  /\ reader.at = "done"
  /\ reader' = NoReader
  /\ UNCHANGED <<positions, session, length, track>>

-----------------------------------------------------------------------------

Init ==
  /\ positions = <<>>
  /\ session = [from |-> Started, to |-> NONE]
  /\ length \in Lengths
  /\ track = NONE
  /\ reader = NoReader

Next ==
  \/ \E fix \in Fixes : StoreFix(fix)
  \/ \E t \in Ends : EndRun(t)
  \/ \E l \in Lengths : Redraw(l)
  \/ Archive
  \/ \E kind \in {"detail", "list", "live"} : Ask(kind)
  \/ FindArchived \/ FindSession \/ LoadPoints \/ LoadRoutePath \/ Answer

Spec == Init /\ [][Next]_vars

-----------------------------------------------------------------------------
(* Properties                                                              *)

(* The points: one per instant, in the order the truck was there, none     *)
(* that it cannot have reached; and a fix is left out only for its second  *)
(* being taken, or for being out of reach of the point before it, however  *)
(* late it came.  The shown span holds them all.                           *)
Accounted(fix, points) ==
  LET p == Rounded(fix)
      before == {i \in DOMAIN points : points[i].at <= p.at}
  IN  \E i \in before :
        /\ \A j \in before : j <= i
        /\ points[i].at = p.at \/ Distance(points[i], p) > MaxPlausibleSpeed * (p.at - points[i].at)

InOrder(points) ==
  \A i \in 2..Len(points) :
    /\ points[i - 1].at < points[i].at
    /\ Distance(points[i - 1], points[i])
         <= MaxPlausibleSpeed * (points[i].at - points[i - 1].at)

Spans(span, points) ==
  \A i \in DOMAIN points :
    span.startedAt <= points[i].at /\ (span.endedAt # NONE => points[i].at <= span.endedAt)

PathIsSound(built, fixes) ==
  /\ InOrder(built.points)
  /\ \A fix \in fixes : Accounted(fix, built.points)
  /\ Spans(built.span, built.points)

(* What is shown of the run accounts for every fix there was when it was   *)
(* asked for, and what is archived for every fix it takes from the live    *)
(* table, also with fixes replayed in any order and after the end.  With   *)
(* nothing archived meanwhile: a reader that finds no track and then the   *)
(* fixes gone shows an empty run.                                          *)
PathIsComplete ==
  [][/\ track = NONE /\ track' # NONE => PathIsSound(track'.built, ToSet(positions))
     /\ reader.at \in {"session", "points", "path"} /\ reader'.at = "done"
          /\ reader.kind # "live" =>
          reader'.built # NONE /\ PathIsSound(reader'.built, reader.seen)]_vars

(* The measures say of those points what an administrator reads off them:  *)
(* the stretches are the longest pieces driven off the route without a gap *)
(* in the signal, with their lengths and maxima; a bucket of the route is  *)
(* covered where a point lies in it or between two points close in time    *)
(* and along the route.                                                    *)
Joined(points, i) ==
  i > 1 /\ OffRoute(points[i]) /\ OffRoute(points[i - 1])
        /\ points[i].at - points[i - 1].at <= TrackGap

Total(f) == FoldFunction(LAMBDA a, b : a + b, 0, f)

Length(points, from, upto) ==
  Total([i \in from + 1..upto |-> Distance(points[i - 1], points[i])])

Stretches(points) ==
  {s \in (DOMAIN points) \X (DOMAIN points) :
     LET i == s[1]
         j == s[2]
     IN  /\ i <= j /\ OffRoute(points[i])
         /\ ~Joined(points, i) /\ \A k \in i + 1..j : Joined(points, k)
         /\ j = Len(points) \/ ~Joined(points, j + 1)}

Covers(points, b, len) ==
  \E i, j \in DOMAIN points :
    /\ i \in {j, j - 1} /\ OnRoute(points[i]) /\ OnRoute(points[j])
    /\ points[j].at - points[i].at <= TrackGap
    /\ Abs(points[j].offset - points[i].offset) <= CoverageMaxStep
    /\ LET ends == {BucketOf(len, points[i].offset), BucketOf(len, points[j].offset)}
       IN  \E low, high \in ends : low <= b /\ b <= high

MetricsAreSound(points, len, m) ==
  /\ m.distance = Length(points, 1, Len(points))
  /\ ToSet(m.stretches) =
       {[startedAt |-> points[s[1]].at, endedAt |-> points[s[2]].at,
         distance |-> Length(points, s[1], s[2]),
         max |-> CHOOSE n \in {points[k].off : k \in s[1]..s[2]} :
                   \A k \in s[1]..s[2] : points[k].off <= n] : s \in Stretches(points)}
  /\ m.offRouteDistance =
       Total([s \in Stretches(points) |-> Length(points, s[1], s[2])])
  /\ m.coverage = IF len \in {NONE, 0} THEN NONE
                  ELSE {b \in 0..BucketCount(len) - 1 : Covers(points, b, len)}

MeasuresAreTrue ==
  [][/\ track = NONE /\ track' # NONE =>
          MetricsAreSound(track'.built.points, length, track'.built.metrics)
     /\ reader.at = "points" /\ reader'.at # "points" =>
          MetricsAreSound(reader'.built.points, reader.row.length, reader'.built.metrics)]_vars
=============================================================================
