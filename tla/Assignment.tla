----------------------------- MODULE Assignment -----------------------------
(***************************************************************************)
(* Which route serves whom: administrators draw and redraw routes, and     *)
(* residents are anchored to the nearest one, or to one chosen by hand.    *)
(* The routes and the residents of one municipality.                       *)
(*                                                                         *)
(* The map is a line.  A street is a place on it, walking from a home to a *)
(* street takes their distance, and the streets of a route join up, so the *)
(* nearest point of a centerline is on its nearest street.  How far along  *)
(* a centerline a point is, is a matter of the streets before it.          *)
(*                                                                         *)
(* A request runs without interruption between two awaits, and a statement *)
(* or a save() of an entity is atomic; save() writes the whole entity as   *)
(* it was loaded and changed, and inserts it where its row is gone.        *)
(***************************************************************************)
EXTENDS Integers

CONSTANTS
  Requests,      \* slots for requests being handled
  NONE,          \* SQL NULL, no row
  MaxRoutes,     \* bound: rows of routes
  MaxResidents,  \* bound: rows of residents
  MaxSegments,   \* bound: segments of a route
  Streets,       \* where streets are
  Homes,         \* where residents live
  MaxSnap,       \* max_snap_distance_m
  MaxEvents,     \* bound: edits of routes and residents, and faults
  Exclusive      \* TRUE: no two requests at a time are about one route or one resident

RouteId == 1..MaxRoutes
ResidentId == 1..MaxResidents
Indexes == 0..(MaxSegments - 1)

ASSUME BoundsAssumption ==
  /\ MaxRoutes \in Nat /\ MaxResidents \in Nat /\ MaxSegments \in Nat
  /\ MaxEvents \in Nat
  /\ Streets \subseteq Int /\ Homes \subseteq Int /\ MaxSnap \in Nat
  /\ Exclusive \in BOOLEAN /\ NONE \notin Nat

VARIABLES
  routes,        \* routes
  segments,      \* route_segments, by route
  residents,     \* residents
  nextRoute,     \* the next values of the id sequences
  nextResident,
  request,       \* the requests in flight
  events,        \* how many edits and faults there have been
  faults         \* how many requests were cut off

map == <<routes, segments, nextRoute>>
people == <<residents, nextResident>>
vars == <<map, people, request, events, faults>>

-----------------------------------------------------------------------------
(* Types                                                                   *)

OrNone(S) == S \cup {NONE}

Row == [index: Indexes, street: Streets]
Route == [active: BOOLEAN, centerline: SUBSET Row]    \* {}: NULL
\* `offset`: the streets of the centerline before the point.
Point == [route: OrNone(RouteId), segment: OrNone(Indexes), offset: SUBSET Row, distance: Nat]
Resident == [home: Homes, locked: BOOLEAN, point: OrNone(Point)]

ASSUME RowAssumption == NONE \notin Route \cup Point \cup Resident

\* Of a route: the rows it `drop`s and `put`s, the `copy` it loaded; of a resident: the `row`
\* to be saved, and the `route` it is to be given by hand.
Request == [at: {"idle", "edit", "rebuild", "reassign", "store", "find", "obey", "name", "save"},
            route: OrNone(RouteId), redraw: BOOLEAN, drop: SUBSET Row, put: SUBSET Row,
            copy: OrNone(Route), resident: OrNone(ResidentId), row: OrNone(Resident)]
NoRequest == [at |-> "idle", route |-> NONE, redraw |-> FALSE, drop |-> {}, put |-> {},
              copy |-> NONE, resident |-> NONE, row |-> NONE]

TypeOK ==
  /\ routes \in [RouteId -> OrNone(Route)]
  /\ segments \in [RouteId -> SUBSET Row]
  /\ residents \in [ResidentId -> OrNone(Resident)]
  /\ nextRoute \in 1..(MaxRoutes + 1)
  /\ nextResident \in 1..(MaxResidents + 1)
  /\ request \in [Requests -> Request]
  /\ events \in 0..MaxEvents
  /\ faults \in Nat

-----------------------------------------------------------------------------
(* Where a resident hands the bag over                                     *)

Walk(home, row) == IF home < row.street THEN row.street - home ELSE home - row.street
Nearest(rows, home) == {w \in rows : \A v \in rows : Walk(home, w) <= Walk(home, v)}
Before(rows, w) == {v \in rows : v.index < w.index}

\* ST_LineLocatePoint and ST_Distance; the street's name comes from a query of its own.
PointsOn(r, home) ==
  {[route |-> r, segment |-> NONE, offset |-> Before(routes[r].centerline, w),
    distance |-> Walk(home, w)] : w \in Nearest(routes[r].centerline, home)}

Drawn(r) == routes[r] # NONE /\ routes[r].centerline # {}
Serving == {r \in RouteId : Drawn(r) /\ routes[r].active}

\* Mutant: the nearest route, however far.
CollectionPoints_AnyDistance(home) ==
  LET points == UNION {PointsOn(r, home) : r \in Serving}
      nearest == {p \in points : \A q \in points : p.distance <= q.distance}
  IN  IF nearest = {} THEN {NONE} ELSE nearest
\* The nearest route's, if it is within walking distance.
CollectionPoints(home) ==
  LET points == UNION {PointsOn(r, home) : r \in Serving}
      nearest == {p \in points : \A q \in points : p.distance <= q.distance}
      within == {p \in nearest : p.distance <= MaxSnap}
  IN  IF within = {} THEN {NONE} ELSE within

NearestSegments(r, home) ==
  IF segments[r] = {} THEN {NONE} ELSE {w.index : w \in Nearest(segments[r], home)}

Named(p, home) == {[p EXCEPT !.segment = s] : s \in NearestSegments(p.route, home)}

\* The columns of a resident's anchor.
RouteOf(p) == IF p = NONE THEN NONE ELSE p.route
SegmentOf(p) == IF p = NONE THEN NONE ELSE p.segment

-----------------------------------------------------------------------------
(* Requests                                                                *)

AboutRoute(g, r) == request[g].resident = NONE /\ request[g].route = r
FreeRoute(r) == Exclusive => \A g \in Requests : ~AboutRoute(g, r)
FreeResident(x) == Exclusive => \A g \in Requests : request[g].resident # x

Counted == events < MaxEvents /\ events' = events + 1
Asks(h, rec) == request[h] = NoRequest /\ request' = [request EXCEPT ![h] = rec]
Goto(h, rec) == request' = [request EXCEPT ![h] = rec] /\ UNCHANGED events
Finish(h) == Goto(h, NoRequest)

(* RoutesService                                                           *)

CreateRoute ==
  /\ nextRoute \in RouteId
  /\ routes' = [routes EXCEPT ![nextRoute] = [active |-> TRUE, centerline |-> {}]]
  /\ nextRoute' = nextRoute + 1
  /\ UNCHANGED <<segments, people, request, events, faults>>

\* The segments go with the route, and the residents' foreign keys become NULL.
RemoveRoute(r) ==
  /\ Counted
  /\ routes[r] # NONE /\ FreeRoute(r)
  /\ routes' = [routes EXCEPT ![r] = NONE]
  /\ segments' = [segments EXCEPT ![r] = {}]
  /\ residents' = [x \in ResidentId |->
       IF residents[x] # NONE /\ RouteOf(residents[x].point) = r
       THEN [residents[x] EXCEPT !.point.route = NONE] ELSE residents[x]]
  /\ UNCHANGED <<nextRoute, nextResident, request, faults>>

\* Its name, its colour, or whether it is in service.
UpdateRoute(h, r, active) ==
  /\ Counted
  /\ routes[r] # NONE /\ FreeRoute(r)
  /\ Asks(h, [NoRequest EXCEPT !.at = "store", !.route = r,
                               !.copy = [routes[r] EXCEPT !.active = active]])
  /\ UNCHANGED <<map, people, faults>>

StoreRoute(h) ==
  /\ request[h].at = "store"
  /\ routes' = [routes EXCEPT ![request[h].route] = request[h].copy]
  /\ Finish(h)
  /\ UNCHANGED <<segments, nextRoute, people, faults>>

Edits(h, r, drop, put) ==
  /\ Counted
  /\ routes[r] # NONE /\ FreeRoute(r)
  /\ Asks(h, [NoRequest EXCEPT !.at = "edit", !.route = r, !.drop = drop, !.put = put])
  /\ UNCHANGED <<map, people, faults>>

AddSegment(h, r, row) ==
  /\ \A w \in segments[r] : w.index # row.index
  /\ Edits(h, r, {}, {row})

\* Drawn along a snapped path, a segment keeps its line when its ends are edited.
UpdateSegment(h, r, row, street) ==
  Edits(h, r, {row}, {[row EXCEPT !.street = street]})

RemoveSegment(h, r, row) == Edits(h, r, {row}, {})

\* Mutant: segments are counted from one.
Numbered_FromOne(n, streets) == {[index |-> i, street |-> streets[i - 1]] : i \in 1..n}
Numbered(n, streets) == {[index |-> i, street |-> streets[i]] : i \in 0..(n - 1)}

ReplaceSegments(h, r, n, streets) ==
  /\ Counted
  /\ routes[r] # NONE /\ FreeRoute(r)
  /\ Asks(h, [NoRequest EXCEPT !.at = "edit", !.route = r, !.redraw = TRUE,
                               !.put = Numbered(n, streets)])
  /\ UNCHANGED <<map, people, faults>>

\* An INSERT fails for want of the route; and that of a single segment always does, since
\* CreateSegmentInput has no start and no end for it, columns that are NOT NULL.
Refused(h) ==
  \/ routes[request[h].route] = NONE /\ request[h].put # {}
  \/ ~request[h].redraw /\ request[h].drop = {}

\* The transaction, or the one statement.
WriteSegments(h) ==
  LET r == request[h].route
      drop == IF request[h].redraw THEN segments[r] ELSE request[h].drop
  IN  /\ request[h].at = "edit"
      /\ IF Refused(h)
         THEN Finish(h) /\ UNCHANGED segments
         ELSE /\ segments' = [segments EXCEPT ![r] = (@ \ drop) \cup request[h].put]
              /\ Goto(h, [request[h] EXCEPT !.at = "rebuild"])
      /\ UNCHANGED <<routes, nextRoute, people, faults>>

\* Mutant: a route with no segments keeps its last line.
Chain_KeepsLast(r) == IF segments[r] = {} THEN routes[r].centerline ELSE segments[r]
Chain(r) == segments[r]

RebuildCenterline(h) ==
  LET r == request[h].route
  IN  /\ request[h].at = "rebuild"
      /\ routes' = [routes EXCEPT ![r] =
                      IF @ = NONE THEN @ ELSE [@ EXCEPT !.centerline = Chain(r)]]
      /\ IF request[h].redraw THEN Goto(h, [request[h] EXCEPT !.at = "reassign"]) ELSE Finish(h)
      /\ UNCHANGED <<segments, nextRoute, people, faults>>

\* Mutant: residents without a route are forgotten.
Concerned_OwnOnly(r) ==
  {x \in ResidentId : /\ residents[x] # NONE /\ ~residents[x].locked
                      /\ RouteOf(residents[x].point) = r}
\* Mutant: those assigned by hand, too.
Concerned_LockedToo(r) ==
  {x \in ResidentId : residents[x] # NONE /\ RouteOf(residents[x].point) \in {r, NONE}}
Concerned(r) ==
  {x \in ResidentId : /\ residents[x] # NONE /\ ~residents[x].locked
                      /\ RouteOf(residents[x].point) \in {r, NONE}}

\* What the sub-select gives a resident.
Anchors(x) ==
  LET home == residents[x].home
  IN  UNION {IF p = NONE THEN {NONE} ELSE Named(p, home) : p \in CollectionPoints(home)}

\* IS DISTINCT FROM: on the route and the segment.
Distinct(p, q) == RouteOf(p) # RouteOf(q) \/ SegmentOf(p) # SegmentOf(q)

Reassign(h) ==
  LET concerned == Concerned(request[h].route)
  IN  /\ request[h].at = "reassign"
      /\ \E found \in [concerned -> UNION {Anchors(x) : x \in concerned}] :
           /\ \A x \in concerned : found[x] \in Anchors(x)
           /\ residents' = [x \in ResidentId |->
                IF x \in concerned /\ Distinct(residents[x].point, found[x])
                THEN [residents[x] EXCEPT !.point = found[x]] ELSE residents[x]]
      /\ Finish(h)
      /\ UNCHANGED <<map, nextResident, faults>>

(* ResidentsService                                                        *)

Register(h, home) ==
  /\ nextResident \in ResidentId
  /\ Asks(h, [NoRequest EXCEPT !.at = "find", !.resident = nextResident,
                !.row = [home |-> home, locked |-> FALSE, point |-> NONE]])
  /\ nextResident' = nextResident + 1
  /\ UNCHANGED <<map, residents, events, faults>>

Loads(h, x, at, r, row) ==
  /\ Counted
  /\ residents[x] # NONE /\ FreeResident(x)
  /\ Asks(h, [NoRequest EXCEPT !.at = at, !.route = r, !.resident = x, !.row = row])
  /\ UNCHANGED <<map, people, faults>>

\* The name, or the resident's deactivation.
Edit(h, x) == Loads(h, x, "save", NONE, residents[x])

\* The pin is moved, or, where it was, the assignment recalculated.
Locate(h, x, home) ==
  Loads(h, x, "find", NONE, [residents[x] EXCEPT !.home = home, !.locked = FALSE])

\* By hand, with the pin moved or not.
Assign(h, x, home, r) ==
  Loads(h, x, "obey", r, [residents[x] EXCEPT !.home = home, !.locked = TRUE])

Unassign(h, x, home) ==
  Loads(h, x, "save", NONE, [home |-> home, locked |-> TRUE, point |-> NONE])

FindCollectionPoint(h) ==
  /\ request[h].at = "find"
  /\ \E p \in CollectionPoints(request[h].row.home) :
       Goto(h, [request[h] EXCEPT !.at = IF p = NONE THEN "save" ELSE "name", !.row.point = p])
  /\ UNCHANGED <<map, people, faults>>

PointOnRoute(h) ==
  LET r == request[h].route
  IN  /\ request[h].at = "obey"
      /\ IF ~Drawn(r) THEN Finish(h)
         ELSE \E p \in PointsOn(r, request[h].row.home) :
                Goto(h, [request[h] EXCEPT !.at = "name", !.row.point = p])
      /\ UNCHANGED <<map, people, faults>>

NameStreet(h) ==
  LET row == request[h].row
  IN  /\ request[h].at = "name"
      /\ \E p \in Named(row.point, row.home) :
           Goto(h, [request[h] EXCEPT !.at = "save", !.row.point = p])
      /\ UNCHANGED <<map, people, faults>>

\* The row's route is a foreign key.
SaveResident(h) ==
  LET r == RouteOf(request[h].row.point)
  IN  /\ request[h].at = "save"
      /\ residents' = IF r # NONE /\ routes[r] = NONE THEN residents
                      ELSE [residents EXCEPT ![request[h].resident] = request[h].row]
      /\ Finish(h)
      /\ UNCHANGED <<map, nextResident, faults>>

RemoveResident(x) ==
  /\ Counted
  /\ residents[x] # NONE /\ FreeResident(x)
  /\ residents' = [residents EXCEPT ![x] = NONE]
  /\ UNCHANGED <<map, nextResident, request, faults>>

\* A statement fails, or the process restarts.
Fault(h) ==
  /\ request[h] # NoRequest
  /\ Counted
  /\ faults' = faults + 1
  /\ request' = [request EXCEPT ![h] = NoRequest]
  /\ UNCHANGED <<map, people>>

-----------------------------------------------------------------------------

Init ==
  /\ routes = [r \in RouteId |-> NONE]
  /\ segments = [r \in RouteId |-> {}]
  /\ residents = [x \in ResidentId |-> NONE]
  /\ nextRoute = 1 /\ nextResident = 1
  /\ request = [h \in Requests |-> NoRequest]
  /\ events = 0 /\ faults = 0

EditRoute(h, r) ==
  \/ \E active \in BOOLEAN : UpdateRoute(h, r, active)
  \/ \E row \in Row : AddSegment(h, r, row)
  \/ \E row \in segments[r], street \in Streets : UpdateSegment(h, r, row, street)
  \/ \E row \in segments[r] : RemoveSegment(h, r, row)
  \/ \E n \in 1..MaxSegments : \E streets \in [0..(n - 1) -> Streets] :
       ReplaceSegments(h, r, n, streets)

EditResident(h, x) ==
  \/ Edit(h, x)
  \/ \E home \in Homes :
       \/ Locate(h, x, home)
       \/ Unassign(h, x, home)
       \/ \E r \in RouteId : Assign(h, x, home, r)

Proceed(h) ==
  \/ StoreRoute(h) \/ WriteSegments(h) \/ RebuildCenterline(h) \/ Reassign(h)
  \/ FindCollectionPoint(h) \/ PointOnRoute(h) \/ NameStreet(h) \/ SaveResident(h)
  \/ Fault(h)

Next ==
  \/ CreateRoute
  \/ \E r \in RouteId : RemoveRoute(r)
  \/ \E x \in ResidentId : RemoveResident(x)
  \/ \E h \in Requests :
       \/ \E r \in RouteId : EditRoute(h, r)
       \/ \E home \in Homes : Register(h, home)
       \/ \E x \in ResidentId : EditResident(h, x)
       \/ Proceed(h)

Spec == Init /\ [][Next]_vars

-----------------------------------------------------------------------------
(* Properties                                                              *)

(* A centerline is the chain of the route's segments once the edit that    *)
(* changed them is through, whichever way they were edited, and whatever   *)
(* is done to the route's own row meanwhile: nobody is anchored to a road  *)
(* that is no longer there.  A request that is cut off ends the promise.   *)
CenterlineIsCurrent ==
  faults = 0 =>
    \A r \in RouteId :
      \/ routes[r] = NONE
      \/ routes[r].centerline = segments[r]
      \/ \E h \in Requests : request[h].at = "rebuild" /\ AboutRoute(h, r)

(* Whoever was not assigned by hand walks no further than the limit, and   *)
(* every route somebody is anchored to exists.                             *)
WithinReach ==
  \A x \in ResidentId :
    residents[x] # NONE /\ RouteOf(residents[x].point) # NONE =>
      /\ routes[residents[x].point.route] # NONE
      /\ residents[x].locked \/ residents[x].point.distance <= MaxSnap

(* Distances as they really are, from the map. *)
Reaches(r, home) == \E w \in routes[r].centerline : Walk(home, w) <= MaxSnap
Beats(q, r, home) ==
  \E v \in routes[q].centerline : \A w \in routes[r].centerline : Walk(home, v) < Walk(home, w)

Redrawn(h) == request[h].at = "reassign" /\ request'[h] = NoRequest /\ UNCHANGED faults

(* When a redraw is through, nobody that it concerns is left without a     *)
(* route while one passes within reach, nor with one that does not, that   *)
(* is out of service, or to which another in service is nearer; whatever   *)
(* others do to the residents in the meantime.                             *)
RedrawServes ==
  [][\A h \in Requests, x \in ResidentId :
       LET home == residents[x].home
           r == RouteOf(residents'[x].point)
       IN  Redrawn(h) /\ residents[x] # NONE /\ ~residents[x].locked
             /\ RouteOf(residents[x].point) \in {NONE, request[h].route} =>
           IF r = NONE THEN \A q \in Serving : ~Reaches(q, home)
           ELSE r \in Serving /\ Reaches(r, home) /\ \A q \in Serving : ~Beats(q, r, home)]_vars

(* Who was assigned by hand keeps the route until a request about that     *)
(* very resident changes it, or the route is removed: no redraw of any     *)
(* route, at whatever moment, undoes it.                                   *)
LockedIsKept ==
  [][\A x \in ResidentId :
       residents[x] # NONE /\ residents[x].locked /\ residents'[x] # residents[x] =>
         \/ residents'[x] = NONE
         \/ RouteOf(residents[x].point) # NONE /\ routes'[residents[x].point.route] = NONE
         \/ \E h \in Requests : request[h].resident = x /\ request[h].row = residents'[x]]_vars

(* When a redraw is through, who stays with the route is where it now      *)
(* passes: the stretch before the resident's point is the new one.         *)
OffsetsFollowTheRoad ==
  [][\A h \in Requests, x \in ResidentId :
       LET line == routes[request[h].route].centerline
       IN  Redrawn(h) /\ routes[request[h].route] # NONE /\ residents[x] # NONE
             /\ ~residents[x].locked /\ RouteOf(residents'[x].point) = request[h].route =>
           \E w \in Nearest(line, residents[x].home) :
             residents'[x].point.offset = Before(line, w)]_vars
=============================================================================
