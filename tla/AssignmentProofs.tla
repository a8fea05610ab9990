-------------------------- MODULE AssignmentProofs --------------------------
(***************************************************************************)
(* Anchors are within reach and of routes that exist, redraws leave nobody *)
(* behind and undo nothing done by hand, and centerlines are current: for  *)
(* any map, and any number of routes, residents and requests.              *)
(***************************************************************************)
EXTENDS Assignment, WellFoundedInduction, TLAPS

-----------------------------------------------------------------------------
(* What a request in flight has read.                                      *)

Fits(row) ==
  row.point # NONE /\ row.point.route # NONE /\ ~row.locked => row.point.distance <= MaxSnap

RecordOk(q) ==
  /\ q.at = "idle" => q = NoRequest
  /\ q.at \in {"edit", "rebuild", "reassign", "store"} =>
       q.route \in RouteId /\ q.resident = NONE
  /\ q.at = "store" => q.copy \in Route
  /\ q.at \in {"find", "obey", "name", "save"} =>
       q.resident \in ResidentId /\ q.row \in Resident
  /\ q.at = "obey" => q.route \in RouteId /\ q.row.locked
  /\ q.at = "name" => q.row.point \in Point /\ q.row.point.route \in RouteId
  /\ q.at \in {"name", "save"} => Fits(q.row)

RowsOk ==
  \A x \in ResidentId : residents[x] # NONE =>
    /\ Fits(residents[x])
    /\ RouteOf(residents[x].point) # NONE => routes[residents[x].point.route] # NONE

ReachInv ==
  /\ TypeOK
  /\ \A h \in Requests : RecordOk(request[h])
  /\ RowsOk

LEMMA NoneIsNoRow ==
  /\ NONE \notin RouteId /\ NONE \notin ResidentId
  /\ NONE \notin Route /\ NONE \notin Point /\ NONE \notin Resident
<1>1. RouteId \subseteq Nat /\ ResidentId \subseteq Nat
  BY BoundsAssumption DEF RouteId, ResidentId
<1> QED
  BY <1>1, BoundsAssumption, RowAssumption

(* A slot gets a new record; the other slots keep theirs. *)
LEMMA SlotFrame ==
  ASSUME TypeOK, NEW h \in Requests, NEW rec \in Request,
         request' = [request EXCEPT ![h] = rec]
  PROVE  /\ request' \in [Requests -> Request]
         /\ request'[h] = rec
         /\ \A g \in Requests \ {h} : request'[g] = request[g]
BY DEF TypeOK

LEMMA Resting ==
  NoRequest \in Request /\ RecordOk(NoRequest)
BY DEF NoRequest, Request, OrNone, RecordOk

-----------------------------------------------------------------------------
(* The map                                                                 *)

LEMMA WalkType ==
  ASSUME NEW home \in Homes, NEW w \in Row PROVE Walk(home, w) \in Nat
<1>1. home \in Int /\ w.street \in Int
  BY BoundsAssumption DEF Row
<1> QED
  BY <1>1 DEF Walk

LEMMA PointsOnType ==
  ASSUME TypeOK, NEW r \in RouteId, routes[r] # NONE, NEW home \in Homes,
         NEW p \in PointsOn(r, home)
  PROVE  p \in Point /\ p.route = r
<1>1. routes[r].centerline \subseteq Row
  BY DEF TypeOK, OrNone, Route
<1>2. PICK w \in Nearest(routes[r].centerline, home) :
        p = [route |-> r, segment |-> NONE, offset |-> Before(routes[r].centerline, w),
             distance |-> Walk(home, w)]
  BY DEF PointsOn
<1>3. w \in Row /\ Before(routes[r].centerline, w) \subseteq Row
  BY <1>1 DEF Nearest, Before
<1>4. Walk(home, w) \in Nat
  BY <1>3, WalkType
<1> QED
  BY <1>2, <1>3, <1>4 DEF Point, OrNone

(* What is found is a point of a route in service, within reach, and no    *)
(* other point of a route in service is nearer.                            *)
LEMMA FoundType ==
  ASSUME TypeOK, NEW home \in Homes, NEW p \in CollectionPoints(home), p # NONE
  PROVE  /\ p \in Point /\ p.route \in Serving /\ p.distance <= MaxSnap
         /\ p \in PointsOn(p.route, home)
         /\ \A r \in Serving : \A q \in PointsOn(r, home) : p.distance <= q.distance
<1> DEFINE points == UNION {PointsOn(r, home) : r \in Serving}
<1>1. p \in points /\ (\A q \in points : p.distance <= q.distance) /\ p.distance <= MaxSnap
  BY DEF CollectionPoints
<1>2. PICK r \in Serving : p \in PointsOn(r, home)
  BY <1>1
<1>3. r \in RouteId /\ routes[r] # NONE
  BY DEF Serving, Drawn
<1>4. p \in Point /\ p.route = r
  BY <1>2, <1>3, PointsOnType
<1> QED
  BY <1>1, <1>2, <1>4

LEMMA NamedType ==
  ASSUME TypeOK, NEW p \in Point, p.route \in RouteId, NEW home \in Homes,
         NEW q \in Named(p, home)
  PROVE  q \in Point /\ q.route = p.route /\ q.distance = p.distance
<1>1. PICK s \in NearestSegments(p.route, home) : q = [p EXCEPT !.segment = s]
  BY DEF Named
<1>2. segments[p.route] \subseteq Row
  BY DEF TypeOK
<1>3. s \in OrNone(Indexes)
  BY <1>2 DEF NearestSegments, Nearest, Row, OrNone
<1> QED
  BY <1>1, <1>3 DEF Point

LEMMA AnchorType ==
  ASSUME TypeOK, NEW x \in ResidentId, residents[x] # NONE, NEW p \in Anchors(x), p # NONE
  PROVE  /\ p \in Point /\ p.route \in Serving /\ p.distance <= MaxSnap
         /\ \E found \in CollectionPoints(residents[x].home) :
              found # NONE /\ found.route = p.route
<1> DEFINE home == residents[x].home
<1>1. home \in Homes
  BY DEF TypeOK, OrNone, Resident
<1>2. PICK found \in CollectionPoints(home) :
        p \in (IF found = NONE THEN {NONE} ELSE Named(found, home))
  BY DEF Anchors
<1>3. found # NONE /\ p \in Named(found, home)
  BY <1>2
<1>4. found \in Point /\ found.route \in Serving /\ found.distance <= MaxSnap
  BY <1>1, <1>3, FoundType
<1>5. found.route \in RouteId
  BY <1>4 DEF Serving
<1>6. p \in Point /\ p.route = found.route /\ p.distance = found.distance
  BY <1>1, <1>3, <1>4, <1>5, NamedType
<1> QED
  BY <1>3, <1>4, <1>6

-----------------------------------------------------------------------------
(* Steps that change a slot only, or a slot and the map.                   *)

LEMMA SlotStep ==
  ASSUME ReachInv, NEW h \in Requests, NEW rec \in Request, RecordOk(rec),
         request' = [request EXCEPT ![h] = rec],
         TypeOK', RowsOk'
  PROVE  ReachInv'
BY SlotFrame DEF ReachInv

LEMMA RequestTyped ==
  ASSUME TypeOK, NEW h \in Requests PROVE request[h] \in Request
BY DEF TypeOK

LEMMA PointsTyped ==
  ASSUME TypeOK, NEW row \in Resident
  PROVE  /\ row.point # NONE => row.point \in Point
         /\ RouteOf(row.point) # NONE => row.point \in Point /\ row.point.route \in RouteId
BY DEF Resident, OrNone, RouteOf, Point

LEMMA CountedType == ASSUME TypeOK, Counted PROVE events' \in 0..MaxEvents
BY BoundsAssumption DEF TypeOK, Counted

LEMMA RowsStay ==
  ASSUME RowsOk, UNCHANGED residents, TypeOK,
         \A r \in RouteId : routes[r] # NONE => routes'[r] # NONE
  PROVE  RowsOk'
<1> SUFFICES ASSUME NEW x \in ResidentId, residents[x] # NONE,
                    RouteOf(residents[x].point) # NONE
             PROVE  routes'[residents[x].point.route] # NONE
  BY DEF RowsOk, Fits, RouteOf
<1>1. residents[x].point.route \in RouteId
  BY PointsTyped DEF TypeOK, OrNone
<1> QED
  BY <1>1 DEF RowsOk

LEMMA CreateRouteReach ==
  ASSUME ReachInv, CreateRoute PROVE ReachInv'
<1> USE NoneIsNoRow
<1>1. [active |-> TRUE, centerline |-> {}] \in Route
  BY DEF Route
<1>2. /\ routes' \in [RouteId -> OrNone(Route)]
      /\ \A r \in RouteId : routes[r] # NONE => routes'[r] # NONE
  BY <1>1 DEF CreateRoute, ReachInv, TypeOK, OrNone
<1>3. nextRoute' \in 1..(MaxRoutes + 1)
  BY BoundsAssumption DEF CreateRoute, RouteId
<1>4. TypeOK'
  BY <1>2, <1>3 DEF CreateRoute, people, ReachInv, TypeOK
<1>5. RowsOk'
  BY <1>2, RowsStay DEF CreateRoute, people, ReachInv
<1> QED
  BY <1>4, <1>5 DEF CreateRoute, ReachInv

LEMMA RemoveRouteReach ==
  ASSUME ReachInv, NEW r \in RouteId, RemoveRoute(r) PROVE ReachInv'
<1> USE NoneIsNoRow
<1> DEFINE cleared(x) == [residents[x] EXCEPT !.point.route = NONE]
<1>1. ASSUME NEW x \in ResidentId, residents[x] # NONE, RouteOf(residents[x].point) = r
      PROVE  /\ cleared(x) \in Resident /\ cleared(x) # NONE
             /\ cleared(x).point # NONE /\ cleared(x).point.route = NONE
  <2>1. residents[x] \in Resident
    BY <1>1 DEF ReachInv, TypeOK, OrNone
  <2>2. residents[x].point \in Point
    BY <1>1, <2>1, PointsTyped DEF ReachInv
  <2>3. [residents[x].point EXCEPT !.route = NONE] \in Point
    BY <2>2 DEF Point, OrNone
  <2>4. cleared(x) = [residents[x] EXCEPT !.point = [residents[x].point EXCEPT !.route = NONE]]
    BY <2>1 DEF Resident
  <2>5. cleared(x) \in Resident
    BY <2>1, <2>3, <2>4 DEF Resident, OrNone
  <2>6. cleared(x).point = [residents[x].point EXCEPT !.route = NONE]
    BY <2>1, <2>4 DEF Resident
  <2> QED
    BY <2>2, <2>3, <2>5, <2>6 DEF Point
<1>2. /\ routes' \in [RouteId -> OrNone(Route)]
      /\ \A q \in RouteId \ {r} : routes'[q] = routes[q]
      /\ segments' \in [RouteId -> SUBSET Row]
  BY DEF RemoveRoute, ReachInv, TypeOK, OrNone
<1>3. residents' \in [ResidentId -> OrNone(Resident)]
  BY <1>1 DEF RemoveRoute, ReachInv, TypeOK, OrNone
<1>4. TypeOK'
  BY <1>2, <1>3, CountedType DEF RemoveRoute, ReachInv, TypeOK
<1>5. ASSUME NEW x \in ResidentId, residents'[x] # NONE
      PROVE  /\ Fits(residents'[x])
             /\ RouteOf(residents'[x].point) # NONE =>
                  routes'[residents'[x].point.route] # NONE
  <2>1. CASE residents[x] # NONE /\ RouteOf(residents[x].point) = r
    BY <1>1, <2>1 DEF RemoveRoute, Fits, RouteOf
  <2>2. CASE ~(residents[x] # NONE /\ RouteOf(residents[x].point) = r)
    <3>1. residents'[x] = residents[x] /\ residents[x] # NONE
      BY <1>5, <2>2 DEF RemoveRoute
    <3>2. residents[x] \in Resident
      BY <3>1 DEF ReachInv, TypeOK, OrNone
    <3>3. RouteOf(residents[x].point) # NONE =>
            residents[x].point.route \in RouteId \ {r} /\ routes[residents[x].point.route] # NONE
      BY <2>2, <3>1, <3>2, PointsTyped DEF ReachInv, RowsOk, RouteOf
    <3> QED
      BY <1>2, <3>1, <3>3 DEF ReachInv, RowsOk
  <2> QED
    BY <2>1, <2>2
<1>6. RowsOk'
  BY <1>5 DEF RowsOk, Fits, RouteOf
<1> QED
  BY <1>4, <1>6 DEF RemoveRoute, ReachInv

LEMMA SlotOnly ==
  ASSUME ReachInv, NEW h \in Requests, NEW rec \in Request, RecordOk(rec),
         request' = [request EXCEPT ![h] = rec], UNCHANGED <<map, residents>>,
         nextResident' \in 1..(MaxResidents + 1), events' \in 0..MaxEvents, faults' \in Nat
  PROVE  ReachInv'
<1>1. TypeOK'
  BY SlotFrame DEF ReachInv, TypeOK, map
<1>2. RowsOk'
  BY RowsStay DEF ReachInv, map
<1> QED
  BY <1>1, <1>2, SlotStep

LEMMA RouteRequestReach ==
  ASSUME ReachInv, NEW h \in Requests, NEW r \in RouteId, EditRoute(h, r) PROVE ReachInv'
<1> USE DEF ReachInv
<1>1. ASSUME NEW rec \in Request, RecordOk(rec), Counted, Asks(h, rec),
             UNCHANGED <<map, people, faults>>
      PROVE  ReachInv'
  BY <1>1, SlotOnly, CountedType DEF Asks, people, TypeOK
<1>2. ASSUME NEW drop \in SUBSET Row, NEW put \in SUBSET Row, Edits(h, r, drop, put)
      PROVE  ReachInv'
  <2> DEFINE rec == [NoRequest EXCEPT !.at = "edit", !.route = r, !.drop = drop, !.put = put]
  <2>1. rec \in Request /\ RecordOk(rec)
    BY DEF NoRequest, Request, OrNone, RecordOk
  <2> QED
    BY <1>1, <1>2, <2>1 DEF Edits
<1>3. segments[r] \subseteq Row
  BY DEF TypeOK
<1>4. ASSUME NEW active \in BOOLEAN, UpdateRoute(h, r, active) PROVE ReachInv'
  <2> DEFINE copy == [routes[r] EXCEPT !.active = active]
             rec == [NoRequest EXCEPT !.at = "store", !.route = r, !.copy = copy]
  <2>1. copy \in Route
    BY <1>4 DEF UpdateRoute, TypeOK, OrNone, Route
  <2> HIDE DEF copy
  <2>2. rec \in Request /\ RecordOk(rec)
    BY <2>1 DEF NoRequest, Request, OrNone, RecordOk
  <2> QED
    BY <1>1, <1>4, <2>2 DEF UpdateRoute, copy
<1>5. ASSUME NEW row \in Row, AddSegment(h, r, row) PROVE ReachInv'
  BY <1>2, <1>5 DEF AddSegment
<1>6. ASSUME NEW row \in segments[r], NEW street \in Streets, UpdateSegment(h, r, row, street)
      PROVE  ReachInv'
  <2>1. row \in Row
    BY <1>3
  <2>2. [row EXCEPT !.street = street] \in Row
    BY <2>1 DEF Row
  <2> QED
    BY <1>2, <1>6, <2>1, <2>2 DEF UpdateSegment
<1>7. ASSUME NEW row \in segments[r], RemoveSegment(h, r, row) PROVE ReachInv'
  BY <1>2, <1>3, <1>7 DEF RemoveSegment
<1>8. ASSUME NEW n \in 1..MaxSegments, NEW streets \in [0..(n - 1) -> Streets],
             ReplaceSegments(h, r, n, streets)
      PROVE  ReachInv'
  <2> DEFINE rec == [NoRequest EXCEPT !.at = "edit", !.route = r, !.redraw = TRUE,
                                      !.put = Numbered(n, streets)]
  <2>1. Numbered(n, streets) \subseteq Row
    BY BoundsAssumption DEF Numbered, Row, Indexes
  <2>2. rec \in Request /\ RecordOk(rec)
    BY <2>1 DEF NoRequest, Request, OrNone, RecordOk
  <2> QED
    BY <1>1, <1>8, <2>2 DEF ReplaceSegments
<1> QED
  BY <1>4, <1>5, <1>6, <1>7, <1>8 DEF EditRoute

LEMMA ResidentRequestReach ==
  ASSUME ReachInv, NEW h \in Requests, NEW x \in ResidentId, EditResident(h, x) PROVE ReachInv'
<1> USE NoneIsNoRow DEF ReachInv
<1>1. residents[x] # NONE => residents[x] \in Resident
  BY DEF TypeOK, OrNone
<1>2. ASSUME NEW at \in {"find", "obey", "save"}, NEW r \in OrNone(RouteId),
             NEW row, residents[x] # NONE => row \in Resident, Loads(h, x, at, r, row),
             at = "obey" => r \in RouteId /\ row.locked,
             at = "save" => Fits(row)
      PROVE  ReachInv'
  <2> DEFINE rec == [NoRequest EXCEPT !.at = at, !.route = r, !.resident = x, !.row = row]
  <2>1. rec \in Request /\ RecordOk(rec)
    BY <1>2 DEF Loads, NoRequest, Request, OrNone, RecordOk
  <2>2. nextResident' \in 1..(MaxResidents + 1) /\ faults' \in Nat /\ events' \in 0..MaxEvents
    BY <1>2, CountedType DEF Loads, people, TypeOK
  <2> QED
    BY <1>2, <2>1, <2>2, SlotOnly DEF Loads, Asks, people
<1>3. CASE Edit(h, x)
  <2>1. residents[x] # NONE => Fits(residents[x])
    BY DEF RowsOk
  <2>2. residents[x] # NONE
    BY <1>3 DEF Edit, Loads
  <2> QED
    BY <1>1, <1>2, <1>3, <2>1, <2>2 DEF Edit, OrNone
<1>4. ASSUME NEW home \in Homes, Locate(h, x, home) PROVE ReachInv'
  <2>1. residents[x] # NONE =>
          [residents[x] EXCEPT !.home = home, !.locked = FALSE] \in Resident
    BY <1>1 DEF Resident
  <2> QED
    BY <1>2, <1>4, <2>1 DEF Locate, OrNone
<1>5. ASSUME NEW home \in Homes, Unassign(h, x, home) PROVE ReachInv'
  <2> DEFINE row == [home |-> home, locked |-> TRUE, point |-> NONE]
  <2>1. row \in Resident /\ Fits(row)
    BY DEF Resident, OrNone, Fits
  <2> QED
    BY <1>2, <1>5, <2>1 DEF Unassign, OrNone
<1>6. ASSUME NEW home \in Homes, NEW r \in RouteId, Assign(h, x, home, r) PROVE ReachInv'
  <2> DEFINE row == [residents[x] EXCEPT !.home = home, !.locked = TRUE]
  <2>1. residents[x] # NONE
    BY <1>6 DEF Assign, Loads
  <2>2. row \in Resident /\ row.locked
    BY <1>1, <2>1 DEF Resident
  <2> QED
    BY <1>2, <1>6, <2>2 DEF Assign, OrNone
<1> QED
  BY <1>3, <1>4, <1>5, <1>6 DEF EditResident

LEMMA RegisterReach ==
  ASSUME ReachInv, NEW h \in Requests, NEW home \in Homes, Register(h, home) PROVE ReachInv'
<1> DEFINE row == [home |-> home, locked |-> FALSE, point |-> NONE]
           rec == [NoRequest EXCEPT !.at = "find", !.resident = nextResident, !.row = row]
<1>1. row \in Resident
  BY DEF Resident, OrNone
<1> HIDE DEF row
<1>2. rec \in Request /\ RecordOk(rec)
  BY <1>1 DEF Register, NoRequest, Request, OrNone, RecordOk
<1>3. nextResident' \in 1..(MaxResidents + 1)
  BY BoundsAssumption DEF Register, ResidentId
<1> QED
  BY <1>2, <1>3, SlotOnly DEF Register, Asks, row, ReachInv, TypeOK

LEMMA RemoveResidentReach ==
  ASSUME ReachInv, NEW x \in ResidentId, RemoveResident(x) PROVE ReachInv'
<1>1. /\ residents' \in [ResidentId -> OrNone(Resident)]
      /\ residents'[x] = NONE
      /\ \A y \in ResidentId \ {x} : residents'[y] = residents[y]
  BY DEF RemoveResident, ReachInv, TypeOK, OrNone
<1>2. TypeOK'
  BY <1>1, CountedType DEF RemoveResident, map, ReachInv, TypeOK
<1>3. RowsOk'
  <2> SUFFICES ASSUME NEW y \in ResidentId, residents'[y] # NONE
               PROVE  /\ Fits(residents'[y])
                      /\ RouteOf(residents'[y].point) # NONE =>
                           routes'[residents'[y].point.route] # NONE
    BY DEF RowsOk, Fits, RouteOf
  <2>1. y # x /\ residents'[y] = residents[y] /\ routes' = routes
    BY <1>1 DEF RemoveResident, map
  <2> QED
    BY <2>1 DEF ReachInv, RowsOk
<1> QED
  BY <1>2, <1>3 DEF RemoveResident, ReachInv

-----------------------------------------------------------------------------
(* Steps of a request under way.                                           *)

LEMMA FinishType ==
  ASSUME ReachInv, NEW h \in Requests, Finish(h), TypeOK', RowsOk' PROVE ReachInv'
BY Resting, SlotStep DEF Finish, Goto

LEMMA StoreRouteReach ==
  ASSUME ReachInv, NEW h \in Requests, StoreRoute(h) PROVE ReachInv'
<1> USE NoneIsNoRow DEF ReachInv
<1>1. request[h].route \in RouteId /\ request[h].copy \in Route
  BY DEF StoreRoute, RecordOk
<1>2. /\ routes' \in [RouteId -> OrNone(Route)]
      /\ \A r \in RouteId : routes[r] # NONE => routes'[r] # NONE
  BY <1>1 DEF StoreRoute, TypeOK, OrNone
<1>3. TypeOK'
  BY <1>2, Resting, SlotFrame DEF StoreRoute, Finish, Goto, people, TypeOK
<1>4. RowsOk'
  BY <1>2, RowsStay DEF StoreRoute, people
<1> QED
  BY <1>3, <1>4, FinishType DEF StoreRoute

LEMMA WriteSegmentsReach ==
  ASSUME ReachInv, NEW h \in Requests, WriteSegments(h) PROVE ReachInv'
<1> USE NoneIsNoRow DEF ReachInv
<1> DEFINE rec == [request[h] EXCEPT !.at = "rebuild"]
<1>1. /\ request[h] \in Request /\ RecordOk(request[h])
      /\ request[h].route \in RouteId /\ request[h].put \subseteq Row
  BY RequestTyped DEF WriteSegments, RecordOk, Request
<1>2. rec \in Request /\ RecordOk(rec)
  BY <1>1 DEF WriteSegments, Request, RecordOk
<1>3. segments' \in [RouteId -> SUBSET Row]
  BY <1>1 DEF WriteSegments, TypeOK
<1>4. RowsOk'
  BY RowsStay DEF WriteSegments, people
<1>5. CASE Finish(h)
  <2>1. TypeOK'
    BY <1>3, <1>5, Resting, SlotFrame DEF WriteSegments, Finish, Goto, people, TypeOK
  <2> QED
    BY <1>4, <1>5, <2>1, FinishType
<1>6. CASE Goto(h, rec)
  <2> HIDE DEF rec
  <2>1. TypeOK'
    BY <1>2, <1>3, <1>6, SlotFrame DEF WriteSegments, Goto, people, TypeOK
  <2> QED
    BY <1>2, <1>4, <1>6, <2>1, SlotStep DEF Goto
<1> QED
  BY <1>5, <1>6 DEF WriteSegments

LEMMA RebuildCenterlineReach ==
  ASSUME ReachInv, NEW h \in Requests, RebuildCenterline(h) PROVE ReachInv'
<1> USE NoneIsNoRow DEF ReachInv
<1> DEFINE r == request[h].route
           rec == [request[h] EXCEPT !.at = "reassign"]
           line == [routes[r] EXCEPT !.centerline = Chain(r)]
<1>1. request[h] \in Request /\ RecordOk(request[h]) /\ r \in RouteId
  BY RequestTyped DEF RebuildCenterline, RecordOk
<1>2. rec \in Request /\ RecordOk(rec)
  BY <1>1 DEF RebuildCenterline, Request, RecordOk
<1>3. routes[r] # NONE => line \in Route
  BY <1>1 DEF TypeOK, OrNone, Route, Chain
<1>4. routes' = [routes EXCEPT ![r] = IF routes[r] = NONE THEN NONE ELSE line]
  BY DEF RebuildCenterline
<1> HIDE DEF line
<1>5. /\ routes' \in [RouteId -> OrNone(Route)]
      /\ \A q \in RouteId : routes[q] # NONE => routes'[q] # NONE
  BY <1>1, <1>3, <1>4 DEF TypeOK, OrNone
<1>6. RowsOk'
  BY <1>5, RowsStay DEF RebuildCenterline, people
<1>7. CASE Finish(h)
  <2>1. TypeOK'
    BY <1>5, <1>7, Resting, SlotFrame DEF RebuildCenterline, Finish, Goto, people, TypeOK
  <2> QED
    BY <1>6, <1>7, <2>1, FinishType
<1>8. CASE Goto(h, rec)
  <2> HIDE DEF rec
  <2>1. TypeOK'
    BY <1>2, <1>5, <1>8, SlotFrame DEF RebuildCenterline, Goto, people, TypeOK
  <2> QED
    BY <1>2, <1>6, <1>8, <2>1, SlotStep DEF Goto
<1> QED
  BY <1>7, <1>8 DEF RebuildCenterline

(* A resident as Reassign leaves it. *)
LEMMA Reanchored ==
  ASSUME ReachInv, NEW x \in ResidentId, residents[x] # NONE, NEW p \in Anchors(x)
  PROVE  LET row == [residents[x] EXCEPT !.point = p]
         IN  /\ row \in Resident /\ row # NONE /\ Fits(row)
             /\ RouteOf(row.point) # NONE => routes[row.point.route] # NONE
<1> USE NoneIsNoRow DEF ReachInv
<1>1. residents[x] \in Resident
  BY DEF TypeOK, OrNone
<1>2. CASE p = NONE
  BY <1>1, <1>2 DEF Resident, OrNone, Fits, RouteOf
<1>3. CASE p # NONE
  <2>1. p \in Point /\ p.route \in Serving /\ p.distance <= MaxSnap
    BY <1>3, AnchorType
  <2>2. routes[p.route] # NONE
    BY <2>1 DEF Serving, Drawn
  <2> QED
    BY <1>1, <2>1, <2>2 DEF Resident, OrNone, Fits, RouteOf
<1> QED
  BY <1>2, <1>3

LEMMA ReassignReach ==
  ASSUME ReachInv, NEW h \in Requests, Reassign(h) PROVE ReachInv'
<1> USE NoneIsNoRow DEF ReachInv
<1> DEFINE concerned == Concerned(request[h].route)
<1>1. PICK found \in [concerned -> UNION {Anchors(x) : x \in concerned}] :
        /\ \A x \in concerned : found[x] \in Anchors(x)
        /\ residents' = [x \in ResidentId |->
             IF x \in concerned /\ Distinct(residents[x].point, found[x])
             THEN [residents[x] EXCEPT !.point = found[x]] ELSE residents[x]]
  BY DEF Reassign
<1>2. \A x \in concerned : x \in ResidentId /\ residents[x] # NONE /\ found[x] \in Anchors(x)
  BY <1>1 DEF Concerned
<1> HIDE DEF concerned
<1>3. ASSUME NEW x \in ResidentId
      PROVE  /\ residents'[x] \in OrNone(Resident)
             /\ residents'[x] # NONE =>
                  /\ Fits(residents'[x])
                  /\ RouteOf(residents'[x].point) # NONE =>
                       routes[residents'[x].point.route] # NONE
  <2>1. CASE x \in concerned /\ Distinct(residents[x].point, found[x])
    <3> DEFINE row == [residents[x] EXCEPT !.point = found[x]]
    <3>1. residents'[x] = row
      BY <1>1, <2>1
    <3>2. /\ row \in Resident /\ Fits(row)
          /\ RouteOf(row.point) # NONE => routes[row.point.route] # NONE
      BY <1>2, <2>1, Reanchored
    <3> HIDE DEF row
    <3> QED
      BY <3>1, <3>2 DEF OrNone
  <2>2. CASE ~(x \in concerned /\ Distinct(residents[x].point, found[x]))
    <3>1. residents'[x] = residents[x]
      BY <1>1, <2>2
    <3> QED
      BY <3>1 DEF RowsOk, TypeOK
  <2> QED
    BY <2>1, <2>2
<1>4. residents' \in [ResidentId -> OrNone(Resident)]
  BY <1>1, <1>3
<1>5. TypeOK'
  BY <1>4, Resting, SlotFrame DEF Reassign, Finish, Goto, map, TypeOK
<1>6. RowsOk'
  BY <1>3 DEF Reassign, map, RowsOk, Fits, RouteOf
<1> QED
  BY <1>5, <1>6, FinishType DEF Reassign

LEMMA FindCollectionPointReach ==
  ASSUME ReachInv, NEW h \in Requests, FindCollectionPoint(h) PROVE ReachInv'
<1> USE NoneIsNoRow DEF ReachInv
<1> DEFINE row == request[h].row
<1>1. /\ request[h] \in Request /\ RecordOk(request[h])
      /\ row \in Resident /\ row.home \in Homes /\ request[h].resident \in ResidentId
  BY RequestTyped DEF FindCollectionPoint, RecordOk, Resident
<1>2. PICK p \in CollectionPoints(row.home) :
        Goto(h, [request[h] EXCEPT !.at = IF p = NONE THEN "save" ELSE "name", !.row.point = p])
  BY Zenon DEF FindCollectionPoint
<1> DEFINE new == [row EXCEPT !.point = p]
           rec == [request[h] EXCEPT !.at = IF p = NONE THEN "save" ELSE "name", !.row = new]
<1>3. p # NONE => p \in Point /\ p.route \in RouteId /\ p.distance <= MaxSnap
  BY <1>1, FoundType DEF Serving
<1>4. new \in Resident /\ new.point = p /\ Fits(new)
  BY <1>1, <1>3 DEF Resident, OrNone, Fits
<1>5. Goto(h, rec)
  BY <1>1, <1>2 DEF Request
<1> HIDE DEF new
<1>6. rec \in Request /\ RecordOk(rec)
  BY <1>1, <1>3, <1>4 DEF Request, OrNone, RecordOk
<1> QED
  BY <1>5, <1>6, SlotOnly DEF FindCollectionPoint, Goto, people, TypeOK

LEMMA PointOnRouteReach ==
  ASSUME ReachInv, NEW h \in Requests, PointOnRoute(h) PROVE ReachInv'
<1> USE NoneIsNoRow DEF ReachInv
<1> DEFINE row == request[h].row
           r == request[h].route
<1>1. /\ request[h] \in Request /\ RecordOk(request[h])
      /\ row \in Resident /\ row.home \in Homes /\ request[h].resident \in ResidentId
      /\ r \in RouteId /\ row.locked
  BY RequestTyped, Zenon DEF PointOnRoute, RecordOk, Resident
<1>2. CASE ~Drawn(r)
  BY <1>2, Resting, SlotOnly DEF PointOnRoute, Finish, Goto, people, TypeOK
<1>3. CASE Drawn(r)
  <2>1. PICK p \in PointsOn(r, row.home) :
          Goto(h, [request[h] EXCEPT !.at = "name", !.row.point = p])
    BY <1>3, Zenon DEF PointOnRoute
  <2> DEFINE new == [row EXCEPT !.point = p]
             rec == [request[h] EXCEPT !.at = "name", !.row = new]
  <2>2. p \in Point /\ p.route \in RouteId
    BY <1>1, <1>3, PointsOnType DEF Drawn
  <2>3. new \in Resident /\ new.point = p /\ Fits(new)
    BY <1>1, <2>2 DEF Resident, OrNone, Fits
  <2>4. Goto(h, rec)
    BY <1>1, <2>1 DEF Request
  <2> HIDE DEF new
  <2>5. rec \in Request /\ RecordOk(rec)
    BY <1>1, <2>2, <2>3 DEF Request, OrNone, RecordOk
  <2> QED
    BY <2>4, <2>5, SlotOnly, Zenon DEF PointOnRoute, Goto, people, TypeOK
<1> QED
  BY <1>2, <1>3

LEMMA NameStreetReach ==
  ASSUME ReachInv, NEW h \in Requests, NameStreet(h) PROVE ReachInv'
<1> USE NoneIsNoRow DEF ReachInv
<1> DEFINE row == request[h].row
<1>1. /\ request[h] \in Request /\ RecordOk(request[h])
      /\ row \in Resident /\ row.home \in Homes /\ request[h].resident \in ResidentId
      /\ row.point \in Point /\ row.point.route \in RouteId /\ Fits(row)
  BY RequestTyped DEF NameStreet, RecordOk, Resident
<1>2. PICK p \in Named(row.point, row.home) :
        Goto(h, [request[h] EXCEPT !.at = "save", !.row.point = p])
  BY Zenon DEF NameStreet
<1> DEFINE new == [row EXCEPT !.point = p]
           rec == [request[h] EXCEPT !.at = "save", !.row = new]
<1>3. p \in Point /\ p.route = row.point.route /\ p.distance = row.point.distance
  BY <1>1, NamedType
<1>4. new \in Resident /\ Fits(new)
  BY <1>1, <1>3 DEF Resident, OrNone, Fits
<1>5. Goto(h, rec)
  BY <1>1, <1>2 DEF Request
<1> HIDE DEF new
<1>6. rec \in Request /\ RecordOk(rec)
  BY <1>1, <1>4 DEF Request, OrNone, RecordOk
<1> QED
  BY <1>5, <1>6, SlotOnly DEF NameStreet, Goto, people, TypeOK

LEMMA SaveResidentReach ==
  ASSUME ReachInv, NEW h \in Requests, SaveResident(h) PROVE ReachInv'
<1> USE NoneIsNoRow DEF ReachInv
<1> DEFINE row == request[h].row
           y == request[h].resident
<1>1. y \in ResidentId /\ row \in Resident /\ Fits(row)
  BY DEF SaveResident, RecordOk
<1>2. RowsOk' /\ residents' \in [ResidentId -> OrNone(Resident)]
  <2>1. CASE RouteOf(row.point) # NONE /\ routes[RouteOf(row.point)] = NONE
    BY <2>1 DEF SaveResident, map, TypeOK, RowsOk, Fits, RouteOf
  <2>2. CASE ~(RouteOf(row.point) # NONE /\ routes[RouteOf(row.point)] = NONE)
    <3>1. residents' = [residents EXCEPT ![y] = row] /\ routes' = routes
      BY <2>2 DEF SaveResident, map
    <3>2. residents' \in [ResidentId -> OrNone(Resident)]
      BY <1>1, <3>1 DEF TypeOK, OrNone
    <3>3. /\ residents'[y] = row
          /\ \A x \in ResidentId \ {y} : residents'[x] = residents[x]
      BY <1>1, <3>1 DEF TypeOK
    <3>4. RouteOf(row.point) # NONE => routes[row.point.route] # NONE
      BY <2>2 DEF RouteOf
    <3> QED
      BY <1>1, <3>1, <3>2, <3>3, <3>4 DEF RowsOk, Fits, RouteOf
  <2> QED
    BY <2>1, <2>2
<1>3. TypeOK'
  BY <1>2, Resting, SlotFrame DEF SaveResident, Finish, Goto, map, TypeOK
<1> QED
  BY <1>2, <1>3, FinishType DEF SaveResident

LEMMA FaultReach ==
  ASSUME ReachInv, NEW h \in Requests, Fault(h) PROVE ReachInv'
<1>1. TypeOK /\ events' \in 0..MaxEvents /\ faults' \in Nat
  BY CountedType DEF Fault, ReachInv, TypeOK
<1>2. UNCHANGED <<map, residents>> /\ nextResident' \in 1..(MaxResidents + 1)
  BY <1>1 DEF Fault, people, TypeOK
<1> QED
  BY <1>1, <1>2, Resting, SlotOnly DEF Fault

-----------------------------------------------------------------------------
(* The invariant                                                           *)

LEMMA ReachInit == Init => ReachInv
<1> USE NoneIsNoRow
<1> SUFFICES ASSUME Init PROVE ReachInv
  OBVIOUS
<1>1. TypeOK
  BY BoundsAssumption, Resting DEF Init, TypeOK, OrNone, RouteId, ResidentId
<1> QED
  BY <1>1, Resting DEF Init, ReachInv, RowsOk

LEMMA ReachStep == ReachInv /\ [Next]_vars => ReachInv'
<1> SUFFICES ASSUME ReachInv, [Next]_vars PROVE ReachInv'
  OBVIOUS
<1>1. CASE UNCHANGED vars
  BY <1>1 DEF vars, map, people, ReachInv, TypeOK, RowsOk, Fits, RouteOf
<1>2. CASE CreateRoute
  BY <1>2, CreateRouteReach
<1>3. CASE \E r \in RouteId : RemoveRoute(r)
  BY <1>3, RemoveRouteReach
<1>4. CASE \E x \in ResidentId : RemoveResident(x)
  BY <1>4, RemoveResidentReach
<1>5. ASSUME NEW h \in Requests, \E r \in RouteId : EditRoute(h, r) PROVE ReachInv'
  BY <1>5, RouteRequestReach
<1>6. ASSUME NEW h \in Requests, \E home \in Homes : Register(h, home) PROVE ReachInv'
  BY <1>6, RegisterReach
<1>7. ASSUME NEW h \in Requests, \E x \in ResidentId : EditResident(h, x) PROVE ReachInv'
  BY <1>7, ResidentRequestReach
<1>8. ASSUME NEW h \in Requests, Proceed(h) PROVE ReachInv'
  BY <1>8, StoreRouteReach, WriteSegmentsReach, RebuildCenterlineReach, ReassignReach,
     FindCollectionPointReach, PointOnRouteReach, NameStreetReach, SaveResidentReach,
     FaultReach DEF Proceed
<1> QED
  BY <1>1, <1>2, <1>3, <1>4, <1>5, <1>6, <1>7, <1>8 DEF Next

LEMMA ReachHolds == Spec => []ReachInv
BY ReachInit, ReachStep, PTL DEF Spec

(* Routes, residents and the records of the requests have their types.     *)
THEOREM TypesKept == Spec => []TypeOK
<1>1. ReachInv => TypeOK
  BY DEF ReachInv
<1> QED
  BY <1>1, ReachHolds, PTL

(* Nobody but who was assigned by hand is anchored beyond walking          *)
(* distance, and nobody to a route that was removed, whatever requests     *)
(* overlap and wherever they are cut off.                                  *)
THEOREM NobodyWalksTooFar == Spec => []WithinReach
<1>1. ReachInv => WithinReach
  BY DEF ReachInv, RowsOk, WithinReach, Fits, RouteOf
<1> QED
  BY <1>1, ReachHolds, PTL

-----------------------------------------------------------------------------
(* What is done by hand is kept.                                           *)

LEMMA LockedStep ==
  ASSUME ReachInv, [Next]_vars, NEW x \in ResidentId,
         residents[x] # NONE, residents[x].locked, residents'[x] # residents[x]
  PROVE  \/ residents'[x] = NONE
         \/ RouteOf(residents[x].point) # NONE /\ routes'[residents[x].point.route] = NONE
         \/ \E h \in Requests : request[h].resident = x /\ request[h].row = residents'[x]
<1>1. CASE UNCHANGED residents
  BY <1>1
<1>2. ASSUME NEW r \in RouteId, RemoveRoute(r)
      PROVE  RouteOf(residents[x].point) # NONE /\ routes'[residents[x].point.route] = NONE
  BY <1>2, NoneIsNoRow DEF RemoveRoute, ReachInv, TypeOK, RouteOf
<1>3. ASSUME NEW y \in ResidentId, RemoveResident(y) PROVE residents'[x] = NONE
  BY <1>3 DEF RemoveResident, ReachInv, TypeOK
<1>4. ASSUME NEW h \in Requests, Reassign(h) PROVE FALSE
  BY <1>4 DEF Reassign, Concerned
<1>5. ASSUME NEW h \in Requests, SaveResident(h)
      PROVE  request[h].resident = x /\ request[h].row = residents'[x]
  BY <1>5 DEF SaveResident, ReachInv, TypeOK, RecordOk
<1>6. ASSUME NEW h \in Requests, NEW r \in RouteId, EditRoute(h, r) PROVE UNCHANGED residents
  BY <1>6, Zenon DEF EditRoute, UpdateRoute, AddSegment, UpdateSegment, RemoveSegment, Edits,
              ReplaceSegments, people
<1>7. ASSUME NEW h \in Requests, NEW y \in ResidentId, EditResident(h, y)
      PROVE  UNCHANGED residents
  BY <1>7, Zenon DEF EditResident, Edit, Locate, Assign, Unassign, Loads, people
<1>8. ASSUME NEW h \in Requests, Proceed(h), ~Reassign(h), ~SaveResident(h)
      PROVE  UNCHANGED residents
  BY <1>8, Zenon DEF Proceed, StoreRoute, WriteSegments, RebuildCenterline, FindCollectionPoint,
              PointOnRoute, NameStreet, Fault, people
<1> QED
  BY <1>1, <1>2, <1>3, <1>4, <1>5, <1>6, <1>7, <1>8, Zenon
     DEF Next, CreateRoute, Register, people, vars

(* Only a request about the resident, or the end of the route, changes the *)
(* assignment of who was assigned by hand.                                 *)
THEOREM HandmadeIsKept == Spec => LockedIsKept
<1>1. ReachInv /\ [Next]_vars =>
        [\A x \in ResidentId :
           residents[x] # NONE /\ residents[x].locked /\ residents'[x] # residents[x] =>
             \/ residents'[x] = NONE
             \/ RouteOf(residents[x].point) # NONE /\ routes'[residents[x].point.route] = NONE
             \/ \E h \in Requests :
                  request[h].resident = x /\ request[h].row = residents'[x]]_vars
  BY LockedStep
<1> QED
  BY <1>1, ReachHolds, PTL DEF Spec, LockedIsKept

-----------------------------------------------------------------------------
(* Redraws                                                                 *)

LEMMA LeastNumber ==
  ASSUME NEW S \in SUBSET Nat, S # {} PROVE \E m \in S : \A n \in S : m <= n
<1>1. \E m \in S : \A n \in S : <<n, m>> \notin OpToRel(<, Nat)
  BY NatLessThanWellFounded, WFMin, Zenon
<1>2. \A m, n \in Nat : <<n, m>> \notin OpToRel(<, Nat) => m <= n
  BY DEF OpToRel
<1> QED
  BY <1>1, <1>2, Zenon

(* A route has a point at least as near as any place of its centerline.    *)
LEMMA NearestExists ==
  ASSUME TypeOK, NEW r \in RouteId, routes[r] # NONE, NEW home \in Homes,
         NEW v \in routes[r].centerline
  PROVE  \E p \in PointsOn(r, home) : p.distance <= Walk(home, v)
<1> DEFINE line == routes[r].centerline
           walks == {Walk(home, w) : w \in line}
<1>1. line \subseteq Row
  BY DEF TypeOK, OrNone, Route
<1>2. walks \in SUBSET Nat /\ walks # {}
  BY <1>1, WalkType
<1>3. PICK m \in walks : \A n \in walks : m <= n
  BY <1>2, LeastNumber
<1>4. PICK w \in line : m = Walk(home, w)
  BY <1>3
<1>5. w \in Nearest(line, home) /\ Walk(home, w) <= Walk(home, v)
  BY <1>3, <1>4 DEF Nearest
<1> DEFINE p == [route |-> r, segment |-> NONE, offset |-> Before(line, w),
                 distance |-> Walk(home, w)]
<1>6. p \in PointsOn(r, home)
  BY <1>5 DEF PointsOn
<1> QED
  BY <1>5, <1>6

(* Nobody is told that no route is near while one is.                      *)
LEMMA FoundIfReached ==
  ASSUME TypeOK, NEW home \in Homes, NEW q \in Serving, Reaches(q, home)
  PROVE  NONE \notin CollectionPoints(home)
<1> DEFINE points == UNION {PointsOn(r, home) : r \in Serving}
           nearest == {p \in points : \A o \in points : p.distance <= o.distance}
           within == {p \in nearest : p.distance <= MaxSnap}
           distances == {p.distance : p \in points}
<1>1. \A p \in points : p \in Point
  BY PointsOnType DEF Serving, Drawn
<1>2. distances \in SUBSET Nat
  BY <1>1 DEF Point
<1>3. q \in RouteId /\ routes[q] # NONE
  BY DEF Serving, Drawn
<1>4. PICK w \in routes[q].centerline : Walk(home, w) <= MaxSnap
  BY DEF Reaches
<1>5. PICK near \in PointsOn(q, home) : near.distance <= Walk(home, w)
  BY <1>3, NearestExists
<1>6. near \in points /\ near.distance \in Nat
  BY <1>1 DEF Point
<1>7. PICK m \in distances : \A n \in distances : m <= n
  <2>1. distances # {}
    BY <1>6
  <2> HIDE DEF distances
  <2> QED
    BY <1>2, <2>1, LeastNumber
<1>8. PICK p \in points : p.distance = m
  BY <1>7
<1>9. w \in Row
  BY <1>3 DEF TypeOK, OrNone, Route
<1>10. p.distance \in Nat /\ Walk(home, w) \in Nat /\ p.distance <= near.distance
  BY <1>2, <1>6, <1>7, <1>8, <1>9, WalkType
<1>11. p.distance <= MaxSnap
  BY <1>4, <1>5, <1>6, <1>10, BoundsAssumption
<1>12. p \in within
  BY <1>7, <1>8, <1>11
<1>13. NONE \notin within
  BY <1>1, NoneIsNoRow
<1> HIDE DEF within
<1> QED
  BY <1>12, <1>13 DEF CollectionPoints, within

(* The step that ends a redraw without a fault is its reassignment. *)
LEMMA RedrawnIsReassign ==
  ASSUME ReachInv, [Next]_vars, NEW h \in Requests, Redrawn(h) PROVE Reassign(h)
<1>1. request[h].at = "reassign" /\ request'[h].at = "idle" /\ faults' = faults
  BY DEF Redrawn, NoRequest
<1>2. request' # request
  BY <1>1
<1>3. ASSUME NEW g \in Requests, NEW rec, request' = [request EXCEPT ![g] = rec] PROVE g = h
  BY <1>1, <1>3 DEF ReachInv, TypeOK
<1>4. request[h] # NoRequest
  BY <1>1 DEF NoRequest
<1>5. ASSUME NEW g \in Requests, NEW r \in RouteId, EditRoute(g, r) PROVE FALSE
  <2>1. \E rec : Asks(g, rec)
    BY <1>5, Zenon DEF EditRoute, UpdateRoute, AddSegment, UpdateSegment, RemoveSegment, Edits,
                ReplaceSegments
  <2> QED
    BY <1>3, <1>4, <2>1 DEF Asks
<1>6. ASSUME NEW g \in Requests, NEW x \in ResidentId, EditResident(g, x) PROVE FALSE
  <2>1. \E rec : Asks(g, rec)
    BY <1>6, Zenon DEF EditResident, Edit, Locate, Assign, Unassign, Loads
  <2> QED
    BY <1>3, <1>4, <2>1 DEF Asks
<1>7. ASSUME NEW g \in Requests, NEW home \in Homes, Register(g, home) PROVE FALSE
  BY <1>3, <1>4, <1>7, Zenon DEF Register, Asks
<1>8. ASSUME NEW g \in Requests, Proceed(g) PROVE Reassign(h)
  <2>1. CASE Fault(g)
    BY <1>1, <2>1 DEF Fault, ReachInv, TypeOK
  <2>2. CASE ~Fault(g)
    <3>1. \E rec : request' = [request EXCEPT ![g] = rec]
      BY <1>8, <2>2, Zenon DEF Proceed, StoreRoute, WriteSegments, RebuildCenterline, Reassign,
                        FindCollectionPoint, PointOnRoute, NameStreet, SaveResident, Finish, Goto
    <3>2. g = h
      BY <1>3, <3>1
    <3> QED
      BY <1>1, <1>8, <2>2, <3>2, Zenon DEF Proceed, StoreRoute, WriteSegments, RebuildCenterline,
                                    FindCollectionPoint, PointOnRoute, NameStreet, SaveResident
  <2> QED
    BY <2>1, <2>2
<1> QED
  BY <1>2, <1>5, <1>6, <1>7, <1>8 DEF Next, CreateRoute, RemoveRoute, RemoveResident, vars

LEMMA RedrawStep ==
  ASSUME ReachInv, [Next]_vars, NEW h \in Requests, NEW x \in ResidentId,
         Redrawn(h), residents[x] # NONE, ~residents[x].locked,
         RouteOf(residents[x].point) \in {NONE, request[h].route}
  PROVE  LET home == residents[x].home
             r == RouteOf(residents'[x].point)
         IN  IF r = NONE THEN \A q \in Serving : ~Reaches(q, home)
             ELSE r \in Serving /\ Reaches(r, home) /\ \A q \in Serving : ~Beats(q, r, home)
<1> USE DEF ReachInv
<1> DEFINE home == residents[x].home
           concerned == Concerned(request[h].route)
<1>1. PICK found \in [concerned -> UNION {Anchors(y) : y \in concerned}] :
        /\ \A y \in concerned : found[y] \in Anchors(y)
        /\ residents' = [y \in ResidentId |->
             IF y \in concerned /\ Distinct(residents[y].point, found[y])
             THEN [residents[y] EXCEPT !.point = found[y]] ELSE residents[y]]
  BY RedrawnIsReassign DEF Reassign
<1>2. x \in concerned
  BY DEF Concerned
<1> HIDE DEF concerned
<1>3. residents[x] \in Resident /\ home \in Homes
  BY DEF TypeOK, OrNone, Resident
<1>4. RouteOf(residents'[x].point) = RouteOf(found[x])
  BY <1>1, <1>2, <1>3 DEF Distinct, Resident
<1>5. found[x] \in Anchors(x)
  BY <1>1, <1>2
<1>6. CASE found[x] = NONE
  <2>1. NONE \in CollectionPoints(home)
    <3>1. PICK p \in CollectionPoints(home) :
            found[x] \in (IF p = NONE THEN {NONE} ELSE Named(p, home))
      BY <1>5 DEF Anchors
    <3>2. p # NONE => p \in Point /\ p.route \in RouteId
      BY <1>3, FoundType DEF Serving
    <3>3. p # NONE => found[x] \in Point
      BY <1>3, <3>1, <3>2, NamedType
    <3> QED
      BY <1>6, <3>1, <3>3, NoneIsNoRow
  <2>2. \A q \in Serving : ~Reaches(q, home)
    BY <1>3, <2>1, FoundIfReached
  <2> QED
    BY <1>4, <1>6, <2>2 DEF RouteOf
<1>7. CASE found[x] # NONE
  <2>1. PICK p \in CollectionPoints(home) : p # NONE /\ p.route = found[x].route
    BY <1>5, <1>7, AnchorType
  <2> DEFINE r == p.route
  <2>2. /\ p \in Point /\ r \in Serving /\ p.distance <= MaxSnap
        /\ p \in PointsOn(r, home)
        /\ \A q \in Serving : \A o \in PointsOn(q, home) : p.distance <= o.distance
    BY <1>3, <2>1, FoundType
  <2>3. RouteOf(residents'[x].point) = r /\ r # NONE
    BY <1>4, <1>7, <2>1, <2>2, NoneIsNoRow DEF RouteOf, Serving
  <2>4. PICK w \in routes[r].centerline : p.distance = Walk(home, w)
    BY <2>2 DEF PointsOn, Nearest
  <2>5. Reaches(r, home)
    BY <2>2, <2>4 DEF Reaches
  <2>6. ASSUME NEW q \in Serving, Beats(q, r, home) PROVE FALSE
    <3>1. PICK v \in routes[q].centerline : Walk(home, v) < Walk(home, w)
      BY <2>4, <2>6 DEF Beats
    <3>2. q \in RouteId /\ routes[q] # NONE /\ v \in Row
      BY <3>1 DEF Serving, Drawn, TypeOK, OrNone, Route
    <3>3. PICK o \in PointsOn(q, home) : o.distance <= Walk(home, v)
      BY <1>3, <3>1, <3>2, NearestExists
    <3>4. o.distance \in Nat /\ p.distance \in Nat /\ Walk(home, v) \in Nat
      BY <1>3, <2>2, <3>2, PointsOnType, WalkType DEF Point
    <3>5. p.distance <= o.distance
      BY <2>2
    <3> QED
      BY <2>4, <3>1, <3>3, <3>4, <3>5
  <2> QED
    BY <2>2, <2>3, <2>5, <2>6
<1> QED
  BY <1>6, <1>7

(* A redraw that gets through leaves nobody it concerns without a route    *)
(* that passes within reach, and nobody with one that does not, that is    *)
(* out of service, or to which another is nearer: whatever the map is, and *)
(* whatever else is going on.                                              *)
THEOREM RedrawServesEverybody == Spec => RedrawServes
<1>1. ReachInv /\ [Next]_vars =>
        [\A h \in Requests, x \in ResidentId :
           LET home == residents[x].home
               r == RouteOf(residents'[x].point)
           IN  Redrawn(h) /\ residents[x] # NONE /\ ~residents[x].locked
                 /\ RouteOf(residents[x].point) \in {NONE, request[h].route} =>
               IF r = NONE THEN \A q \in Serving : ~Reaches(q, home)
               ELSE r \in Serving /\ Reaches(r, home) /\ \A q \in Serving : ~Beats(q, r, home)]_vars
  BY RedrawStep
<1> QED
  BY <1>1, ReachHolds, PTL DEF Spec, RedrawServes

-----------------------------------------------------------------------------
(* Centerlines, where no two requests at a time are about one route.       *)

OneEach ==
  \A g, h \in Requests, r \in RouteId : AboutRoute(g, r) /\ AboutRoute(h, r) => g = h

CopyCurrent ==
  \A h \in Requests : request[h].at = "store" =>
    LET r == request[h].route
    IN  routes[r] # NONE /\ request[h].copy.centerline = routes[r].centerline

NoRouteNoSegments == \A r \in RouteId : routes[r] = NONE => segments[r] = {}

Numbering == \A r \in RouteId : r >= nextRoute => routes[r] = NONE

CurrentInv ==
  /\ ReachInv
  /\ OneEach
  /\ CopyCurrent
  /\ NoRouteNoSegments
  /\ Numbering
  /\ CenterlineIsCurrent

\* What a step preserves besides ReachInv.
Current == OneEach /\ CopyCurrent /\ NoRouteNoSegments /\ Numbering /\ CenterlineIsCurrent

(* A slot other than one about to rebuild changes; the map does not.       *)
LEMMA CurrentSlot ==
  ASSUME CurrentInv, TypeOK', NEW h \in Requests, NEW rec \in Request,
         request' = [request EXCEPT ![h] = rec], UNCHANGED map,
         \/ faults' = faults /\ request[h].at # "rebuild"
         \/ faults' # 0,
         rec.at = "store" => /\ routes[rec.route] # NONE
                             /\ rec.copy.centerline = routes[rec.route].centerline,
         \/ rec.resident # NONE
         \/ rec.route = NONE
         \/ AboutRoute(h, rec.route)
         \/ \A g \in Requests : ~AboutRoute(g, rec.route)
  PROVE  Current'
<1> USE DEF CurrentInv, ReachInv
<1>1. /\ request'[h] = rec
      /\ \A g \in Requests \ {h} : request'[g] = request[g]
  BY SlotFrame
<1>2. OneEach'
  BY <1>1, NoneIsNoRow DEF OneEach, AboutRoute
<1>3. CopyCurrent'
  BY <1>1 DEF map, CopyCurrent
<1>4. NoRouteNoSegments' /\ Numbering'
  BY DEF map, NoRouteNoSegments, Numbering
<1>5. CenterlineIsCurrent'
  BY <1>1 DEF map, CenterlineIsCurrent, AboutRoute
<1> QED
  BY <1>2, <1>3, <1>4, <1>5 DEF Current

LEMMA CurrentEditRoute ==
  ASSUME CurrentInv, Exclusive, TypeOK', NEW h \in Requests, NEW r \in RouteId, EditRoute(h, r)
  PROVE  Current'
<1> USE DEF CurrentInv, ReachInv
<1>1. ASSUME NEW rec \in Request, Asks(h, rec), UNCHANGED <<map, people, faults>>,
             FreeRoute(r), rec.route = r,
             rec.at = "store" => /\ routes[r] # NONE
                                 /\ rec.copy.centerline = routes[r].centerline
      PROVE  Current'
  <2>1. request[h].at # "rebuild"
    BY <1>1 DEF Asks, NoRequest
  <2> QED
    BY <1>1, <2>1, CurrentSlot DEF Asks, FreeRoute
<1>2. ASSUME NEW active \in BOOLEAN, UpdateRoute(h, r, active) PROVE Current'
  <2> DEFINE copy == [routes[r] EXCEPT !.active = active]
             rec == [NoRequest EXCEPT !.at = "store", !.route = r, !.copy = copy]
  <2>1. copy \in Route /\ copy.centerline = routes[r].centerline /\ routes[r] # NONE
    BY <1>2 DEF UpdateRoute, TypeOK, OrNone, Route
  <2> HIDE DEF copy
  <2>2. rec \in Request /\ rec.route = r /\ rec.copy = copy
    BY <2>1 DEF NoRequest, Request, OrNone
  <2>3. Asks(h, rec) /\ FreeRoute(r) /\ UNCHANGED <<map, people, faults>>
    BY <1>2 DEF UpdateRoute, copy
  <2> HIDE DEF rec
  <2> QED
    BY <1>1, <2>1, <2>2, <2>3
<1>3. ASSUME NEW drop \in SUBSET Row, NEW put \in SUBSET Row, Edits(h, r, drop, put)
      PROVE  Current'
  <2> DEFINE rec == [NoRequest EXCEPT !.at = "edit", !.route = r, !.drop = drop, !.put = put]
  <2>1. rec \in Request /\ rec.route = r /\ rec.at = "edit"
    BY DEF NoRequest, Request, OrNone
  <2>2. Asks(h, rec) /\ FreeRoute(r) /\ UNCHANGED <<map, people, faults>>
    BY <1>3 DEF Edits
  <2> HIDE DEF rec
  <2> QED
    BY <1>1, <2>1, <2>2
<1>4. segments[r] \subseteq Row
  BY DEF TypeOK
<1>5. ASSUME NEW row \in Row, AddSegment(h, r, row) PROVE Current'
  BY <1>3, <1>5 DEF AddSegment
<1>6. ASSUME NEW row \in segments[r], NEW street \in Streets, UpdateSegment(h, r, row, street)
      PROVE  Current'
  <2>1. row \in Row /\ [row EXCEPT !.street = street] \in Row
    BY <1>4 DEF Row
  <2> QED
    BY <1>3, <1>6, <2>1 DEF UpdateSegment
<1>7. ASSUME NEW row \in segments[r], RemoveSegment(h, r, row) PROVE Current'
  BY <1>3, <1>4, <1>7 DEF RemoveSegment
<1>8. ASSUME NEW n \in 1..MaxSegments, NEW streets \in [0..(n - 1) -> Streets],
             ReplaceSegments(h, r, n, streets)
      PROVE  Current'
  <2> DEFINE rec == [NoRequest EXCEPT !.at = "edit", !.route = r, !.redraw = TRUE,
                                      !.put = Numbered(n, streets)]
  <2>1. Numbered(n, streets) \subseteq Row
    BY BoundsAssumption DEF Numbered, Row, Indexes
  <2>2. rec \in Request /\ rec.route = r /\ rec.at = "edit"
    BY <2>1 DEF NoRequest, Request, OrNone
  <2>3. Asks(h, rec) /\ FreeRoute(r) /\ UNCHANGED <<map, people, faults>>
    BY <1>8 DEF ReplaceSegments
  <2> HIDE DEF rec
  <2> QED
    BY <1>1, <2>2, <2>3
<1> QED
  BY <1>2, <1>5, <1>6, <1>7, <1>8 DEF EditRoute

LEMMA CurrentEditResident ==
  ASSUME CurrentInv, TypeOK', NEW h \in Requests, NEW x \in ResidentId, EditResident(h, x)
  PROVE  Current'
<1> USE NoneIsNoRow DEF CurrentInv, ReachInv
<1>1. ASSUME NEW at \in {"find", "obey", "save"}, NEW r, NEW row, Loads(h, x, at, r, row)
      PROVE  Current'
  <2> DEFINE rec == [NoRequest EXCEPT !.at = at, !.route = r, !.resident = x, !.row = row]
  <2>1. rec = request'[h]
    BY <1>1 DEF Loads, Asks, TypeOK
  <2>2. rec \in Request
    BY <2>1 DEF TypeOK
  <2>3. rec.at # "store" /\ rec.resident # NONE
    BY DEF NoRequest
  <2>4. request[h].at # "rebuild"
    BY <1>1 DEF Loads, Asks, NoRequest
  <2>5. request' = [request EXCEPT ![h] = rec] /\ UNCHANGED <<map, faults>>
    BY <1>1 DEF Loads, Asks, map
  <2> HIDE DEF rec
  <2> QED
    BY <2>2, <2>3, <2>4, <2>5, CurrentSlot
<1> QED
  BY <1>1, Zenon DEF EditResident, Edit, Locate, Assign, Unassign

LEMMA CurrentRegister ==
  ASSUME CurrentInv, TypeOK', NEW h \in Requests, NEW home \in Homes, Register(h, home)
  PROVE  Current'
<1> USE NoneIsNoRow DEF CurrentInv, ReachInv
<1> DEFINE rec == [NoRequest EXCEPT !.at = "find", !.resident = nextResident,
                     !.row = [home |-> home, locked |-> FALSE, point |-> NONE]]
<1>1. rec = request'[h]
  BY DEF Register, Asks, TypeOK
<1>2. rec \in Request
  BY <1>1 DEF TypeOK
<1>3. rec.at # "store" /\ rec.resident # NONE
  BY DEF NoRequest, Register
<1>4. request[h].at # "rebuild"
  BY DEF Register, Asks, NoRequest
<1>5. request' = [request EXCEPT ![h] = rec] /\ UNCHANGED <<map, faults>>
  BY DEF Register, Asks, map
<1> HIDE DEF rec
<1> QED
  BY <1>2, <1>3, <1>4, <1>5, CurrentSlot

LEMMA CurrentCreateRoute ==
  ASSUME CurrentInv, CreateRoute PROVE Current'
<1> USE NoneIsNoRow DEF CurrentInv, ReachInv
<1> DEFINE new == [active |-> TRUE, centerline |-> {}]
<1>1. /\ routes'[nextRoute] = new /\ new # NONE /\ new.centerline = {}
      /\ \A q \in RouteId \ {nextRoute} : routes'[q] = routes[q]
      /\ segments' = segments /\ request' = request /\ faults' = faults
  <2>1. new \in Route /\ new.centerline = {}
    BY DEF Route
  <2> HIDE DEF new
  <2> QED
    BY <2>1 DEF CreateRoute, TypeOK, new
<1>2. nextRoute \in RouteId /\ nextRoute' = nextRoute + 1 /\ nextRoute \in Nat
  BY BoundsAssumption DEF CreateRoute, RouteId
<1>3. routes[nextRoute] = NONE /\ segments[nextRoute] = {}
  BY <1>2 DEF Numbering, NoRouteNoSegments
<1>4. OneEach'
  BY <1>1 DEF OneEach, AboutRoute
<1>5. CopyCurrent'
  BY <1>1, <1>3 DEF CopyCurrent, RecordOk
<1>6. NoRouteNoSegments'
  BY <1>1, <1>3 DEF NoRouteNoSegments
<1>7. Numbering'
  BY <1>1, <1>2 DEF Numbering, RouteId
<1>8. CenterlineIsCurrent'
  BY <1>1, <1>3 DEF CenterlineIsCurrent, AboutRoute
<1> QED
  BY <1>4, <1>5, <1>6, <1>7, <1>8 DEF Current

LEMMA CurrentRemoveRoute ==
  ASSUME CurrentInv, Exclusive, NEW r \in RouteId, RemoveRoute(r) PROVE Current'
<1> USE NoneIsNoRow DEF CurrentInv, ReachInv
<1>1. /\ routes'[r] = NONE /\ segments'[r] = {}
      /\ \A q \in RouteId \ {r} : routes'[q] = routes[q] /\ segments'[q] = segments[q]
      /\ request' = request /\ faults' = faults
  BY DEF RemoveRoute, TypeOK
<1>2. \A g \in Requests : ~AboutRoute(g, r)
  BY DEF RemoveRoute, FreeRoute
<1>3. OneEach'
  BY <1>1 DEF OneEach, AboutRoute
<1>4. CopyCurrent'
  BY <1>1, <1>2 DEF CopyCurrent, AboutRoute, RecordOk
<1>5. NoRouteNoSegments' /\ Numbering'
  BY <1>1 DEF RemoveRoute, NoRouteNoSegments, Numbering
<1>6. CenterlineIsCurrent'
  BY <1>1 DEF CenterlineIsCurrent, AboutRoute
<1> QED
  BY <1>3, <1>4, <1>5, <1>6 DEF Current

(* A request ends, or takes another step about the same route. *)
LEMMA CurrentStoreRoute ==
  ASSUME CurrentInv, TypeOK', NEW h \in Requests, StoreRoute(h) PROVE Current'
<1> USE NoneIsNoRow DEF CurrentInv, ReachInv
<1> DEFINE r == request[h].route
<1>1. /\ request'[h] = NoRequest
      /\ \A g \in Requests \ {h} : request'[g] = request[g]
      /\ segments' = segments /\ faults' = faults
  BY Resting, SlotFrame DEF StoreRoute, Finish, Goto
<1>2. r \in RouteId /\ request[h].copy \in Route /\ AboutRoute(h, r)
  BY DEF StoreRoute, RecordOk, AboutRoute
<1>3. /\ routes'[r] = request[h].copy
      /\ \A q \in RouteId \ {r} : routes'[q] = routes[q]
  BY <1>2 DEF StoreRoute, TypeOK
<1>4. routes'[r] # NONE /\ routes[r] # NONE /\ routes'[r].centerline = routes[r].centerline
  BY <1>2, <1>3 DEF CopyCurrent, StoreRoute
<1>5. OneEach'
  BY <1>1 DEF OneEach, AboutRoute, NoRequest
<1>6. CopyCurrent'
  BY <1>1, <1>3, <1>4 DEF CopyCurrent, RecordOk, NoRequest
<1>7. NoRouteNoSegments' /\ Numbering'
  BY <1>1, <1>3, <1>4 DEF StoreRoute, NoRouteNoSegments, Numbering
<1>8. ASSUME faults' = 0, NEW q \in RouteId, routes'[q] # NONE,
             routes'[q].centerline # segments'[q]
      PROVE  \E g \in Requests : request'[g].at = "rebuild" /\ AboutRoute(g, q)'
  <2>1. routes[q] # NONE /\ routes[q].centerline # segments[q]
    BY <1>1, <1>3, <1>4, <1>8
  <2>2. PICK g \in Requests : request[g].at = "rebuild" /\ AboutRoute(g, q)
    BY <1>1, <1>8, <2>1 DEF CenterlineIsCurrent
  <2>3. g # h
    BY <2>2 DEF StoreRoute
  <2> QED
    BY <1>1, <2>2, <2>3 DEF AboutRoute
<1>9. CenterlineIsCurrent'
  BY <1>8 DEF CenterlineIsCurrent, AboutRoute
<1> QED
  BY <1>5, <1>6, <1>7, <1>9 DEF Current

LEMMA CurrentWriteSegments ==
  ASSUME CurrentInv, TypeOK', NEW h \in Requests, WriteSegments(h) PROVE Current'
<1> USE NoneIsNoRow DEF CurrentInv, ReachInv
<1> DEFINE r == request[h].route
           rec == [request[h] EXCEPT !.at = "rebuild"]
<1>1. /\ request[h] \in Request /\ r \in RouteId /\ AboutRoute(h, r)
      /\ request[h].at = "edit"
  BY RequestTyped DEF WriteSegments, RecordOk, AboutRoute
<1>2. CASE Finish(h) /\ UNCHANGED segments
  <2>1. NoRequest \in Request /\ NoRequest.at # "store" /\ NoRequest.route = NONE
    BY Resting DEF NoRequest
  <2>2. request' = [request EXCEPT ![h] = NoRequest] /\ UNCHANGED <<map, faults>>
    BY <1>2 DEF WriteSegments, Finish, Goto, map
  <2> QED
    BY <1>1, <2>1, <2>2, CurrentSlot
<1>3. CASE ~Refused(h)
  <2>1. /\ Goto(h, rec) /\ rec \in Request
        /\ rec.at = "rebuild" /\ rec.route = r /\ rec.resident = NONE
    BY <1>1, <1>3 DEF WriteSegments, Request, AboutRoute
  <2> HIDE DEF rec
  <2>2. /\ request'[h] = rec
        /\ \A g \in Requests \ {h} : request'[g] = request[g]
        /\ routes' = routes /\ faults' = faults
        /\ \A q \in RouteId \ {r} : segments'[q] = segments[q]
    BY <1>1, <1>3, <2>1, SlotFrame DEF WriteSegments, Goto, TypeOK
  <2>3. \A g \in Requests, q \in RouteId : AboutRoute(g, q)' <=> AboutRoute(g, q)
    BY <1>1, <2>1, <2>2 DEF AboutRoute
  <2>4. OneEach'
    BY <2>3 DEF OneEach
  <2>5. CopyCurrent'
    BY <2>1, <2>2 DEF CopyCurrent
  <2>6. routes[r] = NONE => segments'[r] = {}
    BY <1>1, <1>3 DEF WriteSegments, Refused, NoRouteNoSegments, TypeOK
  <2>7. NoRouteNoSegments' /\ Numbering'
    BY <2>2, <2>6 DEF WriteSegments, NoRouteNoSegments, Numbering
  <2>8. ASSUME faults' = 0, NEW q \in RouteId, routes'[q] # NONE,
               routes'[q].centerline # segments'[q]
        PROVE  \E g \in Requests : request'[g].at = "rebuild" /\ AboutRoute(g, q)'
    <3>1. CASE q = r
      BY <1>1, <2>1, <2>2, <2>3, <3>1
    <3>2. CASE q # r
      <4>1. PICK g \in Requests : request[g].at = "rebuild" /\ AboutRoute(g, q)
        BY <2>2, <2>8, <3>2 DEF CenterlineIsCurrent
      <4>2. g # h
        BY <1>1, <4>1
      <4> QED
        BY <2>2, <2>3, <4>1, <4>2
    <3> QED
      BY <3>1, <3>2
  <2>9. CenterlineIsCurrent'
    BY <2>8 DEF CenterlineIsCurrent, AboutRoute
  <2> QED
    BY <2>4, <2>5, <2>7, <2>9 DEF Current
<1> QED
  BY <1>2, <1>3 DEF WriteSegments

LEMMA CurrentRebuildCenterline ==
  ASSUME CurrentInv, TypeOK', NEW h \in Requests, RebuildCenterline(h) PROVE Current'
<1> USE NoneIsNoRow DEF CurrentInv, ReachInv
<1> DEFINE r == request[h].route
           rec == [request[h] EXCEPT !.at = "reassign"]
<1>1. /\ request[h] \in Request /\ r \in RouteId /\ AboutRoute(h, r)
      /\ request[h].at = "rebuild"
  BY RequestTyped DEF RebuildCenterline, RecordOk, AboutRoute
<1>2. PICK next \in {NoRequest, rec} : Goto(h, next)
  BY DEF RebuildCenterline, Finish
<1>3. /\ next \in Request /\ next.at \in {"idle", "reassign"}
      /\ next.resident = NONE /\ next.route \in {r, NONE}
  <2>1. rec \in Request /\ rec.at = "reassign" /\ rec.resident = NONE /\ rec.route = r
    BY <1>1 DEF Request, AboutRoute
  <2>2. /\ NoRequest \in Request /\ NoRequest.at = "idle"
        /\ NoRequest.resident = NONE /\ NoRequest.route = NONE
    BY Resting DEF NoRequest
  <2> HIDE DEF rec
  <2> QED
    BY <1>2, <2>1, <2>2
<1> HIDE DEF rec
<1>4. /\ request'[h] = next
      /\ \A g \in Requests \ {h} : request'[g] = request[g]
      /\ segments' = segments /\ faults' = faults
  BY <1>2, <1>3, SlotFrame DEF RebuildCenterline, Goto
<1>5. routes[r] # NONE => [routes[r] EXCEPT !.centerline = Chain(r)] \in Route
  BY <1>1 DEF TypeOK, OrNone, Route, Chain
<1>6. /\ routes[r] = NONE => routes'[r] = NONE
      /\ routes[r] # NONE => routes'[r] # NONE /\ routes'[r].centerline = segments[r]
      /\ \A q \in RouteId \ {r} : routes'[q] = routes[q]
  BY <1>1, <1>5 DEF RebuildCenterline, Chain, TypeOK, OrNone, Route
<1>7. \A g \in Requests, q \in RouteId : AboutRoute(g, q)' => AboutRoute(g, q)
  BY <1>1, <1>3, <1>4 DEF AboutRoute
<1>8. OneEach'
  BY <1>7 DEF OneEach
<1>9. ASSUME NEW g \in Requests, request'[g].at = "store"
      PROVE  LET q == request'[g].route
             IN  routes'[q] # NONE /\ request'[g].copy.centerline = routes'[q].centerline
  <2>1. g # h /\ request'[g] = request[g]
    BY <1>3, <1>4, <1>9
  <2>2. request[g].route \in RouteId /\ AboutRoute(g, request[g].route)
    BY <1>9, <2>1 DEF RecordOk, AboutRoute
  <2>3. request[g].route # r
    BY <1>1, <2>1, <2>2 DEF OneEach
  <2> QED
    BY <1>6, <1>9, <2>1, <2>2, <2>3 DEF CopyCurrent
<1>10. CopyCurrent'
  BY <1>9 DEF CopyCurrent
<1>11. NoRouteNoSegments' /\ Numbering'
  BY <1>4, <1>6 DEF RebuildCenterline, NoRouteNoSegments, Numbering
<1>12. ASSUME faults' = 0, NEW q \in RouteId, routes'[q] # NONE,
              routes'[q].centerline # segments'[q]
       PROVE  \E g \in Requests : request'[g].at = "rebuild" /\ AboutRoute(g, q)'
  <2>1. q # r /\ routes[q] # NONE /\ routes[q].centerline # segments[q]
    BY <1>1, <1>4, <1>6, <1>12
  <2>2. PICK g \in Requests : request[g].at = "rebuild" /\ AboutRoute(g, q)
    BY <1>4, <1>12, <2>1 DEF CenterlineIsCurrent
  <2>3. g # h
    BY <1>1, <2>1, <2>2 DEF AboutRoute
  <2> QED
    BY <1>4, <2>2, <2>3 DEF AboutRoute
<1>13. CenterlineIsCurrent'
  BY <1>12 DEF CenterlineIsCurrent, AboutRoute
<1> QED
  BY <1>8, <1>10, <1>11, <1>13 DEF Current

LEMMA CurrentOther ==
  ASSUME CurrentInv, TypeOK', NEW h \in Requests,
         \/ Reassign(h) \/ FindCollectionPoint(h) \/ PointOnRoute(h) \/ NameStreet(h)
         \/ SaveResident(h) \/ Fault(h)
  PROVE  Current'
<1> USE NoneIsNoRow DEF CurrentInv, ReachInv
<1>1. CASE Reassign(h) \/ SaveResident(h) \/ Fault(h) \/ (PointOnRoute(h) /\ Finish(h))
  <2>1. NoRequest \in Request /\ NoRequest.at # "store" /\ NoRequest.route = NONE
    BY Resting DEF NoRequest
  <2>2. request' = [request EXCEPT ![h] = NoRequest] /\ UNCHANGED map
    <3>1. request' = [request EXCEPT ![h] = NoRequest]
      BY <1>1 DEF Reassign, SaveResident, Fault, Finish, Goto
    <3>2. UNCHANGED map
      BY <1>1, Zenon DEF Reassign, SaveResident, Fault, PointOnRoute
    <3> QED
      BY <3>1, <3>2 DEF map
  <2>3. (faults' = faults /\ request[h].at # "rebuild") \/ faults' # 0
    <3>1. Fault(h) => faults' # 0
      BY DEF Fault, TypeOK
    <3> QED
      BY <1>1, <3>1, Zenon DEF Reassign, SaveResident, PointOnRoute
  <2> QED
    BY <2>1, <2>2, <2>3, CurrentSlot
<1>2. ASSUME NEW rec, Goto(h, rec), rec.at \in {"name", "save"},
             UNCHANGED <<map, people, faults>>, request[h].at \in {"find", "obey", "name"},
             rec.resident = request[h].resident
      PROVE  Current'
  <2>1. rec = request'[h] /\ rec \in Request
    BY <1>2 DEF Goto, TypeOK
  <2>2. rec.resident # NONE
    BY <1>2 DEF RecordOk
  <2> QED
    BY <1>2, <2>1, <2>2, CurrentSlot DEF Goto
<1>3. request[h] \in Request
  BY RequestTyped
<1>4. CASE FindCollectionPoint(h)
  <2>1. PICK p :
          Goto(h, [request[h] EXCEPT !.at = IF p = NONE THEN "save" ELSE "name", !.row.point = p])
    BY <1>4, Zenon DEF FindCollectionPoint
  <2> DEFINE rec == [request[h] EXCEPT !.at = IF p = NONE THEN "save" ELSE "name",
                                       !.row.point = p]
  <2>2. rec.at \in {"name", "save"} /\ rec.resident = request[h].resident
    BY <1>3 DEF Request
  <2> HIDE DEF rec
  <2> QED
    BY <1>2, <1>4, <2>1, <2>2, Zenon DEF FindCollectionPoint, rec
<1>5. CASE PointOnRoute(h) /\ ~Finish(h)
  <2>1. PICK p : Goto(h, [request[h] EXCEPT !.at = "name", !.row.point = p])
    BY <1>5, Zenon DEF PointOnRoute
  <2> DEFINE rec == [request[h] EXCEPT !.at = "name", !.row.point = p]
  <2>2. rec.at \in {"name", "save"} /\ rec.resident = request[h].resident
    BY <1>3 DEF Request
  <2> HIDE DEF rec
  <2> QED
    BY <1>2, <1>5, <2>1, <2>2, Zenon DEF PointOnRoute, rec
<1>6. CASE NameStreet(h)
  <2>1. PICK p : Goto(h, [request[h] EXCEPT !.at = "save", !.row.point = p])
    BY <1>6, Zenon DEF NameStreet
  <2> DEFINE rec == [request[h] EXCEPT !.at = "save", !.row.point = p]
  <2>2. rec.at \in {"name", "save"} /\ rec.resident = request[h].resident
    BY <1>3 DEF Request
  <2> HIDE DEF rec
  <2> QED
    BY <1>2, <1>6, <2>1, <2>2, Zenon DEF NameStreet, rec
<1> QED
  BY <1>1, <1>4, <1>5, <1>6

LEMMA CurrentStep == CurrentInv /\ Exclusive /\ [Next]_vars => CurrentInv'
<1> SUFFICES ASSUME CurrentInv, Exclusive, [Next]_vars PROVE CurrentInv'
  OBVIOUS
<1>1. ReachInv'
  BY ReachStep DEF CurrentInv
<1>2. TypeOK'
  BY <1>1 DEF ReachInv
<1>3. ASSUME UNCHANGED <<map, request, faults>> PROVE Current'
  BY <1>3 DEF map, CurrentInv, Current, OneEach, CopyCurrent, NoRouteNoSegments, Numbering,
              CenterlineIsCurrent, AboutRoute
<1>4. UNCHANGED vars => UNCHANGED <<map, request, faults>>
  BY DEF vars
<1>5. ASSUME NEW x \in ResidentId, RemoveResident(x) PROVE UNCHANGED <<map, request, faults>>
  BY <1>5 DEF RemoveResident
<1>6. ASSUME NEW h \in Requests, Proceed(h) PROVE Current'
  BY <1>2, <1>6, CurrentStoreRoute, CurrentWriteSegments, CurrentRebuildCenterline,
     CurrentOther DEF Proceed
<1>7. Current'
  BY <1>2, <1>3, <1>4, <1>5, <1>6, CurrentCreateRoute, CurrentRemoveRoute, CurrentEditRoute,
     CurrentEditResident, CurrentRegister DEF Next
<1> QED
  BY <1>1, <1>7 DEF Current, CurrentInv

LEMMA CurrentInit == Init => CurrentInv
BY ReachInit, NoneIsNoRow
   DEF Init, CurrentInv, OneEach, AboutRoute, CopyCurrent, NoRouteNoSegments, Numbering,
       CenterlineIsCurrent, NoRequest

(* Where no two requests are about one route at a time, a centerline is    *)
(* the chain of the route's segments whenever no rebuild is on the way and *)
(* no request was cut off.                                                 *)
THEOREM CenterlinesAreCurrent ==
  ASSUME Exclusive PROVE Spec => []CenterlineIsCurrent
<1>1. CurrentInv => CenterlineIsCurrent
  BY DEF CurrentInv
<1>2. CurrentInv /\ [Next]_vars => CurrentInv'
  BY CurrentStep
<1> QED
  BY <1>1, <1>2, CurrentInit, PTL DEF Spec
=============================================================================
