----------------------------- MODULE FleetProofs -----------------------------
(***************************************************************************)
(* A truck and a route have one assignment a day, and no assignment is     *)
(* wiped by another: for any number of trucks, routes, days, drivers and   *)
(* requests in flight.                                                     *)
(***************************************************************************)
EXTENDS Fleet, TLAPS

-----------------------------------------------------------------------------
(* What a request in flight has read.                                      *)

RecordOk(q) ==
  /\ q.at = "load" => q.id \in TruckId
  /\ q.at = "driver" => q.driver \in Drivers /\ q.row \in Truck
  /\ q.at = "save" => q.row \in Truck
  /\ q.at = "target" => q.id \in ScheduleId
  /\ q.at \in {"truck", "route", "target"} => q.target = NONE
  /\ q.at \in {"clashes", "store"} => q.target = q.id

\* A request about an assignment.
Assigns(h) == request[h] # NONE /\ request[h] \in ScheduleRequest

\* The ids in use are below the next one.
Numbering ==
  /\ \A s \in ScheduleId : schedules[s] # NONE => s < nextSchedule
  /\ \A h \in Requests :
       Assigns(h) /\ request[h].target # NONE => request[h].target < nextSchedule

RecordsOk == \A h \in Requests : request[h] # NONE => RecordOk(request[h])

RowsInv == TypeOK /\ RecordsOk /\ Numbering

LEMMA NoneIsNoRow ==
  /\ NONE \notin TruckId /\ NONE \notin ScheduleId
  /\ NONE \notin Truck /\ NONE \notin WeeklySchedule /\ NONE \notin Status
  /\ "same" \notin Drivers
<1>1. TruckId \subseteq Nat /\ ScheduleId \subseteq Nat
  BY BoundsAssumption DEF TruckId, ScheduleId
<1> QED
  BY <1>1, BoundsAssumption, RowAssumption DEF Status

(* Where a request awaits says what it is about. *)
LEMMA Kind ==
  ASSUME TypeOK, NEW h \in Requests, request[h] # NONE
  PROVE  /\ request[h].at \in {"load", "driver", "save"} => request[h] \in TruckRequest
         /\ request[h].at \in {"truck", "route", "target", "clashes", "store"} =>
              request[h] \in ScheduleRequest
         /\ request[h] \in ScheduleRequest =>
              request[h].at \in {"truck", "route", "target", "clashes", "store"}
BY DEF TypeOK, TruckRequest, ScheduleRequest

(* A slot gets a new record; the other slots keep theirs. *)
LEMMA SlotFrame ==
  ASSUME TypeOK, NEW h \in Requests, NEW rec, Goto(h, rec)
  PROVE  /\ request'[h] = rec
         /\ \A g \in Requests \ {h} : request'[g] = request[g]
         /\ rec \in {NONE} \cup TruckRequest \cup ScheduleRequest =>
              request' \in [Requests -> {NONE} \cup TruckRequest \cup ScheduleRequest]
BY DEF TypeOK, Goto

(* A step that only moves one request on. *)
LEMMA SlotStep ==
  ASSUME RowsInv, NEW h \in Requests, NEW rec \in {NONE} \cup TruckRequest \cup ScheduleRequest,
         Goto(h, rec), UNCHANGED Rows, edits' \in 0..MaxEdits,
         rec # NONE => RecordOk(rec),
         rec # NONE /\ rec \in ScheduleRequest /\ rec.target # NONE =>
           rec.target < nextSchedule
  PROVE  RowsInv'
<1>1. /\ request'[h] = rec
      /\ \A g \in Requests \ {h} : request'[g] = request[g]
      /\ request' \in [Requests -> {NONE} \cup TruckRequest \cup ScheduleRequest]
  BY SlotFrame DEF RowsInv
<1>2. TypeOK'
  BY <1>1 DEF RowsInv, TypeOK, Rows
<1>3. RecordsOk'
  BY <1>1 DEF RowsInv, RecordsOk, RecordOk
<1>4. Numbering'
  BY <1>1 DEF RowsInv, Numbering, Rows, Assigns
<1> QED
  BY <1>2, <1>3, <1>4 DEF RowsInv

LEMMA CountedType == ASSUME TypeOK, Counted PROVE edits' \in 0..MaxEdits
BY BoundsAssumption DEF TypeOK, Counted

LEMMA EditsStay == ASSUME TypeOK, UNCHANGED edits PROVE edits' \in 0..MaxEdits
BY DEF TypeOK

-----------------------------------------------------------------------------
(* Requests about trucks                                                   *)

LEMMA CreateTruckRows ==
  ASSUME RowsInv, NEW h \in Requests, NEW d \in OrNone(Drivers), CreateTruck(h, d)
  PROVE  RowsInv'
<1> DEFINE rec == [at |-> IF d = NONE THEN "save" ELSE "driver", id |-> NONE,
                   driver |-> d, status |-> "same",
                   row |-> [driver |-> NONE, status |-> "active"]]
<1>1. rec.row \in Truck
  BY DEF Truck, OrNone, Status
<1>2. rec \in TruckRequest
  BY <1>1 DEF TruckRequest, OrNone
<1>3. RecordOk(rec)
  BY <1>1 DEF RecordOk, OrNone
<1>4. Goto(h, rec) /\ UNCHANGED <<Rows, edits>>
  BY DEF CreateTruck
<1>5. rec \notin ScheduleRequest
  BY DEF ScheduleRequest
<1> QED
  BY <1>2, <1>3, <1>4, <1>5, SlotStep, EditsStay DEF RowsInv

LEMMA UpdateTruckRows ==
  ASSUME RowsInv, NEW h \in Requests, NEW t \in TruckId,
         NEW d \in OrNone(Drivers) \cup {"same"}, NEW status \in Status \cup {"same"},
         UpdateTruck(h, t, d, status)
  PROVE  RowsInv'
<1> DEFINE rec == [at |-> "load", id |-> t, driver |-> d, status |-> status, row |-> NONE]
<1>1. rec \in TruckRequest
  BY DEF TruckRequest, OrNone
<1>2. RecordOk(rec) /\ rec \notin ScheduleRequest
  BY DEF RecordOk, ScheduleRequest
<1>3. Goto(h, rec) /\ UNCHANGED Rows /\ edits' \in 0..MaxEdits
  BY CountedType DEF UpdateTruck, RowsInv
<1> QED
  BY <1>1, <1>2, <1>3, SlotStep

LEMMA FinishRows ==
  ASSUME RowsInv, NEW h \in Requests, Finish(h), UNCHANGED <<Rows, edits>>
  PROVE  RowsInv'
BY SlotStep, EditsStay DEF RowsInv, Finish

LEMMA LoadTruckRows ==
  ASSUME RowsInv, NEW h \in Requests, LoadTruck(h)
  PROVE  RowsInv'
<1> DEFINE r == request[h]
           rec == [r EXCEPT
                !.row = [driver |-> IF r.driver = NONE THEN NONE ELSE trucks[r.id].driver,
                         status |-> Given(r.status, trucks[r.id].status)],
                !.at = IF r.driver \in Drivers THEN "driver" ELSE "save"]
<1>1. r \in TruckRequest /\ r.id \in TruckId
  BY Kind DEF LoadTruck, At, RowsInv, RecordsOk, RecordOk
<1>2. CASE trucks[r.id] = NONE
  BY <1>2, FinishRows DEF LoadTruck
<1>3. CASE trucks[r.id] # NONE
  <2>1. trucks[r.id] \in Truck
    BY <1>1, <1>3 DEF RowsInv, TypeOK, OrNone
  <2>2. Given(r.status, trucks[r.id].status) \in Status
    BY <1>1, <2>1 DEF Given, TruckRequest, Truck
  <2>3. rec.row \in Truck /\ rec.driver = r.driver
    BY <1>1, <2>1, <2>2 DEF Truck, TruckRequest, OrNone
  <2>4. rec \in TruckRequest
    BY <1>1, <2>3 DEF TruckRequest, OrNone
  <2>5. RecordOk(rec) /\ rec \notin ScheduleRequest
    BY <1>1, <2>3, <2>4 DEF RecordOk, TruckRequest, ScheduleRequest
  <2>6. Goto(h, rec) /\ UNCHANGED <<Rows, edits>>
    BY <1>3 DEF LoadTruck
  <2> QED
    BY <2>4, <2>5, <2>6, SlotStep, EditsStay DEF RowsInv
<1> QED
  BY <1>2, <1>3

LEMMA ResolveDriverRows ==
  ASSUME RowsInv, NEW h \in Requests, ResolveDriver(h)
  PROVE  RowsInv'
<1> DEFINE r == request[h]
           rec == [r EXCEPT !.row.driver = r.driver, !.at = "save"]
<1>1. r \in TruckRequest /\ r.driver \in Drivers /\ r.row \in Truck
  BY Kind DEF ResolveDriver, At, RowsInv, RecordsOk, RecordOk
<1>2. CASE drivers[r.driver] # "active"
  BY <1>2, FinishRows DEF ResolveDriver
<1>3. CASE drivers[r.driver] = "active"
  <2>1. rec.row \in Truck
    BY <1>1 DEF Truck, TruckRequest, OrNone
  <2>2. rec \in TruckRequest
    BY <1>1, <2>1 DEF TruckRequest, OrNone
  <2>3. RecordOk(rec) /\ rec \notin ScheduleRequest
    BY <1>1, <2>1, <2>2 DEF RecordOk, TruckRequest, ScheduleRequest
  <2>4. Goto(h, rec) /\ UNCHANGED <<Rows, edits>>
    BY <1>3 DEF ResolveDriver
  <2> QED
    BY <2>2, <2>3, <2>4, SlotStep, EditsStay DEF RowsInv
<1> QED
  BY <1>2, <1>3

(* The tables change, and no more requests are in flight than before. *)
LEMMA TablesStep ==
  ASSUME RowsInv,
         UNCHANGED request \/ \E h \in Requests : Finish(h),
         drivers' \in [Drivers -> OrNone(Status)], routes' \in [Routes -> OrNone(Status)],
         trucks' \in [TruckId -> OrNone(Truck)],
         schedules' \in [ScheduleId -> OrNone(WeeklySchedule)],
         nextTruck' \in 1..(MaxTrucks + 1), nextSchedule' \in 1..(MaxSchedules + 1),
         edits' \in 0..MaxEdits,
         nextSchedule <= nextSchedule',
         \A s \in ScheduleId : schedules'[s] # NONE =>
           schedules[s] # NONE \/ s < nextSchedule'
  PROVE  RowsInv'
<1>1. \A g \in Requests : request'[g] = request[g] \/ request'[g] = NONE
  BY SlotFrame DEF RowsInv, Finish
<1>2. request' \in [Requests -> {NONE} \cup TruckRequest \cup ScheduleRequest]
  BY SlotFrame DEF RowsInv, TypeOK, Finish
<1>3. TypeOK'
  BY <1>2 DEF TypeOK
<1>4. RecordsOk'
  BY <1>1 DEF RowsInv, RecordsOk, RecordOk
<1>5. nextSchedule \in Nat /\ nextSchedule' \in Nat /\ ScheduleId \subseteq Nat
  BY BoundsAssumption DEF RowsInv, TypeOK, ScheduleId
<1>6. \A s \in ScheduleId : schedules'[s] # NONE => s < nextSchedule'
  BY <1>5 DEF RowsInv, Numbering
<1>7. ASSUME NEW g \in Requests, Assigns(g)', request'[g].target # NONE
      PROVE  request'[g].target < nextSchedule'
  <2>1. request'[g] = request[g] /\ Assigns(g)
    BY <1>1, <1>7 DEF Assigns
  <2>2. request[g].target \in ScheduleId /\ request[g].target < nextSchedule
    BY <1>7, <2>1 DEF RowsInv, Numbering, Assigns, ScheduleRequest, OrNone
  <2>3. request[g].target \in Nat
    BY <1>5, <2>2
  <2>4. request[g].target < nextSchedule'
    BY <1>5, <2>2, <2>3
  <2> QED
    BY <2>1, <2>4
<1> QED
  BY <1>3, <1>4, <1>6, <1>7 DEF RowsInv, Numbering

LEMMA SaveTruckRows ==
  ASSUME RowsInv, NEW h \in Requests, SaveTruck(h)
  PROVE  RowsInv'
<1> DEFINE r == request[h]
           id == IF r.id = NONE THEN nextTruck ELSE r.id
<1>1. r \in TruckRequest /\ r.row \in Truck
  BY Kind DEF SaveTruck, At, RowsInv, RecordsOk, RecordOk
<1>2. trucks' \in [TruckId -> OrNone(Truck)]
  BY <1>1 DEF SaveTruck, RowsInv, TypeOK, OrNone
<1>3. nextTruck' \in 1..(MaxTrucks + 1)
  <2>1. CASE r.id = NONE
    <3>1. nextTruck \in 1..MaxTrucks /\ nextTruck' = nextTruck + 1
      BY <2>1 DEF SaveTruck, TruckId
    <3> QED
      BY <3>1, BoundsAssumption
  <2>2. CASE r.id # NONE
    BY <2>2 DEF SaveTruck, RowsInv, TypeOK
  <2> QED
    BY <2>1, <2>2
<1>4. /\ Finish(h)
      /\ UNCHANGED <<drivers, routes, schedules, nextSchedule, edits>>
  BY DEF SaveTruck
<1>5. nextSchedule <= nextSchedule'
  BY <1>4, BoundsAssumption DEF RowsInv, TypeOK
<1> QED
  BY <1>2, <1>3, <1>4, <1>5, TablesStep DEF RowsInv, TypeOK

LEMMA RemoveTruckRows ==
  ASSUME RowsInv, NEW t \in TruckId, RemoveTruck(t)
  PROVE  RowsInv'
<1>1. trucks' \in [TruckId -> OrNone(Truck)]
  BY DEF RemoveTruck, RowsInv, TypeOK, OrNone
<1>2. /\ schedules' \in [ScheduleId -> OrNone(WeeklySchedule)]
      /\ \A s \in ScheduleId : schedules'[s] # NONE => schedules[s] # NONE
  BY DEF RemoveTruck, RowsInv, TypeOK, OrNone
<1>3. nextSchedule <= nextSchedule'
  BY BoundsAssumption DEF RemoveTruck, RowsInv, TypeOK
<1>4. edits' \in 0..MaxEdits
  BY CountedType DEF RemoveTruck, RowsInv
<1> QED
  BY <1>1, <1>2, <1>3, <1>4, TablesStep DEF RemoveTruck, RowsInv, TypeOK

-----------------------------------------------------------------------------
(* Requests about assignments                                              *)

LEMMA UpsertRows ==
  ASSUME RowsInv, NEW h \in Requests, NEW id \in OrNone(ScheduleId),
         NEW row \in WeeklySchedule, Upsert(h, id, row)
  PROVE  RowsInv'
<1> DEFINE rec == [at |-> "truck", id |-> id, target |-> NONE, row |-> row]
<1>1. rec \in ScheduleRequest /\ RecordOk(rec) /\ rec.target = NONE
  BY DEF ScheduleRequest, OrNone, RecordOk
<1>2. Goto(h, rec) /\ UNCHANGED <<Rows, edits>>
  BY DEF Upsert
<1> QED
  BY <1>1, <1>2, SlotStep, EditsStay DEF RowsInv

(* A request about an assignment awaits something else. *)
LEMMA MoveOn ==
  ASSUME RowsInv, NEW h \in Requests, Assigns(h),
         NEW at \in {"truck", "route", "target", "clashes", "store"},
         Step(h, at), UNCHANGED <<Rows, edits>>,
         at = "target" => request[h].id \in ScheduleId,
         at \in {"truck", "route", "target"} => request[h].target = NONE,
         at \in {"clashes", "store"} => request[h].target = request[h].id
  PROVE  RowsInv'
<1> DEFINE rec == [request[h] EXCEPT !.at = at]
<1>1. rec \in ScheduleRequest /\ rec.target = request[h].target
  BY DEF Assigns, ScheduleRequest
<1>2. RecordOk(rec)
  BY DEF Assigns, ScheduleRequest, RecordOk
<1>3. rec.target # NONE => rec.target < nextSchedule
  BY <1>1 DEF RowsInv, Numbering
<1> QED
  BY <1>1, <1>2, <1>3, SlotStep, EditsStay DEF RowsInv, Step

LEMMA FindTruckRows ==
  ASSUME RowsInv, NEW h \in Requests, FindTruck(h)
  PROVE  RowsInv'
<1>1. Assigns(h) /\ request[h].target = NONE
  BY Kind DEF FindTruck, At, RowsInv, Assigns, RecordsOk, RecordOk
<1> QED
  BY <1>1, MoveOn, FinishRows DEF FindTruck

LEMMA FindRouteRows ==
  ASSUME RowsInv, NEW h \in Requests, FindRoute(h)
  PROVE  RowsInv'
<1>1. Assigns(h) /\ request[h].target = NONE /\ request[h].id \in OrNone(ScheduleId)
  BY Kind DEF FindRoute, At, RowsInv, Assigns, RecordsOk, RecordOk, ScheduleRequest
<1>2. CASE routes[request[h].row.route] # "active"
  BY <1>2, FinishRows DEF FindRoute
<1>3. CASE routes[request[h].row.route] = "active"
  <2>1. CASE request[h].id = NONE
    BY <1>1, <1>3, <2>1, MoveOn DEF FindRoute
  <2>2. CASE request[h].id # NONE
    BY <1>1, <1>3, <2>2, MoveOn DEF FindRoute, OrNone
  <2> QED
    BY <2>1, <2>2
<1> QED
  BY <1>2, <1>3

LEMMA FindOneOrFailRows ==
  ASSUME RowsInv, NEW h \in Requests, FindOneOrFail(h)
  PROVE  RowsInv'
<1> DEFINE r == request[h]
           rec == [r EXCEPT !.target = r.id, !.at = "clashes"]
<1>1. Assigns(h) /\ r.id \in ScheduleId
  BY Kind DEF FindOneOrFail, At, RowsInv, Assigns, RecordsOk, RecordOk
<1>2. CASE schedules[r.id] = NONE
  BY <1>2, FinishRows DEF FindOneOrFail
<1>3. CASE schedules[r.id] # NONE
  <2>1. rec \in ScheduleRequest /\ rec.target = r.id /\ RecordOk(rec)
    BY <1>1 DEF Assigns, ScheduleRequest, OrNone, RecordOk
  <2>2. rec.target < nextSchedule
    BY <1>1, <1>3, <2>1 DEF RowsInv, Numbering
  <2>3. Goto(h, rec) /\ UNCHANGED <<Rows, edits>>
    BY <1>3 DEF FindOneOrFail
  <2> QED
    BY <2>1, <2>2, <2>3, SlotStep, EditsStay DEF RowsInv
<1> QED
  BY <1>2, <1>3

LEMMA FindClashesRows ==
  ASSUME RowsInv, NEW h \in Requests, FindClashes(h)
  PROVE  RowsInv'
<1>1. Assigns(h) /\ request[h].target = request[h].id
  BY Kind DEF FindClashes, At, RowsInv, Assigns, RecordsOk, RecordOk
<1> QED
  BY <1>1, MoveOn, FinishRows DEF FindClashes

(* The row that is written: the one asked for, or the next of the sequence, *)
(* which nobody has.                                                        *)
LEMMA Written ==
  ASSUME RowsInv, NEW h \in Requests, StoreSchedule(h)
  PROVE  LET r == request[h]
             id == IF r.target = NONE THEN nextSchedule ELSE r.target
         IN  /\ Assigns(h) /\ r.target = r.id /\ r.row \in WeeklySchedule
             /\ id \in ScheduleId /\ id < nextSchedule'
             /\ r.target = NONE => schedules[id] = NONE
             /\ nextSchedule' \in 1..(MaxSchedules + 1) /\ nextSchedule <= nextSchedule'
<1> DEFINE r == request[h]
           id == IF r.target = NONE THEN nextSchedule ELSE r.target
<1>1. Assigns(h) /\ r.target = r.id /\ r.row \in WeeklySchedule
  BY Kind DEF StoreSchedule, At, RowsInv, Assigns, RecordsOk, RecordOk, ScheduleRequest
<1>2. id \in ScheduleId
  BY DEF StoreSchedule
<1>3. nextSchedule \in 1..(MaxSchedules + 1) /\ nextSchedule \in Nat
  BY BoundsAssumption DEF RowsInv, TypeOK
<1>4. CASE r.target = NONE
  <2>1. nextSchedule' = nextSchedule + 1 /\ id = nextSchedule
    BY <1>4 DEF StoreSchedule
  <2>2. nextSchedule \in 1..MaxSchedules
    BY <1>2, <2>1 DEF ScheduleId
  <2>3. nextSchedule' \in 1..(MaxSchedules + 1) /\ nextSchedule < nextSchedule'
    BY <2>1, <2>2, BoundsAssumption
  <2>4. schedules[id] = NONE
    BY <1>2, <1>3, <2>1 DEF RowsInv, Numbering
  <2> QED
    BY <1>1, <1>2, <1>3, <2>1, <2>3, <2>4
<1>5. CASE r.target # NONE
  <2>1. nextSchedule' = nextSchedule /\ id = r.target
    BY <1>5 DEF StoreSchedule
  <2>2. id < nextSchedule
    BY <1>1, <1>5, <2>1 DEF RowsInv, Numbering
  <2> QED
    BY <1>1, <1>2, <1>3, <1>5, <2>1, <2>2
<1> QED
  BY <1>4, <1>5

LEMMA StoreScheduleRows ==
  ASSUME RowsInv, NEW h \in Requests, StoreSchedule(h)
  PROVE  RowsInv'
<1> DEFINE r == request[h]
           id == IF r.target = NONE THEN nextSchedule ELSE r.target
<1>1. /\ r.row \in WeeklySchedule /\ id \in ScheduleId /\ id < nextSchedule'
      /\ nextSchedule' \in 1..(MaxSchedules + 1) /\ nextSchedule <= nextSchedule'
  BY Written
<1>2. schedules' \in {schedules, [schedules EXCEPT ![id] = r.row]}
  BY DEF StoreSchedule
<1>3. schedules' \in [ScheduleId -> OrNone(WeeklySchedule)]
  BY <1>1, <1>2 DEF RowsInv, TypeOK, OrNone
<1>4. \A s \in ScheduleId : schedules'[s] # NONE => schedules[s] # NONE \/ s < nextSchedule'
  BY <1>1, <1>2 DEF RowsInv, TypeOK
<1>5. Finish(h) /\ UNCHANGED <<drivers, routes, trucks, nextTruck, edits>>
  BY DEF StoreSchedule
<1> QED
  BY <1>1, <1>3, <1>4, <1>5, TablesStep DEF RowsInv, TypeOK

LEMMA RemoveScheduleRows ==
  ASSUME RowsInv, NEW s \in ScheduleId, RemoveSchedule(s)
  PROVE  RowsInv'
<1>1. /\ schedules' \in [ScheduleId -> OrNone(WeeklySchedule)]
      /\ \A u \in ScheduleId : schedules'[u] # NONE => schedules[u] # NONE
  BY DEF RemoveSchedule, RowsInv, TypeOK, OrNone
<1>2. nextSchedule <= nextSchedule'
  BY BoundsAssumption DEF RemoveSchedule, RowsInv, TypeOK
<1> QED
  BY <1>1, <1>2, TablesStep DEF RemoveSchedule, RowsInv, TypeOK

-----------------------------------------------------------------------------
(* The services beside them                                                *)

LEMMA DriversRows ==
  ASSUME RowsInv, NEW d \in Drivers,
         RemoveDriver(d) \/ \E status \in Status : SetDriver(d, status)
  PROVE  RowsInv'
<1>1. nextSchedule <= nextSchedule'
  BY BoundsAssumption DEF RemoveDriver, SetDriver, RowsInv, TypeOK
<1>2. edits' \in 0..MaxEdits
  BY CountedType DEF RemoveDriver, SetDriver, RowsInv
<1>3. drivers' \in [Drivers -> OrNone(Status)]
  BY DEF RemoveDriver, SetDriver, RowsInv, TypeOK, OrNone
<1>4. trucks' \in [TruckId -> OrNone(Truck)]
  BY DEF RemoveDriver, SetDriver, RowsInv, TypeOK, OrNone, Truck
<1> QED
  BY <1>1, <1>2, <1>3, <1>4, TablesStep DEF RemoveDriver, SetDriver, RowsInv, TypeOK

LEMMA RoutesRows ==
  ASSUME RowsInv, NEW r \in Routes,
         RemoveRoute(r) \/ \E status \in Status : SetRoute(r, status)
  PROVE  RowsInv'
<1>1. nextSchedule <= nextSchedule'
  BY BoundsAssumption DEF RemoveRoute, SetRoute, RowsInv, TypeOK
<1>2. edits' \in 0..MaxEdits
  BY CountedType DEF RemoveRoute, SetRoute, RowsInv
<1>3. routes' \in [Routes -> OrNone(Status)]
  BY DEF RemoveRoute, SetRoute, RowsInv, TypeOK, OrNone
<1>4. /\ schedules' \in [ScheduleId -> OrNone(WeeklySchedule)]
      /\ \A s \in ScheduleId : schedules'[s] # NONE => schedules[s] # NONE
  BY DEF RemoveRoute, SetRoute, RowsInv, TypeOK, OrNone
<1> QED
  BY <1>1, <1>2, <1>3, <1>4, TablesStep DEF RemoveRoute, SetRoute, RowsInv, TypeOK

LEMMA RowsStutter == ASSUME RowsInv, UNCHANGED vars PROVE RowsInv'
BY DEF vars, RowsInv, TypeOK, RecordsOk, RecordOk, Numbering, Assigns

LEMMA RowsInit == Init => RowsInv
<1> SUFFICES ASSUME Init PROVE RowsInv
  OBVIOUS
<1>1. TypeOK
  BY BoundsAssumption DEF Init, TypeOK, OrNone, Status
<1> QED
  BY <1>1 DEF Init, RowsInv, RecordsOk, Numbering, Assigns

LEMMA RowsStep == RowsInv /\ [Next]_vars => RowsInv'
<1> SUFFICES ASSUME RowsInv, [Next]_vars PROVE RowsInv'
  OBVIOUS
<1>1. ASSUME NEW h \in Requests, Ask(h) PROVE RowsInv'
  BY <1>1, CreateTruckRows, UpdateTruckRows, UpsertRows DEF Ask
<1>2. ASSUME NEW h \in Requests, Proceed(h) PROVE RowsInv'
  <2>1. ASSUME Fail(h) PROVE RowsInv'
    BY <2>1, FinishRows DEF Fail
  <2> QED
    BY <1>2, <2>1, LoadTruckRows, ResolveDriverRows, SaveTruckRows, FindTruckRows,
       FindRouteRows, FindOneOrFailRows, FindClashesRows, StoreScheduleRows DEF Proceed
<1>3. ASSUME Elsewhere PROVE RowsInv'
  BY <1>3, DriversRows, RoutesRows DEF Elsewhere
<1> QED
  BY <1>1, <1>2, <1>3, RemoveTruckRows, RemoveScheduleRows, RowsStutter DEF Next

(* Every table keeps its rows' types and every request its record's, through *)
(* the numbering of trucks and assignments by TypeORM's inserts.             *)
THEOREM TypesKept == Spec => []TypeOK
<1>1. RowsInv => TypeOK
  BY DEF RowsInv
<1> QED
  BY RowsInit, RowsStep, <1>1, PTL DEF Spec

-----------------------------------------------------------------------------
(* Nothing is wiped                                                        *)

(* What a step may do to an assignment that is there. *)
Kept(s) ==
  \/ schedules'[s] = schedules[s]
  \/ \E h \in Requests : StoreSchedule(h) /\ request[h].id = s
  \/ RemoveSchedule(s)
  \/ /\ schedules'[s] = NONE
     /\ trucks'[schedules[s].truck] = NONE \/ routes'[schedules[s].route] = NONE

(* Making an assignment writes where there is none; moving one, where it is. *)
LEMMA StoreKeeps ==
  ASSUME RowsInv, NEW h \in Requests, StoreSchedule(h),
         NEW s \in ScheduleId, schedules[s] # NONE
  PROVE  Kept(s)
<1> DEFINE r == request[h]
           id == IF r.target = NONE THEN nextSchedule ELSE r.target
<1>1. r.target = r.id /\ id \in ScheduleId /\ (r.target = NONE => schedules[id] = NONE)
  BY Written
<1>2. schedules' \in {schedules, [schedules EXCEPT ![id] = r.row]}
  BY DEF StoreSchedule
<1>3. CASE s = id
  BY <1>1, <1>3 DEF Kept
<1>4. CASE s # id
  BY <1>1, <1>2, <1>4 DEF Kept, RowsInv, TypeOK
<1> QED
  BY <1>3, <1>4

LEMMA RemoveTruckKeeps ==
  ASSUME RowsInv, NEW t \in TruckId, RemoveTruck(t), NEW s \in ScheduleId, schedules[s] # NONE
  PROVE  Kept(s)
<1>1. trucks'[t] = NONE
  BY DEF RemoveTruck, RowsInv, TypeOK
<1>2. schedules'[s] = IF schedules[s].truck = t THEN NONE ELSE schedules[s]
  BY DEF RemoveTruck
<1> QED
  BY <1>1, <1>2 DEF Kept

LEMMA RoutesKeep ==
  ASSUME RowsInv, NEW r \in Routes,
         RemoveRoute(r) \/ \E status \in Status : SetRoute(r, status),
         NEW s \in ScheduleId, schedules[s] # NONE
  PROVE  Kept(s)
<1>1. CASE RemoveRoute(r)
  <2>1. routes'[r] = NONE
    BY <1>1 DEF RemoveRoute, RowsInv, TypeOK
  <2>2. schedules'[s] = IF schedules[s].route = r THEN NONE ELSE schedules[s]
    BY <1>1 DEF RemoveRoute
  <2> QED
    BY <2>1, <2>2 DEF Kept
<1>2. CASE \E status \in Status : SetRoute(r, status)
  BY <1>2 DEF SetRoute, Kept
<1> QED
  BY <1>1, <1>2

LEMMA StepKeeps ==
  ASSUME RowsInv, [Next]_vars, NEW s \in ScheduleId, schedules[s] # NONE
  PROVE  Kept(s)
<1>1. ASSUME UNCHANGED schedules PROVE Kept(s)
  BY <1>1 DEF Kept
<1>2. ASSUME NEW h \in Requests, Ask(h) PROVE Kept(s)
  BY <1>1, <1>2 DEF Ask, CreateTruck, UpdateTruck, Upsert, Rows
<1>3. ASSUME NEW h \in Requests, Proceed(h) PROVE Kept(s)
  <2>1. ASSUME ~StoreSchedule(h) PROVE UNCHANGED schedules
    BY <1>3, <2>1 DEF Proceed, Rows, LoadTruck, ResolveDriver, SaveTruck, FindTruck, FindRoute,
       FindOneOrFail, FindClashes, Fail
  <2> QED
    BY <1>1, <2>1, StoreKeeps
<1>4. ASSUME NEW u \in ScheduleId, RemoveSchedule(u) PROVE Kept(s)
  BY <1>4 DEF RemoveSchedule, Kept, RowsInv, TypeOK
<1>5. ASSUME Elsewhere PROVE Kept(s)
  BY <1>1, <1>5, RoutesKeep DEF Elsewhere, RemoveDriver, SetDriver
<1>6. CASE UNCHANGED vars
  BY <1>1, <1>6 DEF vars
<1> QED
  BY <1>2, <1>3, <1>4, <1>5, <1>6, RemoveTruckKeeps DEF Next

(* No assignment is wiped by making or moving another one, however requests *)
(* and removals interleave: a new one takes an id nobody has, a moved one   *)
(* is written back to its own row.                                          *)
THEOREM NothingIsWiped == Spec => NothingOverwritten
<1> DEFINE Held(s) ==
             schedules[s] # NONE /\ schedules'[s] # schedules[s] =>
               \/ \E h \in Requests : StoreSchedule(h) /\ request[h].id = s
               \/ RemoveSchedule(s)
               \/ /\ schedules'[s] = NONE
                  /\ trucks'[schedules[s].truck] = NONE \/ routes'[schedules[s].route] = NONE
<1>1. RowsInv /\ [Next]_vars => [\A s \in ScheduleId : Held(s)]_vars
  BY StepKeeps DEF Kept
<1>2. Spec => [][\A s \in ScheduleId : Held(s)]_vars
  BY RowsInit, RowsStep, <1>1, PTL DEF Spec
<1> QED
  BY <1>2 DEF NothingOverwritten

-----------------------------------------------------------------------------
(* One truck per route and day                                             *)

AtMostOne == \A g, h \in Requests : Assigns(g) /\ Assigns(h) => g = h

\* Whoever is to write has found nothing in the way, and nothing got there since.
Checked ==
  \A h \in Requests :
    At(h, "store") => Clashes(request[h].row, request[h].target) = {}

OneInv == RouteHasOneTruck /\ AtMostOne /\ Checked

(* A step that adds no assignment and lets nobody write who has not looked. *)
LEMMA NothingAdded ==
  ASSUME OneInv,
         \A s \in ScheduleId : schedules'[s] \in {schedules[s], NONE},
         \A g \in Requests : Assigns(g)' => Assigns(g),
         \A g \in Requests : At(g, "store")' =>
           Clashes(request'[g].row, request'[g].target) = {}
  PROVE  OneInv'
<1>1. RouteHasOneTruck'
  BY DEF OneInv, RouteHasOneTruck
<1>2. AtMostOne'
  BY DEF OneInv, AtMostOne
<1>3. ASSUME NEW g \in Requests, At(g, "store")'
      PROVE  Clashes(request[g].row, request[g].target)' = {}
  <2>1. Clashes(request'[g].row, request'[g].target) = {}
    BY <1>3
  <2> QED
    BY <2>1 DEF Clashes
<1> QED
  BY <1>1, <1>2, <1>3 DEF OneInv, Checked

(* A request that is not about an assignment, or has been answered. *)
LEMMA OthersWait ==
  ASSUME OneInv, TypeOK, NEW h \in Requests, NEW rec, Goto(h, rec),
         \A s \in ScheduleId : schedules'[s] \in {schedules[s], NONE},
         rec # NONE => rec \notin ScheduleRequest /\ rec.at # "store"
  PROVE  OneInv'
<1>1. request'[h] = rec /\ \A g \in Requests \ {h} : request'[g] = request[g]
  BY SlotFrame
<1>2. \A g \in Requests : Assigns(g)' => Assigns(g)
  BY <1>1 DEF Assigns
<1>3. ASSUME NEW g \in Requests, At(g, "store")'
      PROVE  Clashes(request'[g].row, request'[g].target) = {}
  <2>1. g # h /\ At(g, "store") /\ request'[g] = request[g]
    BY <1>1, <1>3 DEF At
  <2> QED
    BY <2>1 DEF OneInv, Checked
<1> QED
  BY <1>2, <1>3, NothingAdded

LEMMA AnsweredOne ==
  ASSUME OneInv, TypeOK, NEW h \in Requests, Finish(h), UNCHANGED schedules
  PROVE  OneInv'
BY OthersWait DEF Finish

(* The tables change, the requests do not. *)
LEMMA RequestsStay ==
  ASSUME OneInv, UNCHANGED request,
         \A s \in ScheduleId : schedules'[s] \in {schedules[s], NONE}
  PROVE  OneInv'
BY NothingAdded DEF Assigns, At, OneInv, Checked

(* A request about an assignment awaits something else. *)
LEMMA AwaitsOn ==
  ASSUME OneInv, TypeOK, NEW h \in Requests, Assigns(h), NEW rec, Goto(h, rec),
         UNCHANGED schedules,
         rec.at = "store" => Clashes(rec.row, rec.target) = {}
  PROVE  OneInv'
<1>1. request'[h] = rec /\ \A g \in Requests \ {h} : request'[g] = request[g]
  BY SlotFrame
<1>2. \A g \in Requests : Assigns(g)' => Assigns(g)
  BY <1>1 DEF Assigns
<1>3. ASSUME NEW g \in Requests, At(g, "store")'
      PROVE  Clashes(request'[g].row, request'[g].target) = {}
  <2>1. CASE g = h
    BY <1>1, <1>3, <2>1 DEF At
  <2>2. CASE g # h
    BY <1>1, <1>3, <2>2 DEF At, OneInv, Checked
  <2> QED
    BY <2>1, <2>2
<1> QED
  BY <1>2, <1>3, NothingAdded

LEMMA TruckRequestOne ==
  ASSUME OneInv, TypeOK, NEW h \in Requests,
         \/ \E d \in OrNone(Drivers) : CreateTruck(h, d)
         \/ \E t \in TruckId, d \in OrNone(Drivers) \cup {"same"}, status \in Status \cup {"same"} :
              UpdateTruck(h, t, d, status)
  PROVE  OneInv'
<1>1. ASSUME NEW d \in OrNone(Drivers), CreateTruck(h, d) PROVE OneInv'
  <2> DEFINE rec == [at |-> IF d = NONE THEN "save" ELSE "driver", id |-> NONE,
                     driver |-> d, status |-> "same",
                     row |-> [driver |-> NONE, status |-> "active"]]
  <2>1. Goto(h, rec) /\ UNCHANGED schedules
    BY <1>1 DEF CreateTruck, Rows
  <2>2. rec \notin ScheduleRequest /\ rec.at # "store"
    BY DEF ScheduleRequest
  <2> QED
    BY <2>1, <2>2, OthersWait
<1>2. ASSUME NEW t \in TruckId, NEW d \in OrNone(Drivers) \cup {"same"},
             NEW status \in Status \cup {"same"}, UpdateTruck(h, t, d, status)
      PROVE  OneInv'
  <2> DEFINE rec == [at |-> "load", id |-> t, driver |-> d, status |-> status, row |-> NONE]
  <2>1. Goto(h, rec) /\ UNCHANGED schedules
    BY <1>2 DEF UpdateTruck, Rows
  <2>2. rec \notin ScheduleRequest /\ rec.at # "store"
    BY DEF ScheduleRequest
  <2> QED
    BY <2>1, <2>2, OthersWait
<1> QED
  BY <1>1, <1>2

LEMMA TruckProceedsOne ==
  ASSUME OneInv, RowsInv, NEW h \in Requests, LoadTruck(h) \/ ResolveDriver(h) \/ SaveTruck(h)
  PROVE  OneInv'
<1>1. UNCHANGED schedules
  BY DEF LoadTruck, ResolveDriver, SaveTruck, Rows
<1>2. CASE Finish(h)
  BY <1>1, <1>2, AnsweredOne DEF RowsInv
<1>3. CASE ~Finish(h)
  <2> DEFINE r == request[h]
             rec == request'[h]
  <2>1. r \in TruckRequest
    BY Kind DEF LoadTruck, ResolveDriver, SaveTruck, At, RowsInv
  <2>2. Goto(h, rec) /\ rec.at \in {"driver", "save"}
    <3>1. CASE LoadTruck(h)
      <4> DEFINE new == [r EXCEPT
                    !.row = [driver |-> IF r.driver = NONE THEN NONE ELSE trucks[r.id].driver,
                             status |-> Given(r.status, trucks[r.id].status)],
                    !.at = IF r.driver \in Drivers THEN "driver" ELSE "save"]
      <4>1. Goto(h, new)
        BY <1>3, <3>1 DEF LoadTruck
      <4>2. new.at \in {"driver", "save"}
        BY <2>1 DEF TruckRequest
      <4>3. rec = new
        BY <4>1, SlotFrame DEF RowsInv
      <4> HIDE DEF new
      <4> QED
        BY <4>1, <4>2, <4>3
    <3>2. CASE ResolveDriver(h)
      BY <1>3, <2>1, <3>2 DEF ResolveDriver, Goto, TruckRequest, RowsInv, TypeOK
    <3>3. ~SaveTruck(h)
      BY <1>3 DEF SaveTruck
    <3> QED
      BY <3>1, <3>2, <3>3
  <2>3. rec \notin ScheduleRequest /\ rec.at # "store"
    BY <2>2 DEF ScheduleRequest
  <2> QED
    BY <1>1, <2>2, <2>3, OthersWait DEF RowsInv
<1> QED
  BY <1>2, <1>3

(* With one assignment made at a time, a request starts when there is none. *)
LEMMA UpsertOne ==
  ASSUME Exclusive = TRUE, OneInv, TypeOK, NEW h \in Requests,
         NEW id \in OrNone(ScheduleId), NEW row \in WeeklySchedule, Upsert(h, id, row)
  PROVE  OneInv'
<1> DEFINE rec == [at |-> "truck", id |-> id, target |-> NONE, row |-> row]
<1>1. \A g \in Requests : ~Assigns(g)
  BY DEF Upsert, Assigns
<1>2. request'[h] = rec /\ \A g \in Requests \ {h} : request'[g] = request[g]
  BY SlotFrame DEF Upsert
<1>3. UNCHANGED schedules
  BY DEF Upsert, Rows
<1>4. RouteHasOneTruck'
  BY <1>3 DEF OneInv, RouteHasOneTruck
<1>5. AtMostOne'
  BY <1>1, <1>2 DEF AtMostOne, Assigns
<1>6. \A g \in Requests : ~At(g, "store")'
  BY <1>1, <1>2, Kind DEF At, Assigns
<1> QED
  BY <1>4, <1>5, <1>6 DEF OneInv, Checked

LEMMA LookupsOne ==
  ASSUME OneInv, RowsInv, NEW h \in Requests,
         FindTruck(h) \/ FindRoute(h) \/ FindOneOrFail(h) \/ FindClashes(h)
  PROVE  OneInv'
<1> DEFINE r == request[h]
<1>1. UNCHANGED schedules
  BY DEF FindTruck, FindRoute, FindOneOrFail, FindClashes, Rows
<1>2. Assigns(h) /\ r \in ScheduleRequest
  BY Kind DEF FindTruck, FindRoute, FindOneOrFail, FindClashes, At, RowsInv, Assigns
<1>3. ASSUME Finish(h) PROVE OneInv'
  BY <1>1, <1>3, AnsweredOne DEF RowsInv
<1>4. ASSUME NEW at \in {"route", "target", "clashes"}, Step(h, at) PROVE OneInv'
  <2>1. [r EXCEPT !.at = at].at # "store"
    BY <1>2, <1>4 DEF ScheduleRequest
  <2> QED
    BY <1>1, <1>2, <1>4, <2>1, AwaitsOn DEF Step, RowsInv
<1>5. CASE FindTruck(h)
  BY <1>3, <1>4, <1>5 DEF FindTruck
<1>6. CASE FindRoute(h)
  BY <1>3, <1>4, <1>6 DEF FindRoute
<1>7. CASE FindOneOrFail(h)
  <2> DEFINE rec == [r EXCEPT !.target = r.id, !.at = "clashes"]
  <2>1. rec.at # "store"
    BY <1>2 DEF ScheduleRequest
  <2>2. Goto(h, rec) \/ Finish(h)
    BY <1>7 DEF FindOneOrFail
  <2> QED
    BY <1>1, <1>2, <1>3, <2>1, <2>2, AwaitsOn DEF RowsInv
<1>8. CASE FindClashes(h)
  <2> DEFINE rec == [r EXCEPT !.at = "store"]
  <2>1. rec.row = r.row /\ rec.target = r.target
    BY <1>2 DEF ScheduleRequest
  <2>2. Finish(h) \/ (Goto(h, rec) /\ Clashes(r.row, r.target) = {})
    BY <1>8 DEF FindClashes, Step
  <2> QED
    BY <1>1, <1>2, <1>3, <2>1, <2>2, AwaitsOn DEF RowsInv
<1> QED
  BY <1>5, <1>6, <1>7, <1>8

(* What was found free still is: nobody else was making an assignment. *)
LEMMA StoreOne ==
  ASSUME OneInv, RowsInv, NEW h \in Requests, StoreSchedule(h)
  PROVE  OneInv'
<1> DEFINE r == request[h]
           id == IF r.target = NONE THEN nextSchedule ELSE r.target
<1>1. /\ Assigns(h) /\ r.row \in WeeklySchedule /\ id \in ScheduleId
      /\ r.target = NONE => schedules[id] = NONE
  BY Written
<1>2. Clashes(r.row, r.target) = {}
  BY DEF StoreSchedule, OneInv, Checked
<1>3. Clashes(r.row, id) = {}
  <2>1. CASE r.target = NONE
    <3>1. Clashes(r.row, id) \subseteq Clashes(r.row, r.target)
      BY <2>1, NoneIsNoRow DEF Clashes
    <3> QED
      BY <1>2, <3>1
  <2>2. CASE r.target # NONE
    BY <1>2, <2>2
  <2> QED
    BY <2>1, <2>2
<1>4. schedules' \in {schedules, [schedules EXCEPT ![id] = r.row]}
  BY DEF StoreSchedule
<1>5. RouteHasOneTruck'
  <2>1. CASE schedules' = schedules
    BY <2>1 DEF OneInv, RouteHasOneTruck
  <2>2. CASE schedules' = [schedules EXCEPT ![id] = r.row]
    <3>1. /\ schedules'[id] = r.row
          /\ \A s \in ScheduleId \ {id} : schedules'[s] = schedules[s]
      BY <1>1, <2>2 DEF RowsInv, TypeOK
    <3>2. \A s \in ScheduleId \ {id} : schedules[s] # NONE /\ schedules[s].day = r.row.day =>
            schedules[s].truck # r.row.truck /\ schedules[s].route # r.row.route
      BY <1>3 DEF Clashes
    <3> QED
      BY <3>1, <3>2 DEF OneInv, RouteHasOneTruck
  <2> QED
    BY <1>4, <2>1, <2>2
<1>6. request'[h] = NONE /\ \A g \in Requests \ {h} : request'[g] = request[g]
  BY SlotFrame DEF StoreSchedule, Finish, RowsInv
<1>7. \A g \in Requests : ~Assigns(g)'
  BY <1>1, <1>6 DEF OneInv, AtMostOne, Assigns
<1>8. AtMostOne' /\ \A g \in Requests : ~At(g, "store")'
  <2>1. ASSUME NEW g \in Requests, At(g, "store")' PROVE FALSE
    <3>1. g # h /\ At(g, "store")
      BY <1>6, <2>1 DEF At
    <3>2. Assigns(g)
      BY <3>1, Kind DEF At, Assigns, RowsInv
    <3> QED
      BY <1>1, <3>1, <3>2 DEF OneInv, AtMostOne
  <2> QED
    BY <1>7, <2>1 DEF AtMostOne
<1> QED
  BY <1>5, <1>8 DEF OneInv, Checked

LEMMA OneInit == Init => OneInv
BY DEF Init, OneInv, RouteHasOneTruck, AtMostOne, Checked, Assigns, At

LEMMA OneStep ==
  ASSUME Exclusive = TRUE, RowsInv, OneInv, [Next]_vars
  PROVE  OneInv'
<1>0. TypeOK
  BY DEF RowsInv
<1>1. ASSUME NEW h \in Requests, Ask(h) PROVE OneInv'
  BY <1>0, <1>1, TruckRequestOne, UpsertOne DEF Ask
<1>2. ASSUME NEW h \in Requests, Proceed(h) PROVE OneInv'
  <2>1. ASSUME Fail(h) PROVE OneInv'
    BY <1>0, <2>1, AnsweredOne DEF Fail, Rows
  <2> QED
    BY <1>2, <2>1, TruckProceedsOne, LookupsOne, StoreOne DEF Proceed
<1>3. ASSUME NEW t \in TruckId, RemoveTruck(t) PROVE OneInv'
  BY <1>3, RequestsStay DEF RemoveTruck
<1>4. ASSUME NEW s \in ScheduleId, RemoveSchedule(s) PROVE OneInv'
  BY <1>4, RequestsStay DEF RemoveSchedule, RowsInv, TypeOK
<1>5. ASSUME Elsewhere PROVE OneInv'
  BY <1>5, RequestsStay DEF Elsewhere, RemoveDriver, SetDriver, RemoveRoute, SetRoute
<1>6. ASSUME UNCHANGED vars PROVE OneInv'
  BY <1>6, RequestsStay DEF vars
<1> QED
  BY <1>1, <1>2, <1>3, <1>4, <1>5, <1>6 DEF Next

(* "A truck can only be on one route at a time, and a route needs exactly   *)
(* one truck" a day, while one assignment is made or moved at a time: what  *)
(* the clash check found free is free when the row is written, removals and *)
(* failures in between included.                                            *)
THEOREM RouteKeepsOneTruck ==
  ASSUME Exclusive = TRUE
  PROVE  Spec => []RouteHasOneTruck
<1>1. OneInv => RouteHasOneTruck
  BY DEF OneInv
<1>2. RowsInv /\ OneInv /\ [Next]_vars => OneInv'
  BY OneStep
<1> QED
  BY RowsInit, RowsStep, OneInit, <1>1, <1>2, PTL DEF Spec
=============================================================================
