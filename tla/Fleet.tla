------------------------------- MODULE Fleet -------------------------------
(***************************************************************************)
(* What a municipality drives, and when: its trucks with their drivers,    *)
(* and the weekly schedules, one row per truck, route and day.             *)
(*                                                                         *)
(* A request runs without interruption between two awaits; a statement is  *)
(* atomic.  save() writes the row as it was loaded and changed, inserts it *)
(* where it is gone, and fails where it refers to a row that is gone.      *)
(* Names and licence plates are left out: a request that is refused for    *)
(* one is a request that was never made.                                   *)
(***************************************************************************)
EXTENDS Integers

CONSTANTS
  Requests,      \* slots for requests being handled
  NONE,          \* SQL NULL, no row
  Drivers,       \* drivers of the municipality
  Routes,        \* its routes
  Days,          \* days of the week
  MaxTrucks,     \* bound: trucks that are registered
  MaxSchedules,  \* bound: assignments that are made
  MaxEdits,      \* bound: changes of drivers, routes and trucks
  Exclusive      \* TRUE: one assignment is being made or moved at a time

TruckId == 1..MaxTrucks
ScheduleId == 1..MaxSchedules

ASSUME BoundsAssumption ==
  /\ MaxTrucks \in Nat /\ MaxSchedules \in Nat /\ MaxEdits \in Nat
  /\ Exclusive \in BOOLEAN
  /\ NONE \notin Nat /\ NONE \notin Drivers /\ NONE \notin Routes /\ NONE \notin Days
  /\ NONE \notin {"active", "inactive", "same"} /\ "same" \notin Drivers

VARIABLES
  drivers,       \* drivers: in service or not
  routes,        \* routes: in service or not
  trucks,        \* trucks
  schedules,     \* weekly_schedules
  nextTruck, nextSchedule,  \* the next values of the id sequences
  request,       \* the requests in flight
  edits          \* how many changes there have been

vars == <<drivers, routes, trucks, schedules, nextTruck, nextSchedule, request, edits>>

-----------------------------------------------------------------------------
(* Types                                                                   *)

OrNone(S) == S \cup {NONE}

Status == {"active", "inactive"}
Truck == [driver: OrNone(Drivers), status: Status]
WeeklySchedule == [truck: TruckId, route: Routes, day: Days]

ASSUME RowAssumption == NONE \notin Truck \cup WeeklySchedule

\* `id`: the truck or the schedule it is to change, NONE for a new one; `row`: the entity
\* as loaded and changed, or as asked for; `target`: the schedule it will write.
TruckRequest ==
  [at: {"load", "driver", "save"}, id: OrNone(TruckId),
   driver: OrNone(Drivers) \cup {"same"}, status: Status \cup {"same"}, row: OrNone(Truck)]
ScheduleRequest ==
  [at: {"truck", "route", "target", "clashes", "store"}, id: OrNone(ScheduleId),
   target: OrNone(ScheduleId), row: WeeklySchedule]

TypeOK ==
  /\ drivers \in [Drivers -> OrNone(Status)]
  /\ routes \in [Routes -> OrNone(Status)]
  /\ trucks \in [TruckId -> OrNone(Truck)]
  /\ schedules \in [ScheduleId -> OrNone(WeeklySchedule)]
  /\ nextTruck \in 1..(MaxTrucks + 1) /\ nextSchedule \in 1..(MaxSchedules + 1)
  /\ request \in [Requests -> {NONE} \cup TruckRequest \cup ScheduleRequest]
  /\ edits \in 0..MaxEdits

-----------------------------------------------------------------------------
(* Requests                                                                *)

At(h, at) == request[h] # NONE /\ request[h].at = at
Goto(h, rec) == request' = [request EXCEPT ![h] = rec]
Finish(h) == Goto(h, NONE)
Step(h, at) == Goto(h, [request[h] EXCEPT !.at = at])

Counted == edits < MaxEdits /\ edits' = edits + 1
Rows == <<drivers, routes, trucks, schedules, nextTruck, nextSchedule>>

(* TrucksService                                                           *)

\* Without a driver, or with one that is looked up first.
CreateTruck(h, d) ==
  /\ request[h] = NONE
  /\ LET row == [driver |-> NONE, status |-> "active"]
     IN  Goto(h, [at |-> IF d = NONE THEN "save" ELSE "driver", id |-> NONE,
                  driver |-> d, status |-> "same", row |-> row])
  /\ UNCHANGED <<Rows, edits>>

UpdateTruck(h, t, d, status) ==
  /\ request[h] = NONE
  /\ Counted
  /\ Goto(h, [at |-> "load", id |-> t, driver |-> d, status |-> status, row |-> NONE])
  /\ UNCHANGED Rows

Given(value, old) == IF value = "same" THEN old ELSE value

\* Mutant: a driver that is not mentioned is written as it came.
LoadTruck_AsAsked(h) ==
  LET r == request[h]
  IN  /\ At(h, "load")
      /\ IF trucks[r.id] = NONE THEN Finish(h)
         ELSE Goto(h, [r EXCEPT
                !.row = [driver |-> r.driver,
                         status |-> Given(r.status, trucks[r.id].status)],
                !.at = IF r.driver \in Drivers THEN "driver" ELSE "save"])
      /\ UNCHANGED <<Rows, edits>>
LoadTruck(h) ==
  LET r == request[h]
  IN  /\ At(h, "load")
      /\ IF trucks[r.id] = NONE THEN Finish(h)
         ELSE Goto(h, [r EXCEPT
                !.row = [driver |-> IF r.driver = NONE THEN NONE ELSE trucks[r.id].driver,
                         status |-> Given(r.status, trucks[r.id].status)],
                !.at = IF r.driver \in Drivers THEN "driver" ELSE "save"])
      /\ UNCHANGED <<Rows, edits>>

\* The driver must be there and active.
ResolveDriver(h) ==
  /\ At(h, "driver")
  /\ IF drivers[request[h].driver] # "active" THEN Finish(h)
     ELSE Goto(h, [request[h] EXCEPT !.row.driver = request[h].driver, !.at = "save"])
  /\ UNCHANGED <<Rows, edits>>

SaveTruck(h) ==
  LET r == request[h]
      id == IF r.id = NONE THEN nextTruck ELSE r.id
  IN  /\ At(h, "save")
      /\ id \in TruckId
      /\ trucks' = IF r.row.driver # NONE /\ drivers[r.row.driver] = NONE THEN trucks
                   ELSE [trucks EXCEPT ![id] = r.row]
      /\ nextTruck' = IF r.id = NONE THEN nextTruck + 1 ELSE nextTruck
      /\ Finish(h)
      /\ UNCHANGED <<drivers, routes, schedules, nextSchedule, edits>>

\* ON DELETE CASCADE.
RemoveTruck(t) ==
  /\ trucks[t] # NONE
  /\ Counted
  /\ trucks' = [trucks EXCEPT ![t] = NONE]
  /\ schedules' = [s \in ScheduleId |->
       IF schedules[s] # NONE /\ schedules[s].truck = t THEN NONE ELSE schedules[s]]
  /\ UNCHANGED <<drivers, routes, nextTruck, nextSchedule, request>>

(* SchedulesService                                                        *)

\* POST schedules (id = NONE), PATCH schedules/:id.
Upsert(h, id, row) ==
  /\ request[h] = NONE
  /\ Exclusive => \A g \in Requests : request[g] \notin ScheduleRequest
  /\ Goto(h, [at |-> "truck", id |-> id, target |-> NONE, row |-> row])
  /\ UNCHANGED <<Rows, edits>>

FindTruck(h) ==
  LET t == request[h].row.truck
  IN  /\ At(h, "truck")
      /\ IF trucks[t] # NONE /\ trucks[t].status = "active" THEN Step(h, "route") ELSE Finish(h)
      /\ UNCHANGED <<Rows, edits>>

FindRoute(h) ==
  /\ At(h, "route")
  /\ IF routes[request[h].row.route] = "active"
     THEN Step(h, IF request[h].id = NONE THEN "clashes" ELSE "target")
     ELSE Finish(h)
  /\ UNCHANGED <<Rows, edits>>

FindOneOrFail(h) ==
  /\ At(h, "target")
  /\ IF schedules[request[h].id] = NONE THEN Finish(h)
     ELSE Goto(h, [request[h] EXCEPT !.target = request[h].id, !.at = "clashes"])
  /\ UNCHANGED <<Rows, edits>>

\* Mutant: the route may have been given to another truck that day.
Clashes_SameTruck(row, target) ==
  {s \in ScheduleId \ {target} :
     schedules[s] # NONE /\ schedules[s].day = row.day /\ schedules[s].truck = row.truck}
\* Who has the truck or the route that day already.
Clashes(row, target) ==
  {s \in ScheduleId \ {target} :
     /\ schedules[s] # NONE /\ schedules[s].day = row.day
     /\ schedules[s].truck = row.truck \/ schedules[s].route = row.route}

\* Mutant: the assignment in the way is the one that is moved.
FindClashes_Overwrite(h) ==
  LET r == request[h]
      clashes == Clashes(r.row, r.target)
  IN  /\ At(h, "clashes")
      /\ \/ clashes = {} /\ Step(h, "store")
         \/ \E s \in clashes : Goto(h, [r EXCEPT !.target = s, !.at = "store"])
      /\ UNCHANGED <<Rows, edits>>
FindClashes(h) ==
  /\ At(h, "clashes")
  /\ IF Clashes(request[h].row, request[h].target) = {} THEN Step(h, "store") ELSE Finish(h)
  /\ UNCHANGED <<Rows, edits>>

\* UNIQUE (truck, dayOfWeek), and the rows it refers to.
Storable(row, id) ==
  /\ trucks[row.truck] # NONE /\ routes[row.route] # NONE
  /\ Clashes_SameTruck(row, id) = {}

StoreSchedule(h) ==
  LET r == request[h]
      id == IF r.target = NONE THEN nextSchedule ELSE r.target
  IN  /\ At(h, "store")
      /\ id \in ScheduleId
      /\ schedules' = IF Storable(r.row, id) THEN [schedules EXCEPT ![id] = r.row] ELSE schedules
      /\ nextSchedule' = IF r.target = NONE THEN nextSchedule + 1 ELSE nextSchedule
      /\ Finish(h)
      /\ UNCHANGED <<drivers, routes, trucks, nextTruck, edits>>

RemoveSchedule(s) ==
  /\ schedules[s] # NONE
  /\ schedules' = [schedules EXCEPT ![s] = NONE]
  /\ UNCHANGED <<drivers, routes, trucks, nextTruck, nextSchedule, request, edits>>

\* A statement fails, or the process restarts.
Fail(h) ==
  /\ request[h] # NONE
  /\ Finish(h)
  /\ UNCHANGED <<Rows, edits>>

(* The services beside them                                                *)

\* Put in or out of service.
SetDriver(d, status) ==
  /\ drivers[d] # NONE
  /\ Counted
  /\ drivers' = [drivers EXCEPT ![d] = status]
  /\ UNCHANGED <<routes, trucks, schedules, nextTruck, nextSchedule, request>>

\* ON DELETE SET NULL.
RemoveDriver(d) ==
  /\ drivers[d] # NONE
  /\ Counted
  /\ drivers' = [drivers EXCEPT ![d] = NONE]
  /\ trucks' = [t \in TruckId |->
       IF trucks[t] # NONE /\ trucks[t].driver = d THEN [trucks[t] EXCEPT !.driver = NONE]
       ELSE trucks[t]]
  /\ UNCHANGED <<routes, schedules, nextTruck, nextSchedule, request>>

SetRoute(r, status) ==
  /\ routes[r] # NONE
  /\ Counted
  /\ routes' = [routes EXCEPT ![r] = status]
  /\ UNCHANGED <<drivers, trucks, schedules, nextTruck, nextSchedule, request>>

\* ON DELETE CASCADE.
RemoveRoute(r) ==
  /\ routes[r] # NONE
  /\ Counted
  /\ routes' = [routes EXCEPT ![r] = NONE]
  /\ schedules' = [s \in ScheduleId |->
       IF schedules[s] # NONE /\ schedules[s].route = r THEN NONE ELSE schedules[s]]
  /\ UNCHANGED <<drivers, trucks, nextTruck, nextSchedule, request>>

-----------------------------------------------------------------------------

Init ==
  /\ drivers = [d \in Drivers |-> "active"]
  /\ routes = [r \in Routes |-> "active"]
  /\ trucks = [t \in TruckId |-> NONE]
  /\ schedules = [s \in ScheduleId |-> NONE]
  /\ nextTruck = 1 /\ nextSchedule = 1
  /\ request = [h \in Requests |-> NONE]
  /\ edits = 0

Ask(h) ==
  /\ request[h] = NONE
  /\ \/ \E d \in OrNone(Drivers) : CreateTruck(h, d)
     \/ \E t \in TruckId, d \in OrNone(Drivers) \cup {"same"}, status \in Status \cup {"same"} :
          UpdateTruck(h, t, d, status)
     \/ \E id \in OrNone(ScheduleId), row \in WeeklySchedule : Upsert(h, id, row)

Proceed(h) ==
  \/ LoadTruck(h) \/ ResolveDriver(h) \/ SaveTruck(h)
  \/ FindTruck(h) \/ FindRoute(h) \/ FindOneOrFail(h) \/ FindClashes(h) \/ StoreSchedule(h)
  \/ Fail(h)

Elsewhere ==
  \/ \E d \in Drivers : RemoveDriver(d) \/ \E status \in Status : SetDriver(d, status)
  \/ \E r \in Routes : RemoveRoute(r) \/ \E status \in Status : SetRoute(r, status)

Next ==
  \/ \E h \in Requests : Ask(h) \/ Proceed(h)
  \/ \E t \in TruckId : RemoveTruck(t)
  \/ \E s \in ScheduleId : RemoveSchedule(s)
  \/ Elsewhere

Spec == Init /\ [][Next]_vars

-----------------------------------------------------------------------------
(* Properties                                                              *)

(* "A truck can only be on one route at a time, and a route needs exactly  *)
(* one truck": one assignment names a truck on a day, one names a route,   *)
(* through moves of assignments that are removed meanwhile, removals of    *)
(* trucks and routes, and failures between any two statements.  With one   *)
(* assignment made at a time; nothing in the database guards the route.    *)
RouteHasOneTruck ==
  \A s, u \in ScheduleId :
    /\ schedules[s] # NONE /\ schedules[u] # NONE
    /\ schedules[s].day = schedules[u].day
    /\ schedules[s].truck = schedules[u].truck \/ schedules[s].route = schedules[u].route
    => s = u

(* No assignment is wiped by making or moving another one, as it used to   *)
(* be: one that is there changes by a request for that very row, and       *)
(* disappears with its truck, with its route, or when it is removed.       *)
NothingOverwritten ==
  [][\A s \in ScheduleId :
       schedules[s] # NONE /\ schedules'[s] # schedules[s] =>
         \/ \E h \in Requests : StoreSchedule(h) /\ request[h].id = s
         \/ RemoveSchedule(s)
         \/ /\ schedules'[s] = NONE
            /\ trucks'[schedules[s].truck] = NONE \/ routes'[schedules[s].route] = NONE]_vars
=============================================================================
