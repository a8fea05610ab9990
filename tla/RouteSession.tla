---------------------------- MODULE RouteSession ----------------------------
(***************************************************************************)
(* Driving sessions of the tracking module: the route_sessions table, the  *)
(* socket gateway and the HTTP controller that start, feed and stop them,  *)
(* and the background sweep that closes abandoned ones.                    *)
(*                                                                         *)
(* The server is one Node process: a handler runs without interruption     *)
(* between two awaits, and every SQL statement is atomic.  A handler is    *)
(* therefore a slot with a program counter and the values it has read so   *)
(* far; one action is what it does from one await to the next.  A          *)
(* statement and the clock reading that goes with it are one step: they    *)
(* are milliseconds apart, and the clock counts in fractions of the        *)
(* half-hour inactivity limit.                                             *)
(***************************************************************************)
EXTENDS Integers, FiniteSets

CONSTANTS
  Drivers, Trucks, Routes,
  Sockets,          \* socket connections, each used once
  Handlers,         \* slots for requests and messages being handled
  NONE,             \* SQL NULL, an absent property, a slot nobody uses
  InactivityLimit,  \* INACTIVITY_LIMIT_MS, in clock units
  MaxInFlight,      \* bound: unfinished handlers of one driver
  MaxTime,          \* bound: the last value of the clock
  MaxSessions,      \* bound: rows of route_sessions
  Upsets,           \* kinds of upsets that may happen: "edit", "fault", "restart"
  MaxUpsets,        \* bound: how many of them happen
  Timely            \* TRUE: handlers and sweeps finish within one clock unit

ASSUME NoneAssumption ==
  /\ NONE \notin Drivers \cup Trucks \cup Routes \cup Sockets
  /\ NONE \notin Nat
ASSUME BoundsAssumption ==
  /\ InactivityLimit \in Nat
  /\ MaxTime \in Nat
  /\ MaxSessions \in Nat
  /\ MaxInFlight \in Nat
  /\ MaxUpsets \in Nat
  /\ Timely \in BOOLEAN
  /\ Upsets \subseteq {"edit", "fault", "restart"}

VARIABLES
  now,        \* Date.now()
  sessions,   \* route_sessions, by id
  nextId,     \* the next value of its id sequence
  lastFix,    \* the last row of truck_positions: nothing here reads older ones
  driverOf,   \* trucks.driver_id
  schedule,   \* today's weekly_schedules row of a truck: its route
  routeState, \* "ready" (active, with segments), "unready" or "removed"
  client,     \* client.data of every socket
  task,       \* the handlers in flight
  sweep,      \* last_activity_at of the rows the running sweep has loaded
  onMap,      \* trucks the admin map shows
  watch,      \* what a resident who joined the route's room sees
  upsets      \* how many upsets have happened

tables == <<sessions, nextId, lastFix>>
catalog == <<driverOf, schedule, routeState>>
screens == <<onMap, watch>>
vars == <<now, sessions, nextId, lastFix, driverOf, schedule, routeState,
          client, task, sweep, onMap, watch, upsets>>

-----------------------------------------------------------------------------
(* Types                                                                   *)

SessionId == 1..MaxSessions
OrNone(S) == S \cup {NONE}

Session == [driver: OrNone(Drivers), truck: OrNone(Trucks), route: OrNone(Routes),
            started: Nat, last: Nat, ended: OrNone(Nat)]
NoSession == [driver |-> NONE, truck |-> NONE, route |-> NONE,
              started |-> 0, last |-> 0, ended |-> NONE]

\* The points at which a handler awaits the database.
StartPoints == {"startTruck", "startSchedule", "startFind", "startClose", "startInsert"}
Points == StartPoints \cup
          {"idle", "verify", "resumeFind", "resumeTruck", "resumeSchedule",
           "positionFind", "activity", "store", "emit",
           "stopFind", "stopUpdate", "socketStop"}

Task == [at: Points, driver: OrNone(Drivers), socket: OrNone(Sockets),
         session: OrNone(SessionId), truck: OrNone(Trucks), route: OrNone(Routes)]
Idle == [at |-> "idle", driver |-> NONE, socket |-> NONE,
         session |-> NONE, truck |-> NONE, route |-> NONE]

\* client.data: `driver` is data.user, absent until the connection is accepted.
Client == [up: BOOLEAN, driver: OrNone(Drivers), session: OrNone(SessionId),
           truck: OrNone(Trucks), route: OrNone(Routes)]
NoClient == [up |-> FALSE, driver |-> NONE, session |-> NONE,
             truck |-> NONE, route |-> NONE]

Fix == [session: SessionId, driver: Drivers, truck: Trucks, route: Routes,
        socket: OrNone(Sockets), inOpen: BOOLEAN]

NoSweep == [s \in SessionId |-> NONE]

TypeOK ==
  /\ now \in Nat
  /\ sessions \in [SessionId -> Session]
  /\ nextId \in 1..(MaxSessions + 1)
  /\ lastFix \in OrNone(Fix)
  /\ driverOf \in [Trucks -> OrNone(Drivers)]
  /\ schedule \in [Trucks -> OrNone(Routes)]
  /\ routeState \in [Routes -> {"ready", "unready", "removed"}]
  /\ client \in [Sockets -> Client]
  /\ task \in [Handlers -> Task]
  /\ sweep \in [SessionId -> OrNone(Nat)]
  /\ onMap \subseteq Trucks
  /\ watch \in [Routes -> {"blank", "moving", "ended"}]
  /\ upsets \in Nat

-----------------------------------------------------------------------------
(* The queries of RouteSessionService                                      *)

Rows == 1..(nextId - 1)
Open(s) == s \in Rows /\ sessions[s].ended = NONE
OpenOf(d) == {s \in SessionId : Open(s) /\ sessions[s].driver = d}
Silent(s) == sessions[s].last + InactivityLimit < now

\* ORDER BY started_at DESC LIMIT 1: any of the newest when several tie.
Newest(S) == {s \in S : \A q \in S : sessions[q].started <= sessions[s].started}

\* Mutant: the lookup forgets `endedAt: IsNull()`.
FindOpenForDriver_AnyRow(d) ==
  LET rows == {s \in Rows : sessions[s].driver = d}
  IN  IF rows = {} THEN {NONE}
      ELSE {IF Silent(s) THEN NONE ELSE s : s \in Newest(rows)}

\* The possible answers: a session id, or NONE.
FindOpenForDriver(d) ==
  IF OpenOf(d) = {} THEN {NONE}
  ELSE {IF Silent(s) THEN NONE ELSE s : s \in Newest(OpenOf(d))}

FindByDriverId(d) ==
  LET owned == {t \in Trucks : driverOf[t] = d}
  IN  IF owned = {} THEN {NONE} ELSE owned

\* UPDATE route_sessions SET ended_at = ... WHERE id in S
EndAtNow(S) ==
  sessions' = [s \in SessionId |->
                 IF s \in S THEN [sessions[s] EXCEPT !.ended = now] ELSE sessions[s]]
\* Mutant: SET ended_at = started_at.
EndAtLastActivity_Started(S) ==
  sessions' = [s \in SessionId |->
                 IF s \in S THEN [sessions[s] EXCEPT !.ended = sessions[s].started]
                 ELSE sessions[s]]
EndAtLastActivity(S) ==
  sessions' = [s \in SessionId |->
                 IF s \in S THEN [sessions[s] EXCEPT !.ended = sessions[s].last]
                 ELSE sessions[s]]

\* Mutant: the whole entity is saved from a copy loaded while it was open.
Touch_Reopens(s) == sessions' = [sessions EXCEPT ![s].last = now, ![s].ended = NONE]
\* Mutant: the device's clock is taken, which may be behind.
Touch_DeviceClock(s) == sessions' = [sessions EXCEPT ![s].last = now - 1]
Touch(s) == sessions' = [sessions EXCEPT ![s].last = now]

Stop(d) == EndAtNow(OpenOf(d))
\* Mutant: the UPDATE's cutoff is one unit older than the lookup's.
CloseStaleForDriver_LateCutoff(d) ==
  EndAtLastActivity({s \in OpenOf(d) : sessions[s].last + InactivityLimit + 1 < now})
CloseStaleForDriver(d) == EndAtLastActivity({s \in OpenOf(d) : Silent(s)})

CreateSession(d, t, r) ==
  /\ nextId <= MaxSessions
  /\ sessions' = [sessions EXCEPT ![nextId] =
                    [driver |-> d, truck |-> t, route |-> r,
                     started |-> now, last |-> now, ended |-> NONE]]
  /\ nextId' = nextId + 1

-----------------------------------------------------------------------------
(* Handlers in flight, upsets, and what the screens show                   *)

InFlight(d) == {h \in Handlers : task[h].driver = d}
Free(h, d) == task[h].at = "idle" /\ Cardinality(InFlight(d)) < MaxInFlight

\* What handler h remembers across its next await.
Hold(h, rec) == task' = [task EXCEPT ![h] = rec]
Await(h, point) == Hold(h, [task[h] EXCEPT !.at = point])
Finish(h) == Hold(h, Idle)

Upset(kind) ==
  /\ kind \in Upsets
  /\ upsets < MaxUpsets
  /\ upsets' = upsets + 1

\* truck-position goes to the admin room and to the room of its route.
ShowTruck(t, r) ==
  /\ onMap' = onMap \cup {t}
  /\ watch' = [watch EXCEPT ![r] = "moving"]

\* truck-offline goes to the admin room only.
HideTruck(t) == onMap' = onMap \ {t}

\* truck-offline to the admin room and, if a route is known, route-ended to its room.
\* Mutant: only the admin room is told.
EndRoute_AdminOnly(t, r) == HideTruck(t) /\ watch' = [q \in Routes |-> watch[q]]
EndRoute(t, r) ==
  /\ HideTruck(t)
  /\ watch' = [q \in Routes |-> IF q = r THEN "ended" ELSE watch[q]]

-----------------------------------------------------------------------------
(* TrackingGateway: connecting, reconnecting, disconnecting                *)

Connect(h, k, d) ==
  /\ Free(h, d)
  /\ client[k].driver = NONE
  /\ client' = [client EXCEPT ![k] = [NoClient EXCEPT !.up = TRUE, !.driver = d]]
  /\ Hold(h, [Idle EXCEPT !.at = "verify", !.driver = d, !.socket = k])
  /\ UNCHANGED <<now, tables, catalog, sweep, screens, upsets>>

\* handleDisconnect: the admin map drops the truck, the session stays open.
Hangup(k) ==
  /\ client' = [client EXCEPT ![k].up = FALSE]
  /\ IF client[k].truck = NONE THEN UNCHANGED onMap ELSE HideTruck(client[k].truck)
  /\ UNCHANGED watch

Disconnect(k) ==
  /\ client[k].up
  /\ Hangup(k)
  /\ UNCHANGED <<now, tables, catalog, task, sweep, upsets>>

\* verifyActiveUser: the account table is not modelled, either answer may come.
VerifyActive(h) ==
  /\ task[h].at = "verify"
  /\ Await(h, "resumeFind")
  /\ UNCHANGED <<now, tables, catalog, client, sweep, screens, upsets>>

RejectInactive(h) ==
  /\ task[h].at = "verify"
  /\ IF client[task[h].socket].up THEN Hangup(task[h].socket)
     ELSE UNCHANGED <<client, screens>>
  /\ Finish(h)
  /\ UNCHANGED <<now, tables, catalog, sweep, upsets>>

ResumeFind(h) ==
  /\ task[h].at = "resumeFind"
  /\ \E s \in FindOpenForDriver(task[h].driver) :
       IF s = NONE THEN Finish(h)
       ELSE Hold(h, [task[h] EXCEPT !.at = "resumeTruck", !.session = s])
  /\ UNCHANGED <<now, tables, catalog, client, sweep, screens, upsets>>

ResumeTruck(h) ==
  /\ task[h].at = "resumeTruck"
  /\ \E t \in FindByDriverId(task[h].driver) :
       IF t = NONE THEN Finish(h)
       ELSE Hold(h, [task[h] EXCEPT !.at = "resumeSchedule", !.truck = t])
  /\ UNCHANGED <<now, tables, catalog, client, sweep, screens, upsets>>

\* client.data of the socket after a start or a resume.
SetContext(k, t, r, s) ==
  client' = [client EXCEPT ![k] = [@ EXCEPT !.truck = t, !.route = r, !.session = s]]

\* The route comes from today's schedule, the session from the earlier read.
ResumeSchedule(h) ==
  LET r == schedule[task[h].truck]
  IN  /\ task[h].at = "resumeSchedule"
      /\ IF r = NONE THEN UNCHANGED client
         ELSE SetContext(task[h].socket, task[h].truck, r, task[h].session)
      /\ Finish(h)
      /\ UNCHANGED <<now, tables, catalog, sweep, screens, upsets>>

-----------------------------------------------------------------------------
(* Starting a route: start-route on a socket, POST driver/start            *)

Startable(r) == r # NONE /\ routeState[r] = "ready"

\* The bound on rows is kept here, so that no start in flight is cut short by it.
RoomForASession ==
  Cardinality({h \in Handlers : task[h].at \in StartPoints}) + nextId <= MaxSessions

StartRequest(h, d, k) ==
  /\ Free(h, d)
  /\ RoomForASession
  /\ k # NONE => client[k].up /\ client[k].driver = d
  /\ Hold(h, [Idle EXCEPT !.at = "startTruck", !.driver = d, !.socket = k])
  /\ UNCHANGED <<now, tables, catalog, client, sweep, screens, upsets>>

StartTruck(h) ==
  /\ task[h].at = "startTruck"
  /\ \E t \in FindByDriverId(task[h].driver) :
       IF t = NONE THEN Finish(h)
       ELSE Hold(h, [task[h] EXCEPT !.at = "startSchedule", !.truck = t])
  /\ UNCHANGED <<now, tables, catalog, client, sweep, screens, upsets>>

StartSchedule(h) ==
  LET r == schedule[task[h].truck]
  IN  /\ task[h].at = "startSchedule"
      /\ IF ~Startable(r) THEN Finish(h)
         ELSE Hold(h, [task[h] EXCEPT !.at = "startFind", !.route = r])
      /\ UNCHANGED <<now, tables, catalog, client, sweep, screens, upsets>>

\* The answer to the driver; on a socket it also becomes the connection's context.
Started(h, s) ==
  /\ IF task[h].socket = NONE THEN UNCHANGED client
     ELSE SetContext(task[h].socket, task[h].truck, task[h].route, s)
  /\ Finish(h)

StartFind(h) ==
  /\ task[h].at = "startFind"
  /\ \E s \in FindOpenForDriver(task[h].driver) :
       IF s = NONE THEN Await(h, "startClose") /\ UNCHANGED client
       ELSE Started(h, s)
  /\ UNCHANGED <<now, tables, catalog, sweep, screens, upsets>>

StartClose(h) ==
  /\ task[h].at = "startClose"
  /\ CloseStaleForDriver(task[h].driver)
  /\ Await(h, "startInsert")
  /\ UNCHANGED <<now, nextId, lastFix, catalog, client, sweep, screens, upsets>>

StartInsert(h) ==
  /\ task[h].at = "startInsert"
  /\ routeState[task[h].route] # "removed"
  /\ CreateSession(task[h].driver, task[h].truck, task[h].route)
  /\ Started(h, nextId)
  /\ UNCHANGED <<now, lastFix, catalog, sweep, screens, upsets>>

\* The route was deleted meanwhile: the foreign key refuses the row.
StartRefused(h) ==
  /\ task[h].at = "startInsert"
  /\ routeState[task[h].route] = "removed"
  /\ Finish(h)
  /\ UNCHANGED <<now, tables, catalog, client, sweep, screens, upsets>>

-----------------------------------------------------------------------------
(* GPS fixes: gps-update on a socket, POST driver/position                 *)

\* The socket handler trusts the context the connection was given.
GpsUpdate(h, k) ==
  /\ client[k].up /\ client[k].truck # NONE /\ client[k].route # NONE
  /\ Free(h, client[k].driver)
  /\ Hold(h, [at |-> "activity", driver |-> client[k].driver, socket |-> k,
               session |-> client[k].session,
               truck |-> client[k].truck, route |-> client[k].route])
  /\ UNCHANGED <<now, tables, catalog, client, sweep, screens, upsets>>

\* The HTTP body carries the session id the app was given by some start.
PositionRequest(h, d, s) ==
  /\ Free(h, d)
  /\ s \in Rows
  /\ Hold(h, [Idle EXCEPT !.at = "positionFind", !.driver = d, !.session = s])
  /\ UNCHANGED <<now, tables, catalog, client, sweep, screens, upsets>>

\* Anything but the open session, complete, is answered ROUTE_SESSION_CLOSED.
\* Mutant: the id in the body is not compared with the open session's.
Accepted_AnyId(s, requested) ==
  s # NONE /\ sessions[s].truck # NONE /\ sessions[s].route # NONE
Accepted(s, requested) ==
  /\ s # NONE
  /\ s = requested
  /\ sessions[s].truck # NONE
  /\ sessions[s].route # NONE

PositionFind(h) ==
  /\ task[h].at = "positionFind"
  /\ \E s \in FindOpenForDriver(task[h].driver) :
       IF ~Accepted(s, task[h].session) THEN Finish(h)
       ELSE Hold(h, [task[h] EXCEPT !.at = "activity",
                                 !.truck = sessions[s].truck,
                                 !.route = sessions[s].route])
  /\ UNCHANGED <<now, tables, catalog, client, sweep, screens, upsets>>

RecordActivity(h) ==
  /\ task[h].at = "activity"
  /\ Touch(task[h].session)
  /\ Await(h, "store")
  /\ UNCHANGED <<now, nextId, lastFix, catalog, client, sweep, screens, upsets>>

\* processGpsUpdate up to the INSERT.  `inOpen`: its session was still open then.
StoreFix(h) ==
  /\ task[h].at = "store"
  /\ lastFix' = [session |-> task[h].session, driver |-> task[h].driver,
                 truck |-> task[h].truck, route |-> task[h].route,
                 socket |-> task[h].socket, inOpen |-> Open(task[h].session)]
  /\ Await(h, "emit")
  /\ UNCHANGED <<now, sessions, nextId, catalog, client, sweep, screens, upsets>>

EmitFix(h) ==
  /\ task[h].at = "emit"
  /\ ShowTruck(task[h].truck, task[h].route)
  /\ Finish(h)
  /\ UNCHANGED <<now, tables, catalog, client, sweep, upsets>>

\* A failing statement: the socket handler logs it and goes on, HTTP answers 500.
FixFault(h) ==
  /\ task[h].at \in {"activity", "store"}
  /\ Upset("fault")
  /\ IF task[h].socket = NONE THEN Finish(h)
     ELSE Await(h, IF task[h].at = "activity" THEN "store" ELSE "emit")
  /\ UNCHANGED <<now, tables, catalog, client, sweep, screens>>

-----------------------------------------------------------------------------
(* Stopping: stop-route on a socket, POST driver/stop                      *)

HttpStop(h, d) ==
  /\ Free(h, d)
  /\ Hold(h, [Idle EXCEPT !.at = "stopFind", !.driver = d])
  /\ UNCHANGED <<now, tables, catalog, client, sweep, screens, upsets>>

StopFind(h) ==
  /\ task[h].at = "stopFind"
  /\ \E s \in FindOpenForDriver(task[h].driver) :
       IF s = NONE THEN Await(h, "stopUpdate")
       ELSE Hold(h, [task[h] EXCEPT !.at = "stopUpdate", !.session = s,
                                 !.truck = sessions[s].truck,
                                 !.route = sessions[s].route])
  /\ UNCHANGED <<now, tables, catalog, client, sweep, screens, upsets>>

StopUpdate(h) ==
  /\ task[h].at = "stopUpdate"
  /\ Stop(task[h].driver)
  /\ IF task[h].truck = NONE THEN UNCHANGED screens
     ELSE EndRoute(task[h].truck, task[h].route)
  /\ Finish(h)
  /\ UNCHANGED <<now, nextId, lastFix, catalog, client, sweep, upsets>>

\* stop-route tells the screens first, from the connection's context.
SocketStop(h, k) ==
  /\ client[k].up
  /\ Free(h, client[k].driver)
  /\ IF client[k].truck = NONE THEN UNCHANGED screens
     ELSE EndRoute(client[k].truck, client[k].route)
  /\ Hold(h, [Idle EXCEPT !.at = "socketStop", !.driver = client[k].driver, !.socket = k])
  /\ UNCHANGED <<now, tables, catalog, client, sweep, upsets>>

SocketStopUpdate(h) ==
  /\ task[h].at = "socketStop"
  /\ Stop(task[h].driver)
  /\ SetContext(task[h].socket, NONE, NONE, NONE)
  /\ Finish(h)
  /\ UNCHANGED <<now, nextId, lastFix, catalog, sweep, screens, upsets>>

\* The UPDATE fails: HTTP answers 500; the socket logs it and forgets the context.
StopFault(h) ==
  /\ task[h].at \in {"stopUpdate", "socketStop"}
  /\ Upset("fault")
  /\ IF task[h].at = "socketStop" THEN SetContext(task[h].socket, NONE, NONE, NONE)
     ELSE UNCHANGED client
  /\ Finish(h)
  /\ UNCHANGED <<now, tables, catalog, sweep, screens>>

-----------------------------------------------------------------------------
(* The sweep                                                               *)

\* Mutant: a session is only swept once its driver has been heard of after the start.
Abandoned_Moved ==
  {s \in SessionId : Open(s) /\ Silent(s) /\ sessions[s].last # sessions[s].started}
Abandoned == {s \in SessionId : Open(s) /\ Silent(s)}

SweepFind ==
  /\ sweep = NoSweep
  /\ Abandoned # {}
  /\ sweep' = [s \in SessionId |-> IF s \in Abandoned THEN sessions[s].last ELSE NONE]
  /\ UNCHANGED <<now, tables, catalog, client, task, screens, upsets>>

\* save(stale) reloads each row and writes the columns that differ from the copy:
\* ended_at always, last_activity_at when the row changed before the reload.
SweepSave ==
  /\ sweep # NoSweep
  /\ \E changed \in SUBSET {s \in SessionId : sweep[s] # NONE /\ sweep[s] # sessions[s].last} :
       sessions' = [s \in SessionId |->
         IF sweep[s] = NONE THEN sessions[s]
         ELSE [sessions[s] EXCEPT !.ended = sweep[s],
                                  !.last = IF s \in changed THEN sweep[s] ELSE @]]
  /\ sweep' = NoSweep
  /\ UNCHANGED <<now, nextId, lastFix, catalog, client, task, screens, upsets>>

-----------------------------------------------------------------------------
(* The world around: the clock, administrators, a restart of the server    *)

Tick ==
  /\ now < MaxTime
  /\ Timely => sweep = NoSweep /\ \A h \in Handlers : task[h].at = "idle"
  /\ now' = now + 1
  /\ UNCHANGED <<tables, catalog, client, task, sweep, screens, upsets>>

AssignTruck(t, d) ==
  /\ Upset("edit")
  /\ driverOf' = [driverOf EXCEPT ![t] = d]
  /\ UNCHANGED <<now, tables, schedule, routeState, client, task, sweep, screens>>

\* An edited schedule, or midnight.
Reschedule(t, r) ==
  /\ Upset("edit")
  /\ r # NONE => routeState[r] # "removed"
  /\ schedule' = [schedule EXCEPT ![t] = r]
  /\ UNCHANGED <<now, tables, driverOf, routeState, client, task, sweep, screens>>

\* A route is deactivated or emptied of segments, or made ready again.
ToggleRoute(r) ==
  /\ Upset("edit")
  /\ routeState[r] # "removed"
  /\ routeState' = [routeState EXCEPT ![r] = IF @ = "ready" THEN "unready" ELSE "ready"]
  /\ UNCHANGED <<now, tables, driverOf, schedule, client, task, sweep, screens>>

\* Deleting a route cascades to its schedules and nulls route_id of its sessions.
RemoveRoute(r) ==
  /\ Upset("edit")
  /\ routeState[r] # "removed"
  /\ routeState' = [routeState EXCEPT ![r] = "removed"]
  /\ schedule' = [t \in Trucks |-> IF schedule[t] = r THEN NONE ELSE schedule[t]]
  /\ sessions' = [s \in SessionId |->
       IF sessions[s].route = r THEN [sessions[s] EXCEPT !.route = NONE] ELSE sessions[s]]
  /\ UNCHANGED <<now, nextId, lastFix, driverOf, client, task, sweep, screens>>

\* The process dies: handlers, sockets and a sweep under way are gone, rows stay.
Restart ==
  /\ Upset("restart")
  /\ task' = [h \in Handlers |-> Idle]
  /\ client' = [k \in Sockets |-> [client[k] EXCEPT !.up = FALSE]]
  /\ sweep' = NoSweep
  /\ UNCHANGED <<now, tables, catalog, screens>>

-----------------------------------------------------------------------------
(* The specification                                                       *)

Init ==
  /\ now = 0
  /\ sessions = [s \in SessionId |-> NoSession]
  /\ nextId = 1
  /\ lastFix = NONE
  /\ driverOf \in [Trucks -> OrNone(Drivers)]
  /\ schedule \in [Trucks -> Routes]
  /\ routeState = [r \in Routes |-> "ready"]
  /\ client = [k \in Sockets |-> NoClient]
  /\ task = [h \in Handlers |-> Idle]
  /\ sweep = NoSweep
  /\ onMap = {}
  /\ watch = [r \in Routes |-> "blank"]
  /\ upsets = 0

Request(h) ==
  \/ \E k \in Sockets, d \in Drivers : Connect(h, k, d)
  \/ \E k \in OrNone(Sockets), d \in Drivers : StartRequest(h, d, k)
  \/ \E k \in Sockets : GpsUpdate(h, k)
  \/ \E d \in Drivers, s \in SessionId : PositionRequest(h, d, s)
  \/ \E d \in Drivers : HttpStop(h, d)
  \/ \E k \in Sockets : SocketStop(h, k)

Proceed(h) ==
  \/ VerifyActive(h) \/ RejectInactive(h)
  \/ ResumeFind(h) \/ ResumeTruck(h) \/ ResumeSchedule(h)
  \/ StartTruck(h) \/ StartSchedule(h) \/ StartFind(h)
  \/ StartClose(h) \/ StartInsert(h) \/ StartRefused(h)
  \/ PositionFind(h) \/ RecordActivity(h) \/ StoreFix(h) \/ EmitFix(h)
  \/ StopFind(h) \/ StopUpdate(h) \/ SocketStopUpdate(h)

Fault(h) == FixFault(h) \/ StopFault(h)

Edit ==
  \/ \E t \in Trucks, d \in OrNone(Drivers) : AssignTruck(t, d)
  \/ \E t \in Trucks, r \in OrNone(Routes) : Reschedule(t, r)
  \/ \E r \in Routes : ToggleRoute(r) \/ RemoveRoute(r)

Next ==
  \/ \E h \in Handlers : Request(h) \/ Proceed(h) \/ Fault(h)
  \/ \E k \in Sockets : Disconnect(k)
  \/ SweepFind \/ SweepSave
  \/ Tick \/ Edit \/ Restart

Spec == Init /\ [][Next]_vars

(* The interval timer keeps calling the sweep, which finishes when the      *)
(* database answers, and the clock keeps moving.  Nothing is assumed of the *)
(* drivers, nor of the handlers in flight.                                  *)
Fairness ==
  /\ WF_vars(SweepFind)
  /\ WF_vars(SweepSave)
  /\ WF_vars(Tick)

FairSpec == Spec /\ Fairness

-----------------------------------------------------------------------------
(* Properties                                                              *)

(* The sessions of a driver are disjoint intervals, in the order of their  *)
(* ids: the previous one has ended when the next one starts.  getSummaries *)
(* adds their durations, and startOrResume is written to make it so; it    *)
(* takes a start, a sweep and a stale row to get it wrong.                 *)
NoOverlap ==
  \A s, q \in Rows :
    s < q /\ sessions[s].driver = sessions[q].driver =>
      /\ sessions[s].ended # NONE
      /\ sessions[s].ended <= sessions[q].started

(* A driver never has two open sessions (findOpenForDriver speaks of "the  *)
(* driver's open session", stop of "the driver's open session").           *)
AtMostOneOpen == \A d \in Drivers : Cardinality(OpenOf(d)) <= 1

(* What the interval of a session says is possible: it starts, it is       *)
(* active, it ends, and none of it lies in the future.  The writers are a  *)
(* ping, a stop, a new start and a sweep that works on old copies.         *)
TimesOrdered ==
  \A s \in Rows :
    /\ sessions[s].started <= sessions[s].last /\ sessions[s].last <= now
    /\ sessions[s].ended # NONE =>
         sessions[s].started <= sessions[s].ended /\ sessions[s].ended <= now

(* A session that has ended is never reopened and never grows: the archive *)
(* and the driving totals are computed from ended sessions, while pings    *)
(* and sweeps that loaded the row earlier may still write to it.           *)
ClosedIsFinal ==
  [][\A s \in SessionId :
       sessions[s].ended # NONE =>
         sessions'[s].ended # NONE /\ sessions'[s].ended <= sessions[s].ended]_vars

(* Whoever sends a fix, over whichever channel and however requests        *)
(* interleave, it is filed under a session of that same driver; over HTTP  *)
(* it also carries the truck and the route of the session, unless the      *)
(* route has been deleted since.                                           *)
FixOwner ==
  lastFix # NONE =>
    LET filed == sessions[lastFix.session]
    IN  /\ filed.driver = lastFix.driver
        /\ lastFix.socket = NONE =>
             filed.truck = lastFix.truck /\ filed.route \in {lastFix.route, NONE}

(* A fix sent over HTTP is never filed under a session that had already    *)
(* ended (recordDriverPosition answers ROUTE_SESSION_CLOSED instead).      *)
HttpFixInOpenSession == lastFix # NONE /\ lastFix.socket = NONE => lastFix.inOpen

(* No session is ended before the last activity recorded in it:            *)
(* sweepInactive "closes open sessions that have gone silent, ending them  *)
(* at last activity", closeStaleForDriver does the same, stop ends it now. *)
ClosesAtLastActivity ==
  [][\A s \in Rows :
       Open(s) /\ sessions'[s].ended # NONE => sessions[s].last <= sessions'[s].ended]_vars

(* The route context of a connection is that of its session.               *)
ContextMatchesSession ==
  \A k \in Sockets :
    client[k].session # NONE =>
      /\ client[k].truck = sessions[client[k].session].truck
      /\ client[k].route = sessions[client[k].session].route

(* The residents watching a route that shows a moving truck are told, by   *)
(* the time a stop has ended the session behind it, that the run is over   *)
(* (emitTruckOffline: "otherwise their map keeps showing a truck frozen    *)
(* wherever it stopped reporting").                                        *)
StopEnds(h, s) ==
  /\ task[h].at \in {"stopUpdate", "socketStop"}
  /\ task[h].driver = sessions[s].driver
  /\ Open(s) /\ sessions'[s].ended # NONE

StopTellsResidents ==
  [][\A s \in Rows, h \in Handlers :
       StopEnds(h, s) /\ sessions[s].route # NONE => watch'[sessions[s].route] # "moving"]_vars

(* The same for a session that was still fresh, which is what the handler  *)
(* of POST driver/stop looks up before it stops.                           *)
FreshStopTellsResidents ==
  [][\A s \in Rows, h \in Handlers :
       StopEnds(h, s) /\ sessions[s].route # NONE /\ ~Silent(s)
         => watch'[sessions[s].route] # "moving"]_vars

(* A session nobody feeds any more does not stay open for ever: within the *)
(* clock the model has, it is closed or its driver is heard of again.      *)
InReach(s) == sessions[s].last + InactivityLimit < MaxTime

AbandonedIsClosed ==
  \A s \in SessionId : Open(s) /\ InReach(s) ~> ~Open(s) \/ ~InReach(s)

(* The table implements the abstract account of a driver's runs.           *)
DriversRuns == INSTANCE DriverRuns WITH
  Id <- SessionId, Moments <- 0..MaxTime,
  runs <- [s \in SessionId |-> [driver |-> sessions[s].driver,
                                from |-> sessions[s].started,
                                to |-> sessions[s].ended]]

ImplementsDriverRuns == DriversRuns!Spec
=============================================================================
