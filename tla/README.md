# A verification of garbagetrack-server

The server tracks the garbage trucks of several municipalities: a driver's phone
reports positions, residents watch the truck of their street and are told when it is
coming, administrators plan routes and look at what was driven. It is a NestJS
application, one Node process (or several behind one database), over PostgreSQL.

This directory holds TLA+ models of the parts where its correctness is hard to see from
the code or to test: what several requests, timers and processes make of the same rows.
Source paths below are relative to `src/src/modules/` unless they say otherwise.

## 1. The system

| Part | State | Operations | Who it works with |
|---|---|---|---|
| Driving sessions (`tracking/services/route-session.service.ts`) | `route_sessions` | start or resume, record activity, stop, close stale, sweep (timer) | called by the gateway and the HTTP API; rows are read by the archive |
| Tracking gateway (`tracking/gateways/tracking.gateway.ts`) | `client.data` of each socket, rooms | connect and resume, start-route, gps-update, stop-route, disconnect | sessions, fix intake, the screens of administrators and residents |
| Driver HTTP API (`tracking/controllers/tracking.controller.ts`) | none | driver/start, driver/position, driver/stop | the same services, and the gateway's broadcasts |
| Fix intake (`tracking/services/tracking.service.ts`) | `truck_positions` | processGpsUpdate: store, project on the route, broadcast, check proximity | proximity engine, archive |
| Route archive (`route-history/services/route-track-archiver.service.ts`, `...-builder...`) | `route_tracks`, and deletes from `truck_positions` | archivePending, archiveOne, deleteOrphanFixes (timer, in every process) | reads the tables the trackers write |
| Route history readers (`route-history/services/route-history.service.ts`) | none | listByDate, getDetail, getLive | read both sides of the archive |
| Proximity and notifications (`proximity/services/proximity.service.ts`, `notifications/services/notifications.service.ts`) | `notification_logs` | stage decision, one alert per stage and day, delivery | fix intake, push, residents |
| Push subscriptions (`push/services/`) | `push_subscriptions` | subscribe, prune dead ones, send | notifications, residents |
| Residents (`residents/services/`) | `residents` | register, issue the owner token, unregister, anchor to a route, re-anchor when a route changes | routes, push |
| Resident live view (`tracking/services/resident-live.service.ts`) | the token of a resident's socket | exchange the owner token for a first picture and a token, join the room of the resident's route | sessions, fixes, gateway |
| Routes and segments | `routes`, `route_segments` | edit segments, rebuild the centerline, activate, remove | sessions (cascade), residents |
| Accounts, authentication, tenants (`admins/`, `drivers/`, `auth/`, `tenants/`, `../common/`) | `admins`, `drivers`, `tenants`, the tokens handed out | create, change, remove; log in; check every request, act for another tenant | every request passes them |
| Trucks and weekly schedules (`trucks/`, `schedules/`) | `trucks`, `weekly_schedules` | create, change, remove; assign a route to a truck on a day | tracking reads them, drivers and routes cascade into them |
| Assistant (`assistant/`) | `ai_conversations`, `ai_messages` | a turn: store the question, stream the answer, store what came; delete a conversation | a language model |
| Configuration, dashboard, shell, scripts | `system_config`; none | edit; read-only SQL; wiring | - |

What makes it hard:

* **Interleaving at awaits.** A handler is interrupted at every `await`. Two channels
  (socket and HTTP) serve the same driver, and timers work on the same rows. Nothing
  takes a lock, and few statements run in a transaction.
* **Check, then act.** Open session, notification of the day, username, last
  administrator, schedule clash: looked up, awaited, then written.
* **Copies that grow old.** `client.data` of a socket, the rows a sweep has loaded, the
  fixes an archiver has loaded.
* **Failure in the middle.** A statement that fails after the screens were told, a
  process that dies between two statements, a run whose archiving always fails.
* **Several processes.** Each has its own timers; only the unique key of `route_tracks`
  keeps two archivers apart.
* **Late data.** Phones queue fixes and send them later, to a session that may have ended.

The properties that make the parts correct: a driver's sessions are disjoint intervals
that end at their last activity and never reopen; a fix is filed under its sender's
session; abandoned sessions end; residents are not shown a frozen truck; archiving loses
nothing, shows the same before and after, and is not held up by one bad run; a listing
shows a run once; an alert goes out once a day and stage, to everybody who is due one and
has a device; who registered is reachable, and who is alerted can stop it; a resident is
anchored to the nearest route within reach, or to the one chosen by hand, as it is drawn
now; the path that is shown of a run accounts for every fix, and its measures agree with it;
a resident who opens the map sees a truck that is driving; a route has one truck a day;
a municipality keeps an administrator, a name means one account, access that was revoked
stays revoked and nobody changes what is not theirs; what an administrator saw of the
assistant's answer is kept, and the model is asked with a history it can use. `PROJECT.json` lists every hazard at its line, with the properties that cover it or
the reason none does yet.

## 2. The modules

| Module | Models | Kind |
|---|---|---|
| `RouteSession` | sessions, gateway, driver HTTP API, sweep | detailed, one action per await |
| `DriverRuns` | what `route_sessions` promises of a driver's runs | abstract |
| `RouteArchive` | archiver, its tables' writers, listing | detailed, one action per SQL statement |
| `RunHistory` | what the route history promises its readers | abstract |
| `ResidentAlerts` | registration, proximity engine, notifications, push | detailed, one action per await |
| `Assignment` | routes, their segments and centerlines, the anchors of residents | detailed, one action per await |
| `TrackMetrics` | cleaning, distance, stretches off the route and coverage of a track | functions |
| `RouteHistory` | one run as its readers see it, before and after it is archived | detailed, one action per SQL statement; extends `TrackMetrics` |
| `LiveView` | the residents' live view | detailed for the exchange, one action per call for the drivers |
| `Accounts` | municipalities, accounts, logins, and what a request may do | detailed, one action per await |
| `Fleet` | trucks and weekly schedules | detailed, one action per await |
| `Assistant` | the turns of the assistant | detailed, one action per await |
| `HistoryProofs`, `RouteSessionProofs`, `RouteArchiveProofs`, `ResidentAlertsProofs`, `AssignmentProofs`, `FleetProofs`, `AccountsProofs`, `AssistantProofs` | theorems | TLAPS |
| `MC` and the name of a detailed module | values for TLC | |

The modules do not share variables: each models the tables it is about whole, and of the
others what it reads. A route of `RouteSession` is active or not and drawn or not; a
resident of `ResidentAlerts` has a fixed place on it; how it came by that place is
`Assignment`. The token of a request is looked at in `Accounts`, and the rows `RouteSession`
reads of trucks and schedules are written in `Fleet`.

Operators whose name has a suffix after an underscore (`Touch_DeviceClock`,
`Orphans_Yesterdays`) and whose comment begins with "Mutant" are not used by the
specifications. Each is a plausible mistake in the code, and for each property of a
passing run one of them is known to make TLC find that property violated.

### RouteSession

`sessions` is the table, `client` the `client.data` of each socket, `task` the handlers
in flight: a handler is a slot with the point at which it awaits (`at`) and the values it
has read. Node runs a handler without interruption from one `await` to the next, so an
action is that stretch: for example `StartFind` is the answer of `findOpenForDriver`
(`route-session.service.ts:64`), `StartClose` the UPDATE of `closeStaleForDriver`,
`StartInsert` the INSERT followed by what the caller does synchronously, for a socket
`client.data` and the broadcasts. `SweepFind` and `SweepSave` are the two statements of
`sweepInactive`. `onMap` and `watch` are what the admin map and a resident of a route
see. `schedule`, `driverOf` and `routeState` are the rows others edit (`Edit`), read at the
statement that reads them. `Upsets` names what may go wrong in a run: an `edit` by an
administrator, a `fault` (a statement that fails), a `restart` of the process.

Time is a counter; the inactivity limit is one or more units. A statement and the
reading of the clock that goes with it are one step: they are milliseconds apart, and
the limit is half an hour. `Timely` adds the assumption that handlers and sweeps finish
within one unit; it is set only where a run says so.

Simplifications: one tenant; one sweep at a time (a sweep slower than its 60 s interval
would overlap the next); residents' sockets are in `LiveView`;
drivers and trucks are not deleted here (RouteArchive deletes drivers); a `save()` that
re-inserts a row deleted meanwhile is not modelled; `verifyActiveUser` may answer either
way; the proximity check inside `processGpsUpdate` changes none of this state.

### RouteArchive

`positions`, `sessions` and `tracks` are the tables; `pass[i]` is what the archiver of
process `i` is doing: the rest of its batch, the run it works on, the row and the fixes it
has loaded, whether its INSERT inserted. One action is one SQL statement, at READ
COMMITTED: `FindPending` (the batch query), `LoadSession`, `LoadPoints`, `InsertTrack`
(`ON CONFLICT DO NOTHING`, which waits for a transaction holding the same key),
`DeleteAndCommit`, `DeleteOrphanFixes`. `ArchiveFails` is the catch block of the loop,
`PassEnds` a crash or a failure outside it. `StartRun`, `EndRun`, `StoreFix` and
`RemoveDriver` are the writers of the live tables: a run may be of any truck and end at
any moment since its start, as the sweep may end it, and a fix may be as old as
`toRecordedAt` accepts. `filed` is history: under which run every fix was sent.
`ListArchived` and `ListLive` are the two queries of `listByDate`.

Simplifications: a track is the set of the fixes it was made from (`TrackMetrics` has
cleaning and measures); DELETE and COMMIT are one step, since nothing of a transaction shows
before; fixes from before the column existed (`Legacy`) are there only initially; a fix up
to a minute in the future, the correction of an end by an overlapping sweep, and the deletion
of a truck (which deletes its fixes) are left out; one listing at a time.

### ResidentAlerts

`residents`, `subs` and `log` are the tables; `subs` has one row per browser, since a row
is found by its endpoint. `request[h]` is a registration or unregistration in flight,
`evaluation[e]` a fix in the proximity engine: where it awaits, the candidates it has still
to alert with the stage each is due (`todo`), and for the one it is alerting the day, the
subscriptions and what came of the pushes. `holds` is the browser's side: the resident it
was told it is, whose owner token it keeps. `gone` are the endpoints the push service
answers 404 or 410 for. One action is one statement or push:
`Register` (the INSERT), `IssueToken`, `FindSubscription`, `SaveSubscription`; `Deactivate`,
`Silence`; `FindCandidates` (the range query, with the decision that follows it for every
candidate), `FindLog`, `FindSubscriptions`, `Push`, `Prune`, `SaveLog`. `Motion`,
`Candidate` and `Stage` are the arithmetic of `measureMotion` and `evaluate`, with the
division by the pace multiplied out. `RequestFault` and `AlertFault` are failing
statements: the first answers an error, the second is caught in `processGpsUpdate` and ends
the loop. `alerts` is history: how often an alert was pushed.

Simplifications: one tenant and one route; the configuration and the centerline do not
change; a fix comes with any previous fix, and one off the route is none; residents are
neither deleted nor moved (`Assignment` does both); push is configured (without keys every
send is "skipped"); the answer of a finished request reaches the browser; the pushes of one
alert are one step, as nothing between them is read; a resident never has two
subscriptions, since registering always inserts a resident. `Patient` adds the assumption
that a browser awaits the answer to its last request.

### Assignment

`routes` and `segments` are the tables, `residents` the columns of a resident that say
where it lives and where it hands the bag over. `request[h]` is a request in flight: where
it awaits and what it has loaded. Reading a row and starting on it is one action
(`UpdateRoute`, `AddSegment`, `UpdateSegment`, `RemoveSegment`, `ReplaceSegments` for
`RoutesService`; `Register`, `Edit`, `Locate`, `Assign`, `Unassign` for `ResidentsService`), and
each statement after it another: `WriteSegments` (the transaction of a redraw, or the one
statement of a single edit), `RebuildCenterline`, `Reassign` (the UPDATE of
`reassignByRoute`, with its sub-select); `FindCollectionPoint` or `PointOnRoute`, `NameStreet`,
`SaveResident`. `Locate` is both a moved pin and "Recalcular asignación", which differ in
whether the home changes. `Edit` is a change of the name or a deactivation: the same row is
saved.

The map is a line: a street is a place on it and a home another, and walking takes their
distance. That keeps what the code decides by (the nearest, within the limit or not, ties
either way, as `ORDER BY ... LIMIT 1` leaves them open) and leaves PostGIS out. How far along
a centerline a point is, is the set of the streets before it, with their places: two
drawings have the same offset only if they agree up to there.

`save()` of an entity writes it whole, as it was loaded and changed, and inserts it where
the row is gone (TypeORM compares with the row of the moment and writes what differs); so a
save may bring a removed resident or an old centerline back. `Exclusive` adds the
assumption that no two requests at a time are about one route or about one resident.

`POST routes/:id/segments` always fails: `CreateSegmentInput` carries one `latitude` and
`longitude`, while the table wants a start and an end and the validation pipe lets no other
field pass; `Refused` says so. The check of the segment index before it therefore guards
nothing yet.

Simplifications: one tenant; the limit does not change; names, colours and whether a
resident is active are left out; consecutive streets join up, so the nearest point of a
centerline is on its nearest street; a redraw is at most `MaxSegments` long; reading a row
and the event that a request starts are one step.

### TrackMetrics and RouteHistory

`TrackMetrics` has `track-metrics.util.ts` and the two helpers of the builder as functions on
sequences: a loop of the code is a fold, its body an operator (`Keep`, `Measure`, `Cover`); the
sort is stable, as JavaScript's is. The
truck moves on a line, so that a place is one number and the distance of two places their
difference; speeds, gaps, buckets and the rounding of times are the code's. What is not
here of the arithmetic: rounding of coordinates, distances and percentages.

`RouteHistory` feeds them: `positions` are the fixes of one run as they were inserted,
`session` and `length` its row and the length of its route's centerline, `track` its row
in the archive, `reader` one request. `StoreFix`, `EndRun` and `Redraw` are the writers;
`Archive` is the archiver's transaction; `FindArchived`, `FindSession`, `LoadPoints` and
`LoadRoutePath` are the statements of `getDetail`, `getLive` and of a row of `listByDate`. The properties
compare with definitions of another shape: where the code walks
along the points once, `PathIsSound` and `MetricsAreSound` quantify over them.

Simplifications: one reader and one run at a time; `Undisturbed` adds the assumption that
nothing is archived between two statements of the reader; the present is left out, so how
long an open run has been going is not shown; the drawn line is as long as there are
points for (`HasPath`), its simplification PostGIS's.

### LiveView

`request` is one resident's `POST public/residents/live` in progress; its steps are the awaits of
`createSession`: tenant, owner token, resident, route, open session of the route
(`FindSession`), latest positions (`GetLatestPositions`), and the answer after the
configured speed was read. `page` is what the resident's page has been told: the answer, and
every position or end that came through the route's room since (`Emit`). `rooms` is the
membership; a token is asked for its validity when the socket connects and not again.
Trucks are numbers because `getLatestPositions` lists them by id and the picture takes the
first that fits. Drivers start, feed and stop their runs over HTTP in one step each, the sweep
is one step; administrators move the route to another truck, change residents, suspend the tenant.

Simplifications: a driver stays with a truck; routes are not removed; a fix is the time it
was taken; one request at a time (requests share no state).

### Accounts

`accounts` are the rows of `admins` and `drivers`, told apart by their role; `tenants` the
municipalities by slug; `tokens` the JWTs handed out, which never expire here. `request[h]` is a
request in flight: the token it came with (`by`), the tenant it runs in, the row and the copy it
has loaded. `Call` is what every controller has in front: the account and its tenant are
still active (`VerifyActiveUser`), the role is permitted (`Permits`), and the tenant of the
request is the token's own or, for the operator, one that is active (`Contexts`). Creation
is `CheckUsername` and `InsertAccount`; a change is `Load`, where an administrator is to lose
access `AssertNotLastActiveAdmin`, and `Save` or `Delete`; a municipality's is `FindTenant` and
`StoreTenant`; a login is `FindSlug`, `ValidateAdmin`, `ValidateDriver` and `Sign`. `Fail` is a failing
statement or a restart. `Init` is the seed.

Simplifications: names and passwords are left out, a login may have the wrong one; one
sequence of ids for both tables; the lookups of the guards are one step with the call;
`Exclusive` adds the assumption that one account at a time is created, and one change at a time is
made in a tenant.

### Fleet

`trucks` and `schedules` are the tables; `drivers` and `routes` only whether a row is there and
in service. `request[h]` is a request about a truck (`LoadTruck`, `ResolveDriver`, `SaveTruck`) or
about an assignment (`FindTruck`, `FindRoute`, `FindOneOrFail`, `FindClashes`, `StoreSchedule`). The database's
part is in the writing steps: `Storable` is the unique key of truck and day and the foreign
keys; `RemoveTruck`, `RemoveDriver` and `RemoveRoute` cascade or set NULL. `save()` inserts a row
that is gone, so an assignment removed while it is being moved comes back.

Simplifications: names and licence plates are left out; `Exclusive` adds the assumption that
one assignment at a time is made or moved.

### Assistant

`conversations` and `messages` are the tables; `turn[h]` is a turn: the question it has
stored, the history it has read, how much text the model has yielded (`text`) and how much of
it the browser was sent (`shown`), and whether the browser has gone. `ResolveConversation`,
`SaveQuestion`, `LoadHistory`, `SaveAnswer` and `Touch` are its statements, `Delta` and `StreamEnds` what the
stream yields, `CloseStream` the browser's leaving, after which the controller ends the
generator and its `finally` stores what there is. `DeleteConversation` and `RemoveAdmin` cascade. As `save()`
inserts a row that is gone, `Touch` may bring a conversation back that was deleted after its answer was stored.

Simplifications: the text is a number of pieces; titles, token counts, the tools and the
prompt are left out.

### The abstract specifications

`DriverRuns` says: a driver begins a run only when the previous one has ended; a run ends
between its beginning and the present; a written end is only corrected to an earlier
moment. `RouteSession` implements it (`ImplementsDriverRuns`) as long as the requests of
one driver are handled one at a time.

`RunHistory` says: a run collects fixes, is archived once, archiving changes nothing of
what is shown, and afterwards nothing is added or lost. `RouteArchive` implements it
(`ImplementsRunHistory`) with what a reader would find for a run, in either table, as
`shown`.

## 3. The runs

| Run | Asks | Bounds |
|---|---|---|
| `serial` | types; runs of a driver are disjoint (`NoOverlap`); `RouteSession` implements `DriverRuns`; `AbandonedIsClosed`; possible intervals (`TimesOrdered`), closed stays closed (`ClosedIsFinal`) | one driver, truck, route and socket; requests one at a time; 2 sessions, 4 moments, limit 1; one edit, failed statement or restart |
| `two_drivers` | `FixOwner`, `HttpFixInOpenSession`, `ClosesAtLastActivity`, `FreshStopTellsResidents`: fixes are filed under their sender's open session, ends are at the last activity, a stop of a fresh session reaches the residents | two drivers and trucks over HTTP, handlers finish within a unit |
| `archive` | `ClaimedFixesAreKept`, `ImplementsRunHistory` | two processes, two runs of two drivers on one truck, a filed and a legacy fix, days of two units, one fault or crash |
| `archive_liveness` | `ListedOnce`, `EveryRunIsArchived`, `OldFixesLeave` | one process, batches of one, one run that cannot be archived, any one upset |
| `alerts` | `OncePerDay`, `RegisteredIsReachable`, `WhoIsAlertedCanLeave`, `NearerIsMoreUrgent`, `FreshFixMissesNobody`, `DueIsLogged` | one browser that registers up to twice, two fixes one after the other from five places, two ages and two gaps, two days, one failure or restart |
| `assignment` | `CenterlineIsCurrent`, `WithinReach`, `RedrawServes`, `LockedIsKept` | two routes of up to two segments at three places, one resident with two possible homes, two requests at a time, three edits or faults |
| `history` | `PathIsComplete`, `MeasuresAreTrue` | four of seven fixes in any order, two lengths of the centerline or none, 20 m buckets |
| `accounts` | `UsernamesAreUnique`, `LastAdminStays`, `RevokedStaysRevoked`, `OnlyByStaff` | the platform and a municipality, three accounts, three usernames, two requests at a time, two changes, two tokens |
| `fleet` | `RouteHasOneTruck`, `NothingOverwritten` | two trucks, routes, days and assignments, one driver, two requests at a time, two changes beside them |
| `assistant` | `SeenSurvives`, `HistoryIsUsable` | two administrators, two conversations, four messages, two turns at a time, answers of two pieces, a history of two, one fault |

Why these bounds are enough to meet the interesting cases: a session and its successor
are what overlap, reopening and misfiling are about, so two rows; the limit must be
passed while a row is open, once before and once after a sweep or a start, so three or
four moments with a limit of one; a race needs two handlers, or a handler and the sweep. For the
archive two runs on one truck make the time windows meet, a day of two units makes "before
midnight" differ from "before now", batches of one make every batch full, and a second
process makes every statement race. For the alerts the five places are before, at and
behind the home, close enough to be judged by distance and far enough to be judged by time;
the gaps lie on both sides of the motion window, the pace on both sides of the measurable;
the second registration takes over the endpoint's row, and the second fix and day are what
a repetition needs. For the assignment, of the three streets one is within reach of one
home only, one of the other only, one of both, and one home is as far from a street as the
limit; two routes make a nearer one possible; a drawing, a redrawing and a third
edit are what stale copies, locks and re-anchoring need, and two requests make them
overlap. For the history the seven fixes are on the route, off it, out of reach and
without a centerline, half a second, ten seconds and more than the gap apart, at both sides of the
threshold; four of them make a stretch, its interruption and its resumption. For the
accounts three rows are the operator and two others, in one tenant or in two, and two
changes are a revocation and what might undo it. For the fleet two of everything make every
clash possible, of the truck and of the route, on the same day and not. For the assistant two
turns of two messages each fill a history of two twice. `NearerIsMoreUrgent` and `FreshFixMissesNobody` compare what
every fix the constants allow means for the residents there are. The proofs below then cover every size for the
properties named there.

The passing runs of `RouteSession` let each driver await one answer before the next request,
against the sweep at any moment, because two starts at once may both insert;
`TimesOrdered`, `ClosedIsFinal` and `FixOwner` do not depend on that and are proved below for
any number of handlers at once.

`CHECK_DEADLOCK FALSE` is in the configurations because the clock and the rows are
bounded, so the models stop where the system would not.

Two runs find what the code does against its own words; each checks one property, and
`PROJECT.json` quotes the line.

| Run | What happens |
|---|---|
| `redraw_stale` | A redraw keeps the number of the segment a resident is on and changes the street before it. `reassignByRoute` sees nothing distinct and writes nothing: the distance along the route stays the old one, where the code says everybody is re-anchored. |
| `live_other_truck` | A route goes to another truck during the day. Whoever opens the live view is told that a run is active and shown the truck that has finished, if its id is the lower: the session is looked up by route, the position as the first of all trucks whose latest run, open or not, was on that route. |

More is known of the code and stated here, each with the assumption that makes the properties
hold and the steps that break them without it:

* Two starts of one driver, over HTTP and on a socket, both look up, find no open session and
  insert one (`AtMostOneOpen` of `RouteSession`).
* A ping between the sweep's find and its save is not seen, and the session ends before its
  last activity (`ClosesAtLastActivity`, with one driver and one socket).
* A driver who was silent for longer than the limit stops before the sweep comes by: the
  session ends, `emitTruckOffline` is skipped, the residents keep a frozen truck (`StopTellsResidents`).
* The schedule is edited between a start and a reconnection: the socket resumes the old
  session with the new route (`ContextMatchesSession`).
* A fix filed under an ended session between the archiver's load and its DELETE is deleted
  without being archived (`ClaimedFixesAreKept` with "late" in `Upsets`).
* Deleting a driver leaves the day's fixes without a session that could claim them, and at
  midnight they are erased (`FiledFixesSurvive` with "remove" in `Upsets`).
* Two fixes evaluated side by side both look for the day's log before either has written it,
  and the resident gets the same alert twice (`OncePerDay` with two evaluations).
* A rename that overlaps a redraw writes the old centerline back (`CenterlineIsCurrent` without `Exclusive`).
* Without `Exclusive` in `Accounts`: two creations take the same username in two tables or tenants;
  two administrators removed at once are the last two; a change of the own name, loaded before a
  deactivation and saved after it, makes the account active again.
* Without `Exclusive` in `Fleet`: two assignments give one route to two trucks, since the unique key is
  of truck and day only.
* Without `Undisturbed` in `RouteHistory`: a reader looks for the track, the archiver commits, and the
  reader finds the run without its fixes.

## 4. Fairness

`RouteSession`: weak fairness of `SweepFind`, `SweepSave` and `Tick` only. The sweep is a
`setInterval` of the server, its statements are answered as long as the database is there,
and time passes. Nothing is assumed of drivers or of handlers in flight.

`RouteArchive`: weak fairness of `Tick` and, for each process, of its archiver's next
statement. The archiver runs at start and from a `setInterval`. Drivers, readers and upsets
owe nothing; the number of upsets is bounded, which stands for "failures stop
for long enough".

`ResidentAlerts`: weak fairness of `Deliver` for each evaluation: statements and pushes
are answered, one way or the other. Drivers, residents, administrators and upsets
owe nothing, and `DueIsLogged` speaks of the time when no upset is left.

The other modules have no fairness and no liveness property: a request that is never answered
changes nothing more.

## 5. What is proved

TLAPS proves the theorems for every value of the constants that satisfies the named
assumptions (`NoneAssumption`, `BoundsAssumption`, `RowAssumption`, `MetricsAssumption`,
`HistoryAssumption`: NULL is no datum, bounds and thresholds are numbers).

* `HistoryProofs!RunsNeverOverlap`: the abstract specification implies that runs of one
  driver do not overlap, whatever drivers, names and moments it is instantiated with, as long
  as they are data (`DataAssumption`, here a hypothesis).
* `RouteSessionProofs`: `TypesKept`, `TimesStayOrdered`, `FixesHaveTheirOwner` and
  `ClosedStaysClosed`, for any number of drivers, sockets and handlers in flight and with
  every upset. The inductive invariant (`Invariance`) adds to types and
  `TimesOrdered`: the rows up to `nextId` are the ones in use (`RowsInv`); the copies of a running
  sweep are no newer than the rows (`SweepInv`: without it a save could
  end a session before it started); a socket's context and a handler's
  locals name sessions of their own driver (`ClientInv`, `TaskInv`: what a fix is
  filed under was read at an earlier await); the last fix names a row (`FixInv`).
* `RouteSessionProofs!SessionsNeverOverlap`, `!OneOpenSession` and `!Refinement`, under `OneAtATime`
  (`MaxInFlight` is 1: the apps await an answer before the next request; nothing in the server
  makes them, and two starts at once do insert twice, section 3). Sockets, the sweep,
  restarts, failures and the administrators' edits may come in between. `NoOverlap` is not inductive alone:
  what a start has found is still so when it inserts, since only the sweep and a stop
  close sessions and only this driver's one request opens them (`SerialInv`). `Refinement` shows that every
  step is one of `DriverRuns` or a stutter (`DriverRunsStep`): the insertion is `Begin`
  (`InsertBegins`), a step that writes ends is an `End` of exactly the rows whose
  end changes (`OthersEnd`), a tick is `Pass`; the clock stays within its bound (`ClockInv`).
* `RouteSessionProofs!SessionsEndLate`, under `AppOnly` (drivers use the app's HTTP requests, and
  handlers and sweeps finish within a clock unit: milliseconds, where the unit is a fraction of
  the half hour that makes a session silent), and `!HttpFixesAreInOpenSessions` and
  `!FreshStopsAreTold`, under `OneAtATime` besides. Between the sweep's find and its save no
  ping reaches the rows it has found (`SweepFresh`): a ping looks for sessions that are not silent, and no row becomes
  silent while a handler is under way (`FixTimely`). Hence the session a fix is filed under is
  still open (`HttpInv`), and a stop that finds its session fresh ends that one. With one
  socket TLC finds each of the three violated: a connection goes on recording in its session, silent or not.
* `RouteArchiveProofs`: `TypesKept` and `RunsListedOnce` with every upset. `RunsListedOnce`
  rests on tracks never going away: what the first query has shown as archived is excluded
  by the second.
* `RouteArchiveProofs!KeepsClaimedFixes` and `!Refinement`: the two safety properties of the
  `archive` run, for any number of processes, runs, fixes, failures and
  crashes, under the assumption `Orderly` that no fix comes after its run has ended and no
  driver is deleted. Either case loses fixes, so the assumption cannot be dropped (section 3). The inductive invariant (`Invariance`): an archived run has ended and its
  selection is empty (`ArchivedInv`), so a second transaction on the same run deletes
  nothing; what a transaction has loaded contains all its DELETE will select, and holds
  exactly the fixes filed under the run (`LoadedOk`); of two transactions only
  one inserts a run's track (`LockInv`); a fix without a session id is a legacy one
  (`WorldInv`). The steps rest on three facts about any step: ended
  sessions do not change (`EndedStay`), their selection only shrinks
  (`SelectionShrinks`), and what is filed under an unarchived one stays (`FiledStay`).
* `ResidentAlertsProofs`: `TypesKept`, and `References` (what requests, evaluations and devices
  point to exists, and only endpoints that are gone are pruned: `RefInv`).
  `RegisteredStaysReachable` and `AlertedCanLeave`, for any number of
  devices, requests, evaluations and upsets, under `Patient`. Their invariant (`Own`): a device
  with a token has the row of that resident and no other device has the same resident; a
  device without one has no active row; a request's new resident is nobody's until its last
  statement; the requests in flight are of different devices. Without `Patient` a
  registration can overlap an unregistration of the same browser, which then keeps an active
  row and forgets the token.
  `OneEvaluationAlertsOnce`: with at most one evaluation slot, `OncePerDay` holds for any
  number of residents, devices, days and upsets (`PushInv`: an alert about to be pushed has no log; an alert pushed
  once more than upsets happened has its log, or an evaluation about to save it).
  Two evaluations side by side break it, so the hypothesis cannot be dropped (section 3).
  `NearerIsAlwaysMoreUrgent` and `FreshFixAlwaysMissesNobody`, with no hypothesis: they rest on
  arithmetic about the engine's decision alone (`ByAhead` puts the query's stretch and the stage of a
  home in terms of how far ahead of the truck it is, `NobodyToldLess` and
  `NobodyOverlooked` compare them), for any route, pace, distances and ages of fixes. The
  condition in the second, a lead distance no shorter than the arrival distance, is part of the
  property: a slow truck is near people the query does not ask for.

* `AssignmentProofs`: `TypesKept`, `NobodyWalksTooFar`, `HandmadeIsKept` and
  `RedrawServesEverybody`, for any map, any number of routes, residents and requests, every
  fault and whatever overlaps. `WithinReach` is not inductive alone: a row about to be saved
  must be within the limit too, or locked (`ReachInv`); that its route exists is checked by
  the foreign key when it is saved. `RedrawServesEverybody` needs only types: it is about one
  statement, and rests on there being a nearest route among finitely many, which is proved
  by descent on distances (`WellFoundedInduction`).
  `CenterlinesAreCurrent`, under `Exclusive`: of one route there is one request
  at a time (`OneEach`), the copy a request loaded is still the row, but for what it
  changes (`CopyCurrent`), a removed or future route has no segments (`NoRouteNoSegments`), and
  ids in use are below the next one (`Numbering`). Without `Exclusive` a rename that overlaps
  a redraw writes the old centerline back.

* `FleetProofs`: `TypesKept` and `NothingIsWiped`, for any number of trucks, assignments and
  requests and whatever overlaps. Both need to know what a request has read (`RecordsOk`: the row it writes is the
  one it was asked to change, and none for a new one) and that ids in use are below the next one
  (`Numbering`): a new assignment goes where there is none.
  `RouteKeepsOneTruck`, under `Exclusive`: one request at a time is about an assignment
  (`AtMostOne`), so what its clash check found free is free until it writes (`Checked`), removals of
  trucks and routes included. Without `Exclusive` two requests pass the check together, and the
  unique key stops only two for the same truck.

* `AccountsProofs`: `TypesKept` and `OnlyStaffChanges`, whatever overlaps. A request's token,
  the copy it has loaded and the row may all be older than one another, and a save brings a
  removed row back; what they agree on for ever is whose the id is (`IdInv`: there is one assignment of a
  role and a tenant to ids that rows, copies and tokens all bear out), since ids are never
  given twice.
  `UsernamesStayUnique`, `OneAdminRemains` and `NobodyComesBack`, under `Exclusive`: what a
  request has read is still so when it writes (`SerialInv`: its copy is the row but for what it
  changes, the other administrator it counted is still active, the username it found free is free).
  The argument uses that two changes at a time are of different tenants, hence of different rows,
  and of other administrators than those counted. Without `Exclusive` each of the three fails.
* `AssistantProofs`: `TypesKept` and `WhatWasSeenSurvives`, whatever overlaps, for every fault but
  the one that ends the turn itself. A conversation stays its owner's until it
  is deleted (`Placed`), nothing is shown that is not in the text to be stored (`Shown`), and in
  the last statement the answer is there (`Stored`), since new rows take new ids.
  `HistoryStaysUsable`, under `FewTurns`: no more turns are in progress than the history has
  messages (15 in the code). Every message after the last question of a conversation is the answer of a
  turn that had asked before, and whoever has answered asks again before answering again: so
  the answers at the end and the turns still to answer are together no more than the turns
  there are (`TailInv`), and the last question is within the limit. Without
  the hypothesis the property fails, as TLC shows with a history of one and two turns: the answers of
  others fill the limit, they are trimmed for want of a question, and the model is asked with nothing.

* `HistoryProofs`: what the history shows of a run, for any fixes in any order, any number of
  them, and any thresholds, gaps and bucket sizes.
  `PathsAreComplete`, under `Undisturbed` (nothing is archived between two statements of a
  reader; a reader that finds no track, and then the fixes gone, shows an empty run) and `NoneIsNoRun` (null
  is not a run that was rebuilt). In four parts: sorting by counting who comes earlier is a
  permutation in order of time (`Sorting`: different fixes have different places, and as many places as
  fixes are all taken); the fold of `Keep` leaves points that rise in time and account for every fix so far,
  a fix being dropped only for the point before it, which is the last and stays
  where it is (`Clean`, `DropStep`, `AddStep`); the span takes in the first and the last
  (`RunSpanHolds`); and what a request is to account for is still in the table while it is
  served (`Served`). `TracksAreComplete` is the archiver's half without `Undisturbed`.
  `MeasuresAreAlwaysTrue`, under `NoneIsNull` (null is neither a point nor a stretch), whatever is
  archived meanwhile. Its loop invariant (`MeasuredTo`): after k points the list holds the
  pieces that are over when the next one is seen (`Over`), the open stretch is the piece that reaches the k-th
  point, and the distance off the route is the total over both. A point on the route closes the
  piece, one off the route soon after carries it on, another begins one (`MeasureOn`,
  `MeasureFurther`, `MeasureBegun`). The coverage's loop (`CoveredTo`) marks what each point covers
  with the one before it, and bucket numbers rise with the offset (`Buckets`, `BetweenIs`).
  Totals over finite sets are `FoldFunction`: any element may be taken first
  (`TakeAny`), so one more adds its value (`TotalMore`).

Induction: the library's induction theorems and its theorems on recursive functions take an operator as a
parameter, which no prover here instantiates. The proofs about tracks do without: a property of numbers, or of
the subsets of a finite set, is the set of those that have it, and a set with no least
element outside it is everything (`SmallestNumber`, `Climb`, `Smaller`); that a fold has the
values its recursion asks for is proved once for functions (`FoldExists`), from which
the three loops' values are read off (`KeepFolds`, `MeasureFolds`, `CoverFolds`). Z3 does the
arithmetic, division by a bucket size included.

Only model-checked: everything about liveness and fairness (`AbandonedIsClosed`, `EveryRunIsArchived`,
`OldFixesLeave`, `DueIsLogged`), which is out of this prover's reach, and what the two runs that
expect a violation show.

## 6. What is not modelled

The dashboard is read-only aggregate SQL: a model of it would repeat the query. The shell,
the migrations and the maintenance scripts have no behaviour over time; the constraints the
migrations create are part of the actions that meet them, and the seed is the `Init` of
`Accounts`. PostGIS (the projection of a fix, the simplification of a line), password
hashing, signatures and throttling are libraries, of which only the outcomes appear. Editing the system
configuration and its cache, the choice of a route's colour, the uniqueness of a route's name,
zones, and the reports that only read (`getSummaries`, the log of notifications) are left out.

What would come next:

1. The configuration and its cache, and the colours of the routes.
