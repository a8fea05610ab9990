------------------------------- MODULE LiveView -------------------------------
(***************************************************************************)
(* The residents' live view: a resident's device exchanges its owner token *)
(* for a picture of the run on the resident's route and a token for the    *)
(* socket, on which the positions of that route arrive.                    *)
(*                                                                         *)
(* The exchange is a handler with an await at every step; the drivers'     *)
(* HTTP calls, modelled statement by statement in RouteSession, are one    *)
(* step each here.  A driver stays with a truck, so that a run is its      *)
(* truck's, and routes stay.  Trucks are numbered, because the picture     *)
(* looks them up in the order of their ids.  A fix is the time it was      *)
(* taken; where it was, the route's geometry and the resident's own pin    *)
(* are left out.                                                           *)
(***************************************************************************)
EXTENDS Integers, FiniteSets, FiniteSetsExt

CONSTANTS
  Residents, Routes,
  NONE,             \* SQL NULL, an absent property
  InactivityLimit,  \* INACTIVITY_LIMIT_MS, in clock units
  TokenTtl,         \* TOKEN_TTL_SECONDS, in clock units
  MaxTruck,         \* bound: ids of trucks
  MaxRuns,          \* bound: rows of route_sessions
  MaxTime,          \* bound: the last value of the clock
  MaxEdits          \* bound: how many edits the administrators make

VARIABLES
  now,        \* Date.now()
  tenant,     \* tenants.is_active
  residents,  \* the rows of residents
  schedule,   \* today's route of a truck
  sessions,   \* route_sessions
  nextRun,    \* the next value of its id sequence
  fixes,      \* truck_positions: the time of a truck's latest fix
  request,    \* a resident's request in progress
  page,       \* what a resident's page holds: the answer, and what came since
  rooms,      \* the residents in a route's room
  edits       \* how many edits there have been

directory == <<tenant, residents, schedule, edits>>
vars == <<now, directory, sessions, nextRun, fixes, request, page, rooms>>

-----------------------------------------------------------------------------
(* Types                                                                   *)

OrNone(S) == S \cup {NONE}
Trucks == 1..MaxTruck
RunId == 1..MaxRuns

Resident == [active: BOOLEAN, route: OrNone(Routes)]
Session == [truck: Trucks, route: Routes, started: Nat, last: Nat, ended: OrNone(Nat)]

\* IResidentLivePayload, with the time it expires at.
LivePayload == [sub: Residents, route: Routes, expires: Nat]
\* ITruckPositionEvent
PositionEvent == [truck: Trucks, recordedAt: Nat]

\* IResidentLiveSession, and on the page also what the socket says afterwards.
LiveSession == [token: LivePayload, startedAt: OrNone(Nat),
                lastPosition: OrNone(PositionEvent)]

\* `session` and `latest` are what the handler has read.
Request == [at: {"idle", "tenant", "token", "resident", "route", "session", "positions",
                 "speed"},
            resident: OrNone(Residents), owner: BOOLEAN, route: OrNone(Routes),
            session: OrNone(RunId), latest: OrNone(PositionEvent)]
NoRequest == [at |-> "idle", resident |-> NONE, owner |-> FALSE, route |-> NONE,
              session |-> NONE, latest |-> NONE]

TypeOK ==
  /\ now \in 0..MaxTime
  /\ tenant \in BOOLEAN
  /\ residents \in [Residents -> OrNone(Resident)]
  /\ schedule \in [Trucks -> OrNone(Routes)]
  /\ sessions \in [RunId -> OrNone(Session)]
  /\ nextRun \in 1..(MaxRuns + 1)
  /\ fixes \in [Trucks -> OrNone(Nat)]
  /\ request \in Request
  /\ page \in [Residents -> OrNone(LiveSession)]
  /\ rooms \in [Routes -> SUBSET Residents]
  /\ edits \in 0..MaxEdits

-----------------------------------------------------------------------------
(* Queries                                                                 *)

RunsOf(t) == {s \in RunId : sessions[s] # NONE /\ sessions[s].truck = t}
Open(s) == sessions[s] # NONE /\ sessions[s].ended = NONE
Silent(s) == now - sessions[s].last > InactivityLimit

\* ORDER BY started_at DESC LIMIT 1: any of the newest when several tie.
Newest(S) == {s \in S : \A q \in S : sessions[q].started <= sessions[s].started}

Fresh(S) ==
  IF S = {} THEN {NONE} ELSE {IF Silent(s) THEN NONE ELSE s : s \in Newest(S)}
FindOpenForDriver(t) == Fresh({s \in RunsOf(t) : Open(s)})
FindOpenForRoute(r) == Fresh({s \in RunId : Open(s) /\ sessions[s].route = r})

\* The run a truck's latest fix is shown with: an open one, or else the last one.
RunShown(t) ==
  LET open == {s \in RunsOf(t) : Open(s)}
  IN  Newest(IF open = {} THEN RunsOf(t) ELSE open)

\* GetLatestPositions has one row for every truck with a fix, by truck id; the live view
\* takes the first on the route.
TrucksShownOn(r) ==
  {t \in Trucks : fixes[t] # NONE /\ \E s \in RunShown(t) : sessions[s].route = r}
FirstShownOn(r) ==
  LET trucks == TrucksShownOn(r)
  IN  IF trucks = {} THEN NONE
      ELSE [truck |-> Min(trucks), recordedAt |-> fixes[Min(trucks)]]

-----------------------------------------------------------------------------
(* ResidentLiveService.createSession                                       *)

Begin(p, own) ==
  /\ request.at = "idle"
  /\ request' = [NoRequest EXCEPT !.at = "tenant", !.resident = p, !.owner = own]
  /\ UNCHANGED <<now, directory, sessions, nextRun, fixes, page, rooms>>

Proceed(from, to) ==
  /\ request.at = from
  /\ request' = to
  /\ UNCHANGED <<now, directory, sessions, nextRun, fixes, page, rooms>>

FindTenant ==
  Proceed("tenant", IF tenant THEN [request EXCEPT !.at = "token"] ELSE NoRequest)

VerifyOwnerToken ==
  Proceed("token", IF request.owner /\ residents[request.resident] # NONE
                   THEN [request EXCEPT !.at = "resident"] ELSE NoRequest)

\* `route`: residents.route_id of the row that was found.
FindResident ==
  LET resident == residents[request.resident]
  IN  Proceed("resident",
              IF resident # NONE /\ resident.active /\ resident.route # NONE
              THEN [request EXCEPT !.at = "route", !.route = resident.route]
              ELSE NoRequest)

FindRoute == Proceed("route", [request EXCEPT !.at = "session"])

FindSession ==
  \E s \in FindOpenForRoute(request.route) :
    Proceed("session", [request EXCEPT !.at = "positions", !.session = s])

GetLatestPositions ==
  Proceed("positions",
          [request EXCEPT !.at = "speed", !.latest = FirstShownOn(request.route)])

\* The token is signed when the answer is put together, the speed fetched last.
Answer ==
  /\ request.at = "speed"
  /\ page' = [page EXCEPT ![request.resident] =
       [token |-> [sub |-> request.resident, route |-> request.route,
                   expires |-> now + TokenTtl],
        startedAt |-> IF request.session = NONE THEN NONE
                      ELSE sessions[request.session].started,
        lastPosition |-> IF request.session = NONE THEN NONE ELSE request.latest]]
  /\ request' = NoRequest
  /\ UNCHANGED <<now, directory, sessions, nextRun, fixes, rooms>>

-----------------------------------------------------------------------------
(* The socket                                                              *)

\* A token is asked for its validity once, when the socket connects.
JoinResident(p) ==
  /\ page[p] # NONE
  /\ now < page[p].token.expires
  /\ rooms' = [rooms EXCEPT ![page[p].token.route] = @ \cup {p}]
  /\ UNCHANGED <<now, directory, sessions, nextRun, fixes, request, page>>

Leave(p) ==
  /\ \E r \in Routes : p \in rooms[r]
  /\ rooms' = [r \in Routes |-> rooms[r] \ {p}]
  /\ UNCHANGED <<now, directory, sessions, nextRun, fixes, request, page>>

\* The pages of a room after an event: the truck's position, or NONE when the run ended.
Emit(r, position) ==
  page' = [p \in Residents |-> IF p \in rooms[r] /\ page[p] # NONE
                               THEN [page[p] EXCEPT !.lastPosition = position]
                               ELSE page[p]]

-----------------------------------------------------------------------------
(* The drivers                                                             *)

EndedAtLast(S) ==
  [s \in RunId |-> IF s \in S THEN [sessions[s] EXCEPT !.ended = sessions[s].last]
                   ELSE sessions[s]]

\* A run that is still fresh is resumed, a stale one closed before the next is opened.
StartRun(t) ==
  /\ schedule[t] # NONE
  /\ FindOpenForDriver(t) = {NONE}
  /\ nextRun <= MaxRuns
  /\ sessions' = [EndedAtLast({s \in RunsOf(t) : Open(s) /\ Silent(s)})
                    EXCEPT ![nextRun] = [truck |-> t, route |-> schedule[t], started |-> now,
                                         last |-> now, ended |-> NONE]]
  /\ nextRun' = nextRun + 1
  /\ UNCHANGED <<now, directory, fixes, request, page, rooms>>

\* A fix is replayed as late as it may come: fixes[t] is the latest that was taken.
StoreFix(t) ==
  \E s \in FindOpenForDriver(t) \ {NONE} : \E taken \in 0..now :
    /\ sessions' = [sessions EXCEPT ![s].last = now]
    /\ fixes' = [fixes EXCEPT ![t] = IF @ = NONE \/ @ < taken THEN taken ELSE @]
    /\ Emit(sessions[s].route, [truck |-> t, recordedAt |-> taken])
    /\ UNCHANGED <<now, directory, nextRun, request, rooms>>

\* The room is told of the run that the lookup still calls fresh; every run is ended.
EndRun(t) ==
  \E s \in FindOpenForDriver(t) :
    /\ \E q \in RunsOf(t) : Open(q)
    /\ sessions' = [q \in RunId |-> IF q \in RunsOf(t) /\ Open(q)
                                    THEN [sessions[q] EXCEPT !.ended = now] ELSE sessions[q]]
    /\ IF s = NONE THEN UNCHANGED page ELSE Emit(sessions[s].route, NONE)
    /\ UNCHANGED <<now, directory, nextRun, fixes, request, rooms>>

SweepInactive ==
  LET abandoned == {s \in RunId : Open(s) /\ Silent(s)}
  IN  /\ abandoned # {}
      /\ sessions' = EndedAtLast(abandoned)
      /\ UNCHANGED <<now, directory, nextRun, fixes, request, page, rooms>>

-----------------------------------------------------------------------------
(* The administrators, and the clock                                       *)

Edit ==
  /\ edits < MaxEdits
  /\ edits' = edits + 1
  /\ UNCHANGED <<now, sessions, nextRun, fixes, request, page, rooms>>

\* A route has one truck a day.
Upsert(t, r) ==
  /\ \A q \in Trucks \ {t} : schedule[q] # r
  /\ schedule' = [schedule EXCEPT ![t] = r]
  /\ Edit
  /\ UNCHANGED <<tenant, residents>>

RemoveSchedule(t) ==
  /\ schedule[t] # NONE
  /\ schedule' = [schedule EXCEPT ![t] = NONE]
  /\ Edit
  /\ UNCHANGED <<tenant, residents>>

ChangeResident(p) ==
  /\ residents[p] # NONE
  /\ \E row \in OrNone(Resident) : residents' = [residents EXCEPT ![p] = row]
  /\ Edit
  /\ UNCHANGED <<tenant, schedule>>

Suspend ==
  /\ tenant' = ~tenant
  /\ Edit
  /\ UNCHANGED <<residents, schedule>>

Tick ==
  /\ now < MaxTime
  /\ now' = now + 1
  /\ UNCHANGED <<directory, sessions, nextRun, fixes, request, page, rooms>>

-----------------------------------------------------------------------------
(* Specification                                                           *)

Init ==
  /\ now = 0
  /\ tenant = TRUE
  /\ residents \in [Residents -> [active: {TRUE}, route: OrNone(Routes)]]
  /\ schedule = [t \in Trucks |-> NONE]
  /\ sessions = [s \in RunId |-> NONE]
  /\ nextRun = 1
  /\ fixes = [t \in Trucks |-> NONE]
  /\ request = NoRequest
  /\ page = [p \in Residents |-> NONE]
  /\ rooms = [r \in Routes |-> {}]
  /\ edits = 0

CreateSession ==
  \/ \E p \in Residents, own \in BOOLEAN : Begin(p, own)
  \/ FindTenant \/ VerifyOwnerToken \/ FindResident \/ FindRoute \/ FindSession
  \/ GetLatestPositions \/ Answer
Socket == \E p \in Residents : JoinResident(p) \/ Leave(p)
Drivers == SweepInactive \/ \E t \in Trucks : StartRun(t) \/ StoreFix(t) \/ EndRun(t)
Administrators ==
  \/ \E t \in Trucks : RemoveSchedule(t) \/ \E r \in Routes : Upsert(t, r)
  \/ Suspend
  \/ \E p \in Residents : ChangeResident(p)

Next == CreateSession \/ Socket \/ Drivers \/ Administrators \/ Tick
Spec == Init /\ [][Next]_vars

-----------------------------------------------------------------------------
(* Properties                                                              *)

Running(t, r) == \E s \in RunsOf(t) : Open(s) /\ sessions[s].route = r
HeardOf(s) == fixes[sessions[s].truck] # NONE /\ fixes[sessions[s].truck] >= sessions[s].started

\* createSession, "paint the truck where it already is": when the run it has found is
\* going on, and its truck has been heard of, the truck in the picture is one that is
\* running the route.
PaintsARunningTruck ==
  [][(GetLatestPositions /\ request.session # NONE
        /\ Open(request.session) /\ HeardOf(request.session))
       => Running(request'.latest.truck, request.route)]_vars
=============================================================================
